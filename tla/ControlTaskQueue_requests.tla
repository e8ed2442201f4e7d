--------------------- MODULE ControlTaskQueue_requests ----------------------
(***************************************************************************)
(* The control task queue: its wake-up timer is not late, and requests hand*)
(* on what a task was scheduled with last.                                 *)
(***************************************************************************)
EXTENDS ControlTaskQueue_types

-----------------------------------------------------------------------------
(***************************************************************************)
(* The wake-up timer.                                                      *)
(***************************************************************************)
\* The event loop thread is sure to wake up at once.
Committing == \E x \in Threads : pc[x] = "commit"
Zero == wakeup = 0 \/ Committing

\* A deadline of the timer that is late for no sleeping task.
Covered(w) ==
    \A i \in DOMAIN sleeping_queue : 0 <= w /\ w <= effective_deadline[sleeping_queue[i]]

\* Who is here will set the timer, or look whether it is to be set, after what it
\* has done to the ready queue and to the sleeping tasks.
AlertLabels == {"push", "link", "set", "trylock", "lock"} \cup (CriticalLabels \ {"unlock"})
ListingLabels == CriticalLabels \ {"unlock_push", "renew", "u_check", "unlock"}

\* try_set_deadline() excludes itself; users set the timer to zero only.  After
\* update_wakeup_timer_() has set it to zero it is zero or about to be, and what
\* that function is about to set is late for no task.
Wakes(x) ==
    /\ wakeup_setter = x <=> pc[x] \in {"commit", "u_commit"}
    /\ pc[x] \in {"set", "commit"} => loc[x].wakeup = 0
    /\ pc[x] = "u_check" /\ loc[x].wakeup = 0 => Zero
    /\ pc[x] \in {"u_set", "u_commit"} => Covered(loc[x].wakeup)

\* The timer is not late for a task, ready or sleeping, unless somebody is about
\* to see to it.
WakeInv ==
    /\ now > 0
    /\ \A x \in Threads : Wakes(x)
    /\ ready_queue_size > 0 => Zero \/ \E x \in Threads : pc[x] \in AlertLabels
    /\ Covered(wakeup) \/ Committing \/ \E x \in Threads : pc[x] \in ListingLabels

\* A step that does not set the timer, by a thread that will look at the tasks it
\* has changed.
LEMMA WakeAside ==
  ASSUME TypeOK, LockInv, WakeInv, NEW x \in Threads, Moves(x),
         UNCHANGED <<wakeup, wakeup_setter, now>>,
         pc[x] \notin {"commit", "u_set", "u_commit", "u_check"},
         pc'[x] \notin {"commit", "u_set", "u_commit", "u_check"},
         pc'[x] = "set" => loc'[x].wakeup = 0,
         pc[x] \in AlertLabels => pc'[x] \in AlertLabels,
         pc[x] \in ListingLabels => pc'[x] \in ListingLabels,
         ready_queue_size' > 0 => ready_queue_size > 0 \/ pc'[x] \in AlertLabels,
         \/ UNCHANGED <<sleeping_queue, effective_deadline>>
         \/ pc[x] \in CriticalLabels /\ pc'[x] \in ListingLabels
  PROVE  WakeInv'
<1>1. \A y \in Threads \ {x} : pc'[y] = pc[y] /\ loc'[y] = loc[y] BY Zenon DEF Moves
<1>2. Committing' <=> Committing BY <1>1, Zenon DEF Committing
<1>3. Zero' <=> Zero BY <1>2, Zenon DEF Zero
<1>4. \A y \in Threads : Wakes(y) BY Zenon DEF WakeInv
<1>5. ASSUME NEW y \in Threads PROVE Wakes(y)'
  <2>1. CASE y = x
    <3>1. wakeup_setter' # x BY <1>4, <2>1, Zenon DEF Wakes
    <3> QED BY <2>1, <3>1, Zenon DEF Wakes
  <2>2. CASE y # x
    <3>1. pc'[y] = pc[y] /\ loc'[y] = loc[y] /\ Wakes(y) BY <1>1, <1>4, <2>2, Zenon
    <3>2. CASE UNCHANGED <<sleeping_queue, effective_deadline>>
      <4>1. Covered(loc[y].wakeup)' <=> Covered(loc[y].wakeup) BY <3>1, <3>2, Zenon DEF Covered
      <4> QED BY <1>3, <3>1, <4>1, Zenon DEF Wakes
    <3>3. CASE pc[x] \in CriticalLabels
      <4>1. pc[y] \notin CriticalLabels BY <2>2, <3>3, OneInside, Zenon
      <4>2. pc[y] \notin {"u_set", "u_commit", "u_check"} BY <4>1, CriticalSet, Zenon
      <4> QED BY <3>1, <4>2, Zenon DEF Wakes
    <3> QED BY <3>2, <3>3, Zenon
  <2> QED BY <2>1, <2>2, Zenon
<1>6. (\E y \in Threads : pc[y] \in AlertLabels) => \E y \in Threads : pc'[y] \in AlertLabels
  BY <1>1, Zenon
<1>7. (\E y \in Threads : pc[y] \in ListingLabels) => \E y \in Threads : pc'[y] \in ListingLabels
  BY <1>1, Zenon
<1>8. ready_queue_size' > 0 => Zero' \/ \E y \in Threads : pc'[y] \in AlertLabels
  BY <1>3, <1>6, Zenon DEF WakeInv
<1>9. Covered(wakeup)' \/ Committing' \/ \E y \in Threads : pc'[y] \in ListingLabels
  <2>1. CASE UNCHANGED <<sleeping_queue, effective_deadline>>
    <3>1. Covered(wakeup)' <=> Covered(wakeup) BY <2>1, Zenon DEF Covered
    <3> QED BY <1>2, <1>7, <3>1, Zenon DEF WakeInv
  <2> QED BY <2>1, Zenon
<1>10. now' > 0 BY Zenon DEF WakeInv
<1> QED BY <1>5, <1>8, <1>9, <1>10, Zenon DEF WakeInv

\* Nothing is late for a timer that is set to zero, or to the deadline of the first task.
LEMMA CoveredFirst ==
  ASSUME TypeOK, TasksInv
  PROVE  /\ Covered(0)
         /\ sleeping_queue = <<>> => \A w : Covered(w)
         /\ sleeping_queue # <<>> => Covered(effective_deadline[Head(sleeping_queue)])
<1>1. sleeping_queue \in Seq(Tasks) /\ effective_deadline \in [Tasks -> Int] BY Zenon DEF TypeOK, DataOK
<1>2. ASSUME NEW i \in DOMAIN sleeping_queue
      PROVE  effective_deadline[sleeping_queue[i]] \in Int /\ effective_deadline[sleeping_queue[i]] > 0
  <2>1. sleeping_queue[i] \in Tasks /\ InList(sleeping_queue[i], sleeping_queue) BY <1>1, <1>2, SMT, Z3 DEF InList
  <2>2. TaskOK(sleeping_queue[i]) BY <2>1, Zenon DEF TasksInv
  <2> QED BY <1>1, <2>1, <2>2, Zenon DEF TaskOK
<1>3. Covered(0) BY <1>2, SMT, Z3 DEF Covered
<1>4. sleeping_queue = <<>> => \A w : Covered(w) BY SMT, Z3 DEF Covered
<1>5. ASSUME sleeping_queue # <<>> PROVE Covered(effective_deadline[Head(sleeping_queue)])
  <2>1. 1 \in DOMAIN sleeping_queue /\ Head(sleeping_queue) = sleeping_queue[1] BY <1>1, <1>5, SMT, Z3
  <2>2. \A i \in DOMAIN sleeping_queue : i \in Int /\ 1 <= i BY <1>1, SMT, Z3
  <2>3. Sorted(sleeping_queue, effective_deadline) BY Zenon DEF TasksInv
  <2>4. ASSUME NEW i \in DOMAIN sleeping_queue
        PROVE  effective_deadline[sleeping_queue[1]] <= effective_deadline[sleeping_queue[i]]
    <3>1. CASE i = 1 BY <1>2, <3>1, SMT, Z3
    <3>2. CASE 1 < i BY <2>1, <2>3, <3>2, Zenon DEF Sorted
    <3> QED BY <2>2, <3>1, <3>2, SMT, Z3
  <2> QED BY <1>2, <2>1, <2>4, SMT, Z3 DEF Covered
<1> QED BY <1>3, <1>4, <1>5, Zenon

\* The timer is set by one thread at a time: the one that is just setting it.
LEMMA SetterCommits ==
  ASSUME TypeOK, WakeInv, wakeup_setter # NoThread
  PROVE  wakeup_setter \in Threads /\ pc[wakeup_setter] \in {"commit", "u_commit"}
<1>1. wakeup_setter \in Threads BY Zenon DEF TypeOK, DataOK
<1> QED BY <1>1, Zenon DEF WakeInv, Wakes

\* try_set_deadline(0) of a user, or of the destructor.  Another call that is in
\* progress sets the timer to zero, or is followed by another look at the queue.
LEMMA RequestWakes ==
  ASSUME TypeOK, LockInv, TasksInv, WakeInv, NEW x \in Users, RequestSet(x)
  PROVE  WakeInv'
<1>1. /\ x \in Threads /\ Works(x) /\ pc[x] \in {"set", "commit"}
      /\ pc'[x] \in {"commit", "unguard", "return", "join"}
  BY RequestEdges, Zenon DEF Threads
<1>2. /\ \A y \in Threads \ {x} : pc'[y] = pc[y] /\ loc'[y] = loc[y]
      /\ UNCHANGED <<now, ready_queue_size, sleeping_queue, effective_deadline, loc>>
  BY <1>1, Zenon DEF Works, Moves, RequestSet, TrySet, Commit, misc, ready, lists, effective
<1>3. \A y \in Threads : Wakes(y) BY Zenon DEF WakeInv
<1>4. now' > 0 BY <1>2, Zenon DEF WakeInv
<1>5. \A w : Covered(w)' <=> Covered(w) BY <1>2, Zenon DEF Covered
<1>6. pc[x] \notin CriticalLabels /\ pc'[x] \notin CriticalLabels BY <1>1, CriticalSet, Zenon
<1>7. loc[x].wakeup = 0 BY <1>1, <1>3, Zenon DEF Wakes
<1>8. NoThread \notin Threads BY ThreadsAssumption, Zenon DEF Threads
<1>9. (\E y \in Threads : pc[y] \in ListingLabels) => \E y \in Threads : pc'[y] \in ListingLabels
  BY <1>2, <1>6, Zenon DEF ListingLabels
<1>10. ASSUME Zero => Zero', \A y \in Threads : wakeup_setter' = y <=> pc'[y] \in {"commit", "u_commit"},
              ready_queue_size > 0 => Zero' \/ \E y \in Threads : pc'[y] \in AlertLabels,
              Covered(wakeup)' \/ Committing' \/ (wakeup' = wakeup /\ (Committing => Committing'))
       PROVE  WakeInv'
  <2>1. ASSUME NEW y \in Threads PROVE Wakes(y)'
    <3>1. loc'[y].wakeup = loc[y].wakeup BY <1>2, Zenon
    <3>2. pc'[y] = pc[y] \/ (y = x /\ pc'[y] \in {"commit", "unguard", "return", "join"}) BY <1>1, <1>2, Zenon
    <3> QED BY <1>3, <1>5, <1>7, <1>10, <3>1, <3>2, Zenon DEF Wakes
  <2>2. Covered(wakeup)' \/ Committing' \/ \E y \in Threads : pc'[y] \in ListingLabels
    BY <1>5, <1>9, <1>10, Zenon DEF WakeInv, Covered
  <2> QED BY <1>2, <1>4, <1>10, <2>1, <2>2, Zenon DEF WakeInv
<1>11. loc[x].ret \in {"unguard", "return", "join"}
  <2>1. LocalsOK(x) /\ x # Loop BY <1>1, ThreadsAssumption, Zenon DEF TypeOK, ControlOK
  <2> QED BY <2>1, Zenon DEF LocalsOK, UserLocals
<1>12. pc \in [Threads -> UserLabels \cup LoopLabels] BY Zenon DEF TypeOK, ControlOK
<1>13. CASE pc[x] = "set" /\ wakeup_setter = NoThread
  <2>1. wakeup' = wakeup /\ wakeup_setter' = x /\ pc'[x] = "commit"
    BY <1>1, <1>13, Zenon DEF RequestSet, TrySet, Commit, At, Goto, Works, Moves
  <2>2. Committing' /\ Zero' BY <1>1, <2>1, Zenon DEF Committing, Zero
  <2>3. \A y \in Threads : wakeup_setter' = y <=> pc'[y] \in {"commit", "u_commit"}
    BY <1>2, <1>3, <1>8, <1>13, <2>1, Zenon DEF Wakes
  <2> QED BY <1>10, <2>2, <2>3, Zenon
<1>14. CASE pc[x] = "set" /\ wakeup_setter # NoThread
  <2>1. /\ wakeup' = wakeup /\ wakeup_setter' = wakeup_setter
        /\ pc'[x] \in {"unguard", "return", "join"}
    BY <1>1, <1>14, <1>11, <1>12, Zenon DEF RequestSet, TrySet, Commit, At, Goto
  <2>2. Committing => Committing' BY <1>2, <1>14, Zenon DEF Committing
  <2>3. Zero => Zero' BY <2>1, <2>2, Zenon DEF Zero
  <2>4. \A y \in Threads : wakeup_setter' = y <=> pc'[y] \in {"commit", "u_commit"}
    BY <1>2, <1>3, <1>14, <2>1, Zenon DEF Wakes
  <2>5. wakeup_setter \in Threads /\ pc[wakeup_setter] \in {"commit", "u_commit"} BY <1>14, SetterCommits, Zenon
  <2>6. pc'[wakeup_setter] = pc[wakeup_setter] BY <1>2, <1>14, <2>5, Zenon
  <2>7. Zero' \/ \E y \in Threads : pc'[y] \in AlertLabels
    BY <2>5, <2>6, CriticalSet, Zenon DEF Zero, Committing, AlertLabels
  <2> QED BY <1>10, <2>1, <2>2, <2>3, <2>4, <2>7, Zenon
<1>15. CASE pc[x] = "commit"
  <2>1. /\ wakeup' = 0 /\ wakeup_setter' = NoThread /\ wakeup_setter = x
        /\ pc'[x] \notin {"commit", "u_commit"}
    BY <1>1, <1>3, <1>7, <1>15, <1>11, <1>12 DEF RequestSet, TrySet, Commit, At, Goto, Wakes
  <2>2. Zero' /\ Covered(wakeup)' BY <1>5, <2>1, CoveredFirst, Zenon DEF Zero, Covered
  <2>3. \A y \in Threads : wakeup_setter' = y <=> pc'[y] \in {"commit", "u_commit"}
    BY <1>2, <1>3, <1>8, <2>1, Zenon DEF Wakes
  <2> QED BY <1>10, <2>2, <2>3, Zenon
<1> QED BY <1>1, <1>13, <1>14, <1>15, Zenon

\* A step of update_wakeup_timer_(), which the thread that has the lock runs: what
\* remains to be shown.
LEMMA WakesInside ==
  ASSUME LockInv, WakeInv, NEW x \in Threads, Moves(x), pc[x] \in CriticalLabels, pc'[x] # "commit",
         UNCHANGED <<now, ready_queue_size, sleeping_queue, effective_deadline>>,
         \A y \in Threads : wakeup_setter' = y <=> pc'[y] \in {"commit", "u_commit"},
         pc'[x] # "set", pc'[x] = "u_check" /\ loc'[x].wakeup = 0 => Zero',
         pc'[x] \in {"u_set", "u_commit"} => Covered(loc'[x].wakeup),
         ready_queue_size > 0 => Zero' \/ pc'[x] \in AlertLabels,
         Covered(wakeup') \/ Committing \/ pc'[x] \in ListingLabels
  PROVE  WakeInv'
<1>1. \A y \in Threads \ {x} : pc'[y] = pc[y] /\ loc'[y] = loc[y] BY Zenon DEF Moves
<1>2. \A w : Covered(w)' <=> Covered(w) BY Zenon DEF Covered
<1>3. pc[x] # "commit" BY CriticalSet, Zenon
<1>4. Committing' <=> Committing BY <1>1, <1>3, Zenon DEF Committing
<1>5. ASSUME NEW y \in Threads PROVE Wakes(y)'
  <2>1. CASE y = x
    <3>1. Covered(loc[x].wakeup)' <=> Covered(loc'[x].wakeup) BY Zenon DEF Covered
    <3> QED BY <2>1, <3>1, Zenon DEF Wakes
  <2>2. CASE y # x
    <3>1. pc'[y] = pc[y] /\ loc'[y] = loc[y] /\ Wakes(y) BY <1>1, <2>2, Zenon DEF WakeInv
    <3>2. pc[y] \notin CriticalLabels BY <2>2, OneInside, Zenon
    <3>3. pc[y] \notin {"u_set", "u_commit", "u_check"} BY <3>2, CriticalSet, Zenon
    <3> QED BY <3>1, <3>3, Zenon DEF Wakes
  <2> QED BY <2>1, <2>2, Zenon
<1>6. Covered(wakeup)' <=> Covered(wakeup') BY Zenon DEF Covered
<1> QED BY <1>4, <1>5, <1>6, Zenon DEF WakeInv

\* update_wakeup_timer_()
LEMMA UpdateWakes ==
  ASSUME TypeOK, LockInv, TasksInv, WakeInv, NEW x \in Threads,
         UpdateWakeup(x) \/ UpdateSet(x) \/ UpdateCheck(x)
  PROVE  WakeInv'
<1>1. pc \in [Threads -> UserLabels \cup LoopLabels] /\ loc \in [Threads -> Locals] /\ ready_queue_size \in Int
  BY Zenon DEF TypeOK, DataOK, ControlOK
<1>2. NoThread \notin Threads BY ThreadsAssumption, Zenon DEF Threads
<1>3. \A y \in Threads : Wakes(y) BY Zenon DEF WakeInv
<1>4. UNCHANGED <<now, ready_queue_size, sleeping_queue, effective_deadline>>
  BY Zenon DEF UpdateWakeup, UpdateSet, UpdateCheck, TrySet, Commit, misc, ready, lists, effective
<1>5. Moves(x) BY SharedEdges, Zenon DEF Works
<1>6. \A y \in Threads \ {x} : pc'[y] = pc[y] BY <1>5, Zenon DEF Moves
<1>7. CASE UpdateWakeup(x)
  <2>1. pc[x] = "update" /\ pc'[x] = "u_set" BY <1>7, SharedEdges, Zenon
  <2>2. /\ wakeup_setter' = wakeup_setter
        /\ loc'[x].wakeup = IF ready_queue_size # 0 THEN 0
                            ELSE IF sleeping_queue = <<>> THEN -1
                            ELSE effective_deadline[Head(sleeping_queue)]
    BY <1>1, <1>7, Zenon DEF UpdateWakeup, timer, Locals
  <2>3. Covered(loc'[x].wakeup) BY <2>2, CoveredFirst, Zenon
  <2>4. \A y \in Threads : wakeup_setter' = y <=> pc'[y] \in {"commit", "u_commit"}
    BY <1>3, <1>6, <2>1, <2>2, Zenon DEF Wakes
  <2>5. pc[x] \in CriticalLabels /\ pc'[x] \in AlertLabels /\ pc'[x] \in ListingLabels
    BY <2>1, CriticalSet, Zenon DEF AlertLabels, ListingLabels
  <2> QED BY <1>4, <1>5, <2>1, <2>3, <2>4, <2>5, WakesInside, Zenon
<1>8. CASE UpdateSet(x) /\ pc[x] = "u_set"
  <2>1. /\ loc' = loc /\ pc[x] \in CriticalLabels
        /\ \/ wakeup_setter = NoThread /\ wakeup_setter' = x /\ pc'[x] = "u_commit"
           \/ wakeup_setter # NoThread /\ wakeup_setter' = wakeup_setter /\ pc'[x] = "u_check"
    BY <1>1, <1>8, CriticalSet, Zenon DEF UpdateSet, TrySet, Commit, At, Goto
  <2>2. \A y \in Threads : wakeup_setter' = y <=> pc'[y] \in {"commit", "u_commit"}
    BY <1>2, <1>3, <1>6, <1>8, <2>1, SMT, Z3 DEF Wakes
  <2>3. Covered(loc'[x].wakeup) BY <1>3, <1>8, <2>1, Zenon DEF Wakes
  <2>4. ASSUME wakeup_setter # NoThread PROVE Committing /\ Zero'
    <3>1. wakeup_setter \in Threads /\ pc[wakeup_setter] \in {"commit", "u_commit"} BY <2>4, SetterCommits, Zenon
    <3>2. wakeup_setter # x BY <1>8, <3>1, Zenon
    <3>3. pc[wakeup_setter] = "commit" BY <2>1, <3>1, <3>2, OneInside, CriticalSet, Zenon
    <3> QED BY <1>6, <3>1, <3>2, <3>3, Zenon DEF Committing, Zero
  <2>5. pc'[x] \in AlertLabels /\ (pc'[x] = "u_commit" => pc'[x] \in ListingLabels)
    BY <2>1, CriticalSet, Zenon DEF AlertLabels, ListingLabels
  <2>6. pc'[x] \notin {"set", "commit"} BY <2>1, Zenon
  <2> QED BY <1>4, <1>5, <2>1, <2>2, <2>3, <2>4, <2>5, <2>6, WakesInside
<1>9. CASE UpdateSet(x) /\ pc[x] = "u_commit"
  <2>1. /\ wakeup' = loc[x].wakeup /\ wakeup_setter' = NoThread /\ loc' = loc /\ pc'[x] = "u_check"
        /\ pc[x] \in CriticalLabels
    BY <1>1, <1>9, CriticalSet, Zenon DEF UpdateSet, TrySet, Commit, At, Goto
  <2>2. \A y \in Threads : wakeup_setter' = y <=> pc'[y] \in {"commit", "u_commit"}
    BY <1>2, <1>3, <1>6, <1>9, <2>1 DEF Wakes
  <2>3. Covered(wakeup') BY <1>3, <1>9, <2>1, Zenon DEF Wakes
  <2>4. pc'[x] \in AlertLabels /\ (loc'[x].wakeup = 0 => Zero')
    BY <2>1, CriticalSet, Zenon DEF AlertLabels, Zero
  <2> QED BY <1>4, <1>5, <2>1, <2>2, <2>3, <2>4, WakesInside, Zenon
<1>10. CASE UpdateCheck(x)
  <2>1. pc[x] = "u_check" /\ pc'[x] \in {"u_set", "unlock", "pop", "sleep"} BY <1>10, SharedEdges, Zenon
  <2>2. wakeup' = wakeup /\ wakeup_setter' = wakeup_setter BY <1>10, Zenon DEF UpdateCheck, timer
  <2>3. \A y \in Threads : wakeup_setter' = y <=> pc'[y] \in {"commit", "u_commit"}
    BY <1>3, <1>6, <2>1, <2>2, Zenon DEF Wakes
  <2>4. pc[x] \in CriticalLabels /\ (pc'[x] # "unlock" => pc'[x] \in AlertLabels /\ pc'[x] \in ListingLabels)
    BY <2>1, CriticalSet, Zenon DEF AlertLabels, ListingLabels
  <2>5. pc'[x] = "u_set" => Covered(loc'[x].wakeup)
    <3>1. pc'[x] = "u_set" => loc'[x].wakeup = 0
      BY <1>1, <1>10, <2>1, Zenon DEF UpdateCheck, Goto, FetchLabel, Locals
    <3> QED BY <3>1, CoveredFirst, Zenon
  <2>6. ready_queue_size > 0 => Zero' \/ pc'[x] \in AlertLabels
    <3>1. pc'[x] = "unlock" => loc[x].wakeup = 0 \/ ready_queue_size = 0
      BY <1>1, <1>10, Zenon DEF UpdateCheck, Goto
    <3>2. Zero => Zero' BY <1>6, <2>1, <2>2, Zenon DEF Zero, Committing
    <3> QED BY <1>1, <1>3, <2>1, <2>4, <3>1, <3>2, SMT, Z3 DEF Wakes
  <2>7. Covered(wakeup') \/ Committing \/ pc'[x] \in ListingLabels
    <3>1. ASSUME NEW y \in Threads, pc[y] \in ListingLabels PROVE FALSE
      <4>1. pc[y] \in CriticalLabels BY <3>1, Zenon DEF ListingLabels
      <4>2. y = x BY <2>4, <4>1, OneInside, Zenon
      <4> QED BY <2>1, <3>1, <4>2, Zenon DEF ListingLabels
    <3> QED BY <2>2, <3>1, Zenon DEF WakeInv
  <2> QED BY <1>4, <1>5, <2>1, <2>3, <2>4, <2>5, <2>6, <2>7, WakesInside
<1>11. UpdateSet(x) => pc[x] \in {"u_set", "u_commit"} BY SharedEdges, Zenon
<1> QED BY <1>7, <1>8, <1>9, <1>10, <1>11, Zenon

\* A step that changes nothing the invariant speaks of, but for the time.
LEMMA WakeSame ==
  ASSUME WakeInv, now' > 0,
         UNCHANGED <<wakeup, wakeup_setter, ready_queue_size, sleeping_queue, effective_deadline, pc, loc>>
  PROVE  WakeInv'
BY Zenon DEF WakeInv, Wakes, Zero, Committing, Covered

\* The labels that the next lemmas tell apart.
LEMMA WakeLabels ==
  /\ AlertLabels = {"push", "link", "set", "trylock", "lock", "unlock_push", "renew", "dec", "pop", "sleep",
        "load", "newstate", "recheck", "exec", "run", "renewed", "pause", "p_sleep", "p_check", "reborn",
        "x_flags", "c_start", "c_sem", "c_done", "c_post", "update", "u_set", "u_commit", "u_check"}
  /\ ListingLabels = {"dec", "pop", "sleep",
        "load", "newstate", "recheck", "exec", "run", "renewed", "pause", "p_sleep", "p_check", "reborn",
        "x_flags", "c_start", "c_sem", "c_done", "c_post", "update", "u_set", "u_commit"}
BY CriticalSet, SMT, Z3 DEF AlertLabels, ListingLabels

\* The calls of the users and the steps of wait().
LEMMA CallWakes ==
  ASSUME TypeOK, LockInv, WakeInv, NEW x \in Users,
         \/ WaitStep(x) \/ Stop(x) \/ Return(x)
         \/ \E t \in Tasks : Schedule(x, t) \/ AsyncCancel(x, t) \/ Resume(x, t) \/ Wait(x, t)
  PROVE  WakeInv'
<1>1. x \in Threads BY Zenon DEF Threads
<1>2. UNCHANGED <<wakeup, wakeup_setter, now, ready_queue_size, sleeping_queue, effective_deadline>>
  BY Zenon DEF WaitStep, WaitAttach, WaitSpin, WaitReadState, WaitReadSem, WaitSem, WaitEnd, Stop, Return,
     Schedule, AsyncCancel, Renew, Resume, Wait, timer, misc, ready, lists, effective
<1>3. CASE UNCHANGED <<pc, loc>> BY <1>2, <1>3, WakeSame, Zenon DEF WakeInv
<1>4. ASSUME Moves(x), pc[x] \in {"idle", "unguard", "return"} \cup WaitLabels,
             pc'[x] \in {"idle", "store", "exchange", "set"} \cup WaitLabels, pc'[x] = "set" => loc'[x].wakeup = 0
      PROVE  WakeInv'
  <2>1. /\ pc[x] \notin {"commit", "u_set", "u_commit", "u_check"}
        /\ pc'[x] \notin {"commit", "u_set", "u_commit", "u_check"}
        /\ pc[x] \notin AlertLabels /\ pc[x] \notin ListingLabels
    BY <1>4, WakeLabels, Zenon DEF WaitLabels
  <2> QED BY <1>1, <1>2, <1>4, <2>1, WakeAside, Zenon
<1>5. CASE WaitStep(x)
  <2>1. Moves(x) /\ pc[x] \in WaitLabels /\ pc'[x] \in {"idle"} \cup WaitLabels
    BY <1>5, WaitEdges, Zenon DEF Works, WaitStep, WaitLabels
  <2> QED BY <1>4, <2>1, Zenon DEF WaitLabels
<1>6. CASE Stop(x)
  <2>1. Moves(x) /\ pc[x] = "idle" /\ pc'[x] = "set" BY <1>6, CallEdges, Zenon
  <2>2. loc'[x].wakeup = 0
    <3>1. loc \in [Threads -> Locals] BY Zenon DEF TypeOK, ControlOK
    <3> QED BY <1>1, <1>6, <3>1, Zenon DEF Stop, NoLocals
  <2> QED BY <1>4, <2>1, <2>2, Zenon
<1>7. CASE Return(x)
  <2>1. Moves(x) /\ pc[x] \in {"unguard", "return"} /\ pc'[x] = "idle" BY <1>7, RequestEdges, Zenon
  <2> QED BY <1>4, <2>1, Zenon
<1>8. ASSUME NEW t \in Tasks, Schedule(x, t) \/ AsyncCancel(x, t) \/ Resume(x, t) \/ Wait(x, t) PROVE WakeInv'
  <2>1. \/ UNCHANGED <<pc, loc>>
        \/ Moves(x) /\ pc[x] = "idle" /\ pc'[x] \in {"store", "exchange", "w_attach"}
    BY <1>8, CallEdges, Zenon
  <2> QED BY <1>3, <1>4, <2>1, Zenon DEF WaitLabels
<1> QED BY <1>5, <1>6, <1>7, <1>8, Zenon

\* The steps of a request that leave the timer alone.
LEMMA RenewWakes ==
  ASSUME TypeOK, LockInv, WakeInv, NEW x \in Users, RenewStep(x), ~RequestSet(x), ~Return(x)
  PROVE  WakeInv'
<1>1. x \in Threads /\ ready_queue_size \in Int BY Zenon DEF Threads, TypeOK, DataOK
<1>2. UNCHANGED <<wakeup, wakeup_setter, now>>
  BY Zenon DEF RenewStep, RenewStore, RenewCancel, RenewPaused, ExchangeReady, CommitSize, Push, Link, TryLock,
     UnlockPush, RenewInplace, RenewedInplace, timer, misc
<1>3. CASE RenewStore(x) \/ RenewCancel(x) \/ RenewPaused(x) \/ ExchangeReady(x)
  <2>1. /\ Moves(x) /\ pc[x] \in {"store", "cancel", "paused", "exchange"}
        /\ pc'[x] \in {"cancel", "paused", "exchange", "unguard", "return", "size"}
    <3>1. pc[x] = "exchange" => loc[x].ret \in {"unguard", "return"}
      <4>1. ControlOK BY Zenon DEF TypeOK
      <4> QED BY <4>1, UserTask, Zenon
    <3> QED BY <1>3, <3>1, RequestEdges, Zenon DEF Works
  <2>2. UNCHANGED <<ready_queue_size, sleeping_queue, effective_deadline>>
    BY <1>3, Zenon DEF RenewStore, RenewCancel, RenewPaused, ExchangeReady, ready, lists, effective
  <2>3. /\ pc[x] \notin {"commit", "u_set", "u_commit", "u_check"}
        /\ pc'[x] \notin {"set", "commit", "u_set", "u_commit", "u_check"}
        /\ pc[x] \notin AlertLabels /\ pc[x] \notin ListingLabels
    BY <2>1, WakeLabels, Zenon
  <2> QED BY <1>1, <1>2, <2>1, <2>2, <2>3, WakeAside, Zenon
<1>4. CASE CommitSize(x) \/ Push(x) \/ Link(x) \/ TryLock(x) \/ UnlockPush(x)
  <2>1. /\ Moves(x) /\ pc[x] \in {"size", "push", "link", "trylock", "unlock_push"}
        /\ pc'[x] \in {"trylock", "push", "link", "set", "renew", "unlock_push"}
    BY <1>4, RequestEdges, Zenon DEF Works
  <2>2. UNCHANGED <<sleeping_queue, effective_deadline>>
    BY <1>4, Zenon DEF CommitSize, Push, Link, TryLock, UnlockPush, lists, effective
  <2>3. /\ pc[x] \notin {"commit", "u_set", "u_commit", "u_check"}
        /\ pc'[x] \notin {"commit", "u_set", "u_commit", "u_check"}
        /\ pc'[x] \in AlertLabels /\ pc[x] \notin ListingLabels
    BY <2>1, WakeLabels, Zenon
  <2>4. pc'[x] = "set" => loc'[x].wakeup = 0
    <3>1. ASSUME pc'[x] = "set" PROVE Link(x) BY <1>4, <3>1, RequestEdges, Zenon
    <3>2. loc \in [Threads -> Locals] BY Zenon DEF TypeOK, ControlOK
    <3> QED BY <1>1, <3>1, <3>2, Zenon DEF Link, Locals
  <2> QED BY <1>1, <1>2, <2>1, <2>2, <2>3, <2>4, WakeAside, Zenon
<1>5. CASE RenewInplace(x) \/ RenewedInplace(x)
  <2>1. /\ Moves(x) /\ pc[x] \in {"renew", "dec"} /\ pc'[x] \in {"renew", "x_flags", "dec", "update"}
        /\ pc'[x] = "renew" => pc[x] = "renew" /\ RenewInplace(x)
    BY <1>5, RequestEdges, Zenon DEF Works
  <2>2. ready_queue_size' <= ready_queue_size
    <3>1. ready_queue_size' \in {ready_queue_size, ready_queue_size - 1}
      BY <1>5, Zenon DEF RenewInplace, RenewedInplace, ready
    <3> QED BY <1>1, <3>1, SMT, Z3
  <2>3. \/ UNCHANGED <<sleeping_queue, effective_deadline>>
        \/ pc'[x] # "renew"
    <3>1. pc \in [Threads -> UserLabels \cup LoopLabels] BY Zenon DEF TypeOK, ControlOK
    <3> QED BY <1>1, <1>5, <3>1, Zenon DEF RenewInplace, RenewedInplace, lists, effective, Goto
  <2>4. /\ pc[x] \notin {"commit", "u_set", "u_commit", "u_check"}
        /\ pc'[x] \notin {"set", "commit", "u_set", "u_commit", "u_check"}
        /\ pc'[x] \in AlertLabels /\ pc[x] \in CriticalLabels
        /\ (pc[x] \in ListingLabels => pc'[x] \in ListingLabels) /\ (pc'[x] # "renew" => pc'[x] \in ListingLabels)
    BY <2>1, WakeLabels, CriticalSet, Zenon
  <2> QED BY <1>1, <1>2, <2>1, <2>2, <2>3, <2>4, WakeAside, Zenon
<1> QED BY <1>3, <1>4, <1>5, Zenon DEF RenewStep

\* The steps, of a user or of the event loop thread, that leave the mutex or
\* complete a task.
LEMMA SharedWakes ==
  ASSUME TypeOK, LockInv, WakeInv, NEW x \in Threads,
         Unlock(x) \/ CancelFlags(x) \/ CompleteStart(x) \/ CompleteTakeSem(x) \/ CompleteDone(x) \/ CompletePost(x)
  PROVE  WakeInv'
<1>1. UNCHANGED <<wakeup, wakeup_setter, now, ready_queue_size, sleeping_queue, effective_deadline>>
  BY Zenon DEF Unlock, CancelFlags, CompleteStart, CompleteTakeSem, CompleteDone, CompletePost, timer, misc, ready,
     lists, effective
<1>2. /\ Moves(x)
      /\ \/ pc[x] = "unlock" /\ pc'[x] \in {"stopped", "wait", "unguard"}
         \/ /\ pc[x] \in {"x_flags", "c_start", "c_sem", "c_done", "c_post"}
            /\ pc'[x] \in {"c_start", "c_sem", "c_done", "c_post", "pop", "sleep", "reborn", "dec"}
  <2>1. CASE Unlock(x)
    BY <2>1, SharedEdges, Zenon
  <2>2. CASE ~Unlock(x)
    BY <2>2, SharedEdges, Zenon DEF Works
  <2> QED BY <2>1, <2>2, Zenon
<1>3. /\ pc[x] \notin {"commit", "u_set", "u_commit", "u_check"}
      /\ pc'[x] \notin {"set", "commit", "u_set", "u_commit", "u_check"}
      /\ pc[x] \in AlertLabels => pc'[x] \in AlertLabels
      /\ pc[x] \in ListingLabels => pc'[x] \in ListingLabels
  BY <1>2, WakeLabels, Zenon
<1> QED BY <1>1, <1>2, <1>3, WakeAside, Zenon

\* The event loop thread, which updates the timer when it has found no task.
LEMMA LoopWakes ==
  ASSUME TypeOK, LockInv, WakeInv, LoopStep, ~SharedStep(Loop)
  PROVE  WakeInv'
<1> DEFINE Fetching == {"pop", "sleep", "load", "newstate", "recheck", "exec", "run", "renewed", "pause",
                        "p_sleep", "p_check", "reborn"}
<1>1. Loop \in Threads /\ ready_queue_size \in Int BY Zenon DEF Threads, TypeOK, DataOK
<1>2. UNCHANGED <<wakeup, wakeup_setter, now>>
  BY Zenon DEF LoopStep, LoopWake, LoopLock, FetchPop, FetchLoad, FetchNewState, FetchAgain, FetchPanic, FetchReady,
     FetchSleeping, ExecuteBegin, ExecuteFinish, CheckRenewed, ExecuteOperation, ExecutePause, PauseTask,
     PauseCheck, ExecuteContinue, RebornTask, timer, misc
<1>3. /\ Moves(Loop)
      /\ \/ LoopWake /\ pc[Loop] = "wait" /\ pc'[Loop] = "lock"
         \/ LoopLock /\ pc[Loop] = "lock" /\ pc'[Loop] \in {"pop", "sleep"}
         \/ pc[Loop] \in Fetching /\ pc'[Loop] \in Fetching \cup {"x_flags", "c_start", "update"}
  BY LoopEdges, Zenon DEF Works, LoopStep
<1>4. CASE LoopWake
  <2>1. UNCHANGED <<ready_queue_size, sleeping_queue, effective_deadline>>
    BY <1>4, Zenon DEF LoopWake, ready, lists, effective
  <2>2. pc[Loop] = "wait" /\ pc'[Loop] = "lock" BY <1>4, LoopEdges, Zenon
  <2>3. pc[Loop] \notin AlertLabels /\ pc[Loop] \notin ListingLabels BY <2>2, WakeLabels, Zenon
  <2> QED BY <1>1, <1>2, <1>3, <2>1, <2>2, <2>3, WakeAside, ZenonT(30)
<1>5. CASE LoopLock
  <2>1. UNCHANGED <<ready_queue_size, sleeping_queue, effective_deadline>>
    BY <1>5, Zenon DEF LoopLock, ready, lists, effective
  <2>2. pc[Loop] = "lock" /\ pc'[Loop] \in {"pop", "sleep"} BY <1>5, LoopEdges, Zenon
  <2>3. pc[Loop] \notin ListingLabels /\ pc'[Loop] \in AlertLabels BY <2>2, WakeLabels, Zenon
  <2> QED BY <1>1, <1>2, <1>3, <2>1, <2>2, <2>3, WakeAside, Zenon
<1>6. CASE pc[Loop] \in Fetching
  <2>1. pc'[Loop] \in Fetching \cup {"x_flags", "c_start", "update"} BY <1>3, <1>6, Zenon
  <2>2. /\ pc[Loop] \notin {"commit", "u_set", "u_commit", "u_check"}
        /\ pc'[Loop] \notin {"set", "commit", "u_set", "u_commit", "u_check"}
        /\ pc'[Loop] \in AlertLabels /\ pc'[Loop] \in ListingLabels /\ pc[Loop] \in CriticalLabels
    BY <1>6, <2>1, WakeLabels, CriticalSet
  <2> QED BY <1>1, <1>2, <1>3, <2>2, WakeAside, Zenon
<1> QED BY <1>3, <1>4, <1>5, <1>6, Zenon

\* The timer is late for no task, whatever the threads do.
LEMMA WakeStep ==
  ASSUME TypeOK, LockInv, TasksInv, WakeInv, [Next]_vars
  PROVE  WakeInv'
<1>1. ASSUME NEW x \in Threads, SharedStep(x) PROVE WakeInv'
  <2>1. UpdateWakeup(x) \/ UpdateSet(x) \/ UpdateCheck(x) => WakeInv' BY UpdateWakes, Zenon
  <2>2. Unlock(x) \/ CancelFlags(x) \/ CompleteStart(x) \/ CompleteTakeSem(x) \/ CompleteDone(x) \/ CompletePost(x)
          => WakeInv'
    BY SharedWakes, Zenon
  <2> QED BY <1>1, <2>1, <2>2, Zenon DEF SharedStep
<1>2. ASSUME NEW x \in Users, RenewStep(x) PROVE WakeInv'
  <2>1. RequestSet(x) => WakeInv' BY RequestWakes, Zenon
  <2>2. Return(x) => WakeInv' BY CallWakes, Zenon
  <2>3. ~RequestSet(x) /\ ~Return(x) => WakeInv' BY <1>2, RenewWakes, Zenon
  <2> QED BY <2>1, <2>2, <2>3, Zenon
<1>3. ASSUME NEW x \in Users, WaitStep(x) \/ Stop(x) PROVE WakeInv' BY <1>3, CallWakes, Zenon
<1>4. ASSUME NEW x \in Users, NEW t \in Tasks, Schedule(x, t) \/ AsyncCancel(x, t) \/ Resume(x, t) \/ Wait(x, t)
      PROVE  WakeInv'
  BY <1>4, CallWakes, Zenon
<1>5. ASSUME LoopStep PROVE WakeInv'
  <2>1. Loop \in Threads BY Zenon DEF Threads
  <2> QED BY <1>1, <1>5, <2>1, LoopWakes, Zenon
<1>6. ASSUME Tick PROVE WakeInv'
  <2>1. now' > 0 BY <1>6, SMT, Z3 DEF Tick, WakeInv, TypeOK, DataOK
  <2>2. UNCHANGED <<wakeup, wakeup_setter, ready_queue_size, sleeping_queue, effective_deadline, pc, loc>>
    BY <1>6, Zenon DEF Tick, timer, ready, lists, effective
  <2> QED BY <2>1, <2>2, WakeSame, Zenon
<1>7. ASSUME UNCHANGED vars PROVE WakeInv'
  <2>1. UNCHANGED <<wakeup, wakeup_setter, ready_queue_size, sleeping_queue, effective_deadline, pc, loc, now>>
    BY <1>7, Zenon DEF vars, timer, ready, lists, effective, misc
  <2> QED BY <2>1, WakeSame, Zenon DEF WakeInv
<1>8. \A x \in Users : x \in Threads BY Zenon DEF Threads
<1> QED BY <1>1, <1>2, <1>3, <1>4, <1>5, <1>6, <1>7, <1>8, Zenon DEF Next, UserStep, Terminated

LEMMA WakeInit ==
  ASSUME Init
  PROVE  WakeInv
<1>1. now = 1 /\ wakeup_setter = NoThread /\ sleeping_queue = <<>> /\ ready_queue_size = 0
  BY Zenon DEF Init
<1>2. \A x \in Threads : pc[x] \in {"wait", "idle"} /\ x # NoThread
  BY ThreadsAssumption, Zenon DEF Init, Threads
<1>3. Covered(wakeup) BY <1>1, SMT, Z3 DEF Covered
<1> QED BY <1>1, <1>2, <1>3, SMT, Z3 DEF WakeInv, Wakes

-----------------------------------------------------------------------------
(***************************************************************************)
(* The requests.                                                           *)
(***************************************************************************)
\* A step of a thread that neither begins, stores nor ends a request.
LEMMA RequestAside ==
  ASSUME RequestInv, NEW x \in Threads, Moves(x),
         UNCHANGED <<kind, renew_guard, renewed_deadline, version>>,
         \A t \in Tasks : kind[t] = "plain" /\ "Paused" \in flags'[t] => "Paused" \in flags[t],
         pc[x] # "store", pc'[x] # "store", RequestOK(x)',
         loc'[x].ret = "unguard" => x = Loop \/ (loc[x].ret = "unguard" /\ loc'[x].task = loc[x].task)
  PROVE  RequestInv'
<1>1. \A y \in Threads \ {x} : pc'[y] = pc[y] /\ loc'[y] = loc[y] BY Zenon DEF Moves
<1>2. ASSUME NEW t \in Tasks PROVE Requested(t)'
  <2>1. Requested(t) BY Zenon DEF RequestInv
  <2>2. Dirty(t)' => Dirty(t) BY Zenon DEF Dirty
  <2>3. ASSUME NEW y \in Users, pc[y] = "store", Task(y) = t PROVE pc'[y] = "store" /\ Task(y)' = t
    BY <1>1, <2>3, Zenon DEF Task, Threads
  <2> QED BY <2>1, <2>2, <2>3, Zenon DEF Requested
<1>3. ASSUME NEW y \in Threads PROVE RequestOK(y)'
  <2>1. CASE y # x
    <3>1. pc'[y] = pc[y] /\ loc'[y] = loc[y] /\ RequestOK(y) BY <1>1, <2>1, Zenon DEF RequestInv
    <3> QED BY <3>1, Zenon DEF RequestOK, GuardOK, Loaded, Dirty, Task
  <2> QED BY <2>1, Zenon
<1>4. ASSUME NEW y \in Users, NEW z \in Users, loc'[y].ret = "unguard", loc'[z].ret = "unguard", Task(y)' = Task(z)'
      PROVE  y = z
  <2>1. Loop \notin Users BY ThreadsAssumption, Zenon
  <2>2. \A u \in Users : loc'[u].ret = "unguard" => loc[u].ret = "unguard" /\ loc'[u].task = loc[u].task
    BY <1>1, <2>1, Zenon DEF Threads
  <2> QED BY <1>4, <2>2, Zenon DEF RequestInv, Task
<1> QED BY <1>2, <1>3, <1>4, Zenon DEF RequestInv

\* A step that changes nothing the invariant speaks of.
LEMMA RequestSame ==
  ASSUME RequestInv, UNCHANGED <<kind, renew_guard, renewed_deadline, version, flags, pc, loc>>
  PROVE  RequestInv'
BY SMT, Z3 DEF RequestInv, Requested, RequestOK, GuardOK, Loaded, Dirty, Task

LEMMA RequestInit ==
  ASSUME Init
  PROVE  RequestInv
<1>1. /\ \A t \in Tasks : flags[t] = {} /\ renewed_deadline[t] = 0 /\ version[t] = 0
      /\ \A x \in Threads : pc[x] \in {"wait", "idle"} /\ loc[x] = NoLocals
  BY Zenon DEF Init
<1>2. \A x \in Threads : loc[x].ret # "unguard" /\ pc[x] \notin GuardLabels BY <1>1, FreshLocals, GuardSet, Zenon
<1>3. \A t \in Tasks : Requested(t)
  <2>1. 0 % 2 # 1 BY SMT, Z3
  <2>2. \A t \in Tasks : ~Dirty(t) BY <1>1, <2>1, Zenon DEF Dirty
  <2> QED BY <1>1, <2>1, <2>2, Zenon DEF Requested
<1>4. \A x \in Threads : RequestOK(x) BY <1>1, <1>2, Zenon DEF RequestOK, GuardOK
<1> QED BY <1>2, <1>3, <1>4, Zenon DEF RequestInv, Threads

\* A thread whose task is not touched.
LEMMA SameRequest ==
  ASSUME NEW y \in Threads, RequestOK(y), pc'[y] = pc[y], loc'[y] = loc[y], kind' = kind,
         renew_guard'[Task(y)] = renew_guard[Task(y)], version'[Task(y)] = version[Task(y)],
         renewed_deadline'[Task(y)] = renewed_deadline[Task(y)]
  PROVE  RequestOK(y)'
<1>1. Task(y)' = Task(y) BY Zenon DEF Task
<1>2. (Loaded(y)' <=> Loaded(y)) /\ (Dirty(Task(y))' <=> Dirty(Task(y))) BY <1>1, Zenon DEF Loaded, Dirty
<1>3. GuardOK(y) => GuardOK(y)' BY <1>1, <1>2, Zenon DEF GuardOK
<1> QED BY <1>1, <1>2, <1>3, Zenon DEF RequestOK

\* A thread that has loaded a deadline of the task before another thread stores one.
LEMMA LateRequest ==
  ASSUME NEW y \in Threads, NEW t \in Tasks, RequestOK(y), Task(y) = t, y # Loop => loc[y].ret # "unguard",
         pc'[y] = pc[y], loc'[y] = loc[y], kind' = kind,
         loc[y].version \in Int, version[t] \in Int, version'[t] = version[t] + 1
  PROVE  RequestOK(y)'
<1>1. Task(y)' = t BY Zenon DEF Task
<1>2. loc[y].version <= version[t] => loc[y].version <= version'[t] /\ loc[y].version # version'[t] BY SMT, Z3
<1>3. pc[y] \in {"newstate", "recheck"} => loc'[y].version <= version'[t] /\ Loaded(y)'
  BY <1>1, <1>2, Zenon DEF RequestOK, Loaded
<1>4. y # Loop => GuardOK(y)' BY Zenon DEF RequestOK, GuardOK
<1> QED BY <1>1, <1>3, <1>4, Zenon DEF RequestOK

\* A thread without a task has no request.
LEMMA IdleRequest ==
  ASSUME TypeOK, NEW x \in Threads, RequestOK(x), Task(x) \notin Tasks, pc'[x] = pc[x], loc'[x] = loc[x]
  PROVE  RequestOK(x)'
<1>1. x # Loop => loc[x].ret # "unguard" /\ pc[x] \notin GuardLabels BY Zenon DEF RequestOK, GuardOK
<1>2. x # Loop => pc[x] \in UserLabels BY Zenon DEF TypeOK, ControlOK, LocalsOK, UserLocals
<1>3. x = Loop => /\ pc[x] \notin {"newstate", "recheck", "pause", "p_sleep", "p_check"}
                  /\ pc[x] \in LoopLabels
  BY LoopTask, Zenon DEF TypeOK, ControlOK, LocalsOK, LoopLocals
<1>4. pc[x] \notin {"store", "newstate", "recheck", "pause", "p_sleep", "p_check"}
  BY <1>1, <1>2, <1>3, GuardSet, LabelSets, Zenon
<1> QED BY <1>1, <1>4, Zenon DEF RequestOK, GuardOK

\* schedule() and async_cancel() get the guard of a task that nobody holds.
LEMMA RenewRequests ==
  ASSUME TypeOK, RequestInv, NEW x \in Users, NEW t \in Tasks, NEW d \in Int, Renew(x, t, d)
  PROVE  RequestInv'
<1>1. UNCHANGED <<kind, renewed_deadline, flags>> BY Zenon DEF Renew
<1>2. CASE renew_guard[t] /\ UNCHANGED <<renew_guard, version, pc, loc>> BY <1>1, <1>2, RequestSame, Zenon
<1>3. CASE ~renew_guard[t] /\ renew_guard' = [renew_guard EXCEPT ![t] = TRUE]
  <2>1. /\ renew_guard \in [Tasks -> BOOLEAN] /\ version \in [Tasks -> Int] /\ x \in Threads /\ x # Loop
        /\ pc[x] = "idle"
    BY ThreadsAssumption, Zenon DEF TypeOK, DataOK, Threads, Renew, At
  <2>2. version' = [version EXCEPT ![t] = @ + 1] BY <1>3, <2>1, Zenon DEF Renew
  <2>3. pc'[x] # pc[x] BY <1>3, <2>1, Zenon DEF Renew, Goto, TypeOK, ControlOK
  <2>4. Moves(x) /\ pc'[x] = "store" /\ loc'[x].task = t /\ loc'[x].deadline = d /\ loc'[x].ret = "unguard"
    BY <2>3, CallMoves, Zenon
  <2>5. \A y \in Threads \ {x} : pc'[y] = pc[y] /\ loc'[y] = loc[y] BY <2>4, Zenon DEF Moves
  <2>6. \A y \in Users : loc[y].ret = "unguard" => Task(y) # t
    BY <1>3, ThreadsAssumption, Zenon DEF RequestInv, RequestOK, GuardOK, Threads
  <2>7. ~Dirty(t)
    <3>1. \A y \in Users : pc[y] = "store" => loc[y].ret = "unguard"
      BY GuardSet, ThreadsAssumption, Zenon DEF RequestInv, RequestOK, GuardOK, Threads
    <3> QED BY <2>6, <3>1, Zenon DEF RequestInv, Requested
  <2>8. version[t] \in Int /\ version'[t] = version[t] + 1 /\ renew_guard'[t] BY <1>3, <2>1, <2>2, Zenon
  <2>9. Dirty(t)' BY <2>7, <2>8, SMT, Z3 DEF Dirty
  <2>10. \A s \in Tasks \ {t} : version'[s] = version[s] /\ renew_guard'[s] = renew_guard[s] BY <1>3, <2>1, <2>2, Zenon
  <2>11. ASSUME NEW s \in Tasks PROVE Requested(s)'
    <3>1. Requested(s) BY Zenon DEF RequestInv
    <3>2. \A y \in Users : pc[y] = "store" /\ Task(y) = s => pc'[y] = "store" /\ Task(y)' = s
      BY <2>1, <2>5, Zenon DEF Task, Threads
    <3>3. s = t => pc'[x] = "store" /\ Task(x)' = s BY <2>4, Zenon DEF Task
    <3>4. s # t => (Dirty(s)' <=> Dirty(s)) BY <2>10, Zenon DEF Dirty
    <3> QED BY <1>1, <3>1, <3>2, <3>3, <3>4, Zenon DEF Requested
  <2>12. ASSUME NEW y \in Threads PROVE RequestOK(y)'
    <3>1. CASE y = x BY <1>1, <2>1, <2>4, <2>8, <2>9, <3>1 DEF RequestOK, GuardOK, Task, StoredLabels
    <3>2. CASE y # x
      <4>1. pc'[y] = pc[y] /\ loc'[y] = loc[y] /\ RequestOK(y) BY <2>5, <3>2, Zenon DEF RequestInv
      <4>2. loc[y].version \in Int BY LocalsTyped, Zenon DEF TypeOK
      <4>3. CASE Task(y) = t
        <5>1. y # Loop => loc[y].ret # "unguard" BY <2>6, <4>3, Zenon DEF Threads
        <5> QED BY <1>1, <2>8, <4>1, <4>2, <4>3, <5>1, LateRequest, Zenon
      <4>4. CASE Task(y) # t
        <5>1. CASE Task(y) \in Tasks
          BY <1>1, <2>10, <4>1, <4>4, <5>1, SameRequest, Zenon
        <5>2. CASE Task(y) \notin Tasks BY <4>1, <5>2, IdleRequest, Zenon
        <5> QED BY <5>1, <5>2, Zenon
      <4> QED BY <4>3, <4>4, Zenon
    <3> QED BY <3>1, <3>2, Zenon
  <2>13. ASSUME NEW y \in Users, NEW z \in Users, loc'[y].ret = "unguard", loc'[z].ret = "unguard",
                Task(y)' = Task(z)'
         PROVE  y = z
    BY <2>1, <2>4, <2>5, <2>6, <2>13, Zenon DEF RequestInv, Task, Threads
  <2> QED BY <2>11, <2>12, <2>13, Zenon DEF RequestInv
<1> QED BY <1>2, <1>3, Zenon DEF Renew

\* A step of a user who goes on with a request, or with a call that is none.
LEMMA UserAside ==
  ASSUME RequestInv, NEW x \in Users, Moves(x),
         UNCHANGED <<kind, renew_guard, renewed_deadline, version>>,
         \A t \in Tasks : kind[t] = "plain" /\ "Paused" \in flags'[t] => "Paused" \in flags[t],
         pc[x] # "store", pc'[x] \notin {"store", "cancel", "pause", "p_sleep", "p_check", "newstate", "recheck"},
         loc'[x].task = loc[x].task, loc'[x].ret = loc[x].ret,
         pc'[x] \in GuardLabels => pc[x] \in GuardLabels \/ loc[x].ret = "unguard",
         pc'[x] \in StoredLabels =>
            pc[x] \in StoredLabels /\ loc'[x].version = loc[x].version /\ loc'[x].deadline = loc[x].deadline,
         pc'[x] \in {"trylock", "renew"} => pc[x] = "trylock" \/ loc[x].deadline # 0
  PROVE  RequestInv'
<1>1. x \in Threads /\ x # Loop BY ThreadsAssumption, Zenon DEF Threads
<1>2. GuardOK(x) BY <1>1, Zenon DEF RequestInv, RequestOK
<1>3. Task(x)' = Task(x) BY Zenon DEF Task
<1>4. "trylock" \in StoredLabels /\ "renew" \in StoredLabels BY Zenon DEF StoredLabels
<1>5. GuardOK(x)' BY <1>2, <1>3, <1>4, Zenon DEF GuardOK, Loaded
<1>6. RequestOK(x)' BY <1>3, <1>5, Zenon DEF RequestOK
<1> QED BY <1>1, <1>6, RequestAside, Zenon

\* The steps of a request after the store.
LEMMA StoredRequests ==
  ASSUME TypeOK, RequestInv, NEW x \in Users,
         RenewCancel(x) \/ RenewPaused(x) \/ ExchangeReady(x) \/ CommitSize(x) \/ TryLock(x)
  PROVE  RequestInv'
<1>1. x \in Threads /\ x # Loop BY ThreadsAssumption, Zenon DEF Threads
<1>2. UNCHANGED <<kind, renew_guard, renewed_deadline, version, flags>>
  BY Zenon DEF RenewCancel, RenewPaused, ExchangeReady, CommitSize, TryLock, atomics, misc
<1>3. GuardOK(x) BY <1>1, Zenon DEF RequestInv, RequestOK
<1>4. ASSUME RenewCancel(x) \/ RenewPaused(x) \/ ExchangeReady(x) \/ CommitSize(x) PROVE RequestInv'
  <2>1. Works(x) /\ pc[x] \in {"cancel", "paused", "exchange", "size"} BY <1>4, RequestEdges, Zenon
  <2>2. loc' = loc BY <1>4, Zenon DEF RenewCancel, RenewPaused, ExchangeReady, CommitSize
  <2>3. Moves(x) BY <2>1, Zenon DEF Works
  <2>4. pc[x] \in StoredLabels BY <2>1, Zenon DEF StoredLabels
  <2>5. CASE RenewCancel(x)
    <3>1. pc[x] = "cancel" /\ pc'[x] \in {"size", "unguard"} BY <2>5, RequestEdges, Zenon
    <3> QED BY <1>2, <2>2, <2>3, <2>4, <3>1, GuardSet, UserAside, Zenon
  <2>6. CASE RenewPaused(x)
    <3>1. pc[x] = "paused" /\ pc'[x] \in {"exchange", "unguard"} BY <2>6, RequestEdges, Zenon
    <3> QED BY <1>2, <2>2, <2>3, <2>4, <3>1, GuardSet, UserAside, Zenon
  <2>7. CASE ExchangeReady(x)
    <3>1. pc[x] = "exchange" /\ (pc'[x] = "size" \/ pc'[x] = loc[x].ret) BY <2>7, RequestEdges, Zenon
    <3>2. loc[x].ret \in {"unguard", "return"} BY <2>1, UserTask, Zenon DEF TypeOK
    <3> QED BY <1>2, <2>2, <2>3, <2>4, <3>1, <3>2, GuardSet, UserAside, Zenon DEF StoredLabels
  <2>8. CASE CommitSize(x)
    <3>1. pc[x] = "size" /\ pc'[x] \in {"trylock", "push"} BY <2>8, RequestEdges, Zenon
    <3>2. pc'[x] = IF MaybeInplace(x) THEN "trylock" ELSE "push"
      BY <1>1, <2>8, Zenon DEF CommitSize, Goto, TypeOK, ControlOK
    <3>3. loc[x].deadline \in Int BY <1>1, LocalsTyped, Zenon DEF TypeOK
    <3>4. pc'[x] = "trylock" => loc[x].ret = "unguard" /\ loc[x].deadline # 0
      BY <3>2, <3>3, SMT, Z3 DEF MaybeInplace
    <3> QED BY <1>2, <2>2, <2>3, <2>4, <3>1, <3>4, GuardSet, UserAside, Zenon DEF StoredLabels
  <2> QED BY <1>4, <2>5, <2>6, <2>7, <2>8
<1>5. ASSUME TryLock(x) PROVE RequestInv'
  <2>1. pc[x] = "trylock" BY <1>5, Zenon DEF TryLock, At
  <2>2. /\ Moves(x) /\ pc'[x] \in {"renew", "unlock_push", "push"} /\ loc'[x].task = loc[x].task
        /\ loc'[x].ret = loc[x].ret /\ loc'[x].deadline = loc[x].deadline
    BY <1>5, TryLockMoves, Zenon
  <2>3. loc'[x].version = loc[x].version
    <3>1. loc \in [Threads -> Locals] /\ flags[Task(x)] = flags[Task(x)] BY Zenon DEF TypeOK, ControlOK
    <3>2. loc' = loc \/ loc' = [loc EXCEPT ![x].flags = flags[Task(x)]] BY <1>5, Zenon DEF TryLock
    <3> QED BY <1>1, <3>1, <3>2, Zenon DEF Locals
  <2>4. pc[x] \in StoredLabels /\ pc[x] \in GuardLabels BY <2>1, GuardSet, Zenon DEF StoredLabels
  <2> QED BY <1>2, <2>1, <2>2, <2>3, <2>4, UserAside
<1> QED BY <1>4, <1>5, Zenon

\* The other steps of a request, up to the release of the guard.
LEMMA QueuedRequests ==
  ASSUME TypeOK, RequestInv, NEW x \in Users,
         Push(x) \/ Link(x) \/ RequestSet(x) \/ UnlockPush(x) \/ RenewInplace(x) \/ RenewedInplace(x)
  PROVE  RequestInv'
<1>1. x \in Threads /\ x # Loop BY ThreadsAssumption, Zenon DEF Threads
<1>2. UNCHANGED <<kind, renew_guard, renewed_deadline, version, flags>>
  BY Zenon DEF Push, Link, RequestSet, TrySet, Commit, UnlockPush, RenewInplace, RenewedInplace, atomics, misc
<1>3. Works(x) /\ Moves(x) BY RequestEdges, Zenon DEF Works
<1>4. ASSUME ~RenewInplace(x) PROVE RequestInv'
  <2>1. /\ pc[x] \in {"push", "link", "set", "commit", "unlock_push", "dec"}
        /\ pc'[x] \in {"link", "set", "commit", "unguard", "return", "join", "push", "update"}
        /\ pc'[x] = "update" => pc[x] = "dec"
    BY <1>4, RequestEdges, Zenon
  <2>2. pc'[x] = "unguard" => loc[x].ret = "unguard"
    <3>1. pc'[x] \in {"commit", loc[x].ret} \/ ~RequestSet(x)
      BY <1>1, Zenon DEF RequestSet, TrySet, Commit, Goto, TypeOK, ControlOK
    <3> QED BY <1>4, <3>1, RequestEdges, Zenon
  <2>3. pc'[x] \notin StoredLabels /\ pc'[x] \notin {"trylock", "renew"} BY <2>1, Zenon DEF StoredLabels
  <2>4. pc'[x] \in GuardLabels => pc[x] \in GuardLabels \/ loc[x].ret = "unguard" BY <2>1, <2>2, GuardSet, Zenon
  <2> QED BY <1>2, <1>3, <2>1, <2>3, <2>4, UserAside, Zenon DEF Works
<1>5. ASSUME RenewInplace(x) PROVE RequestInv'
  <2>1. pc[x] = "renew" /\ pc'[x] \in {"renew", "x_flags", "dec"} BY <1>5, RequestEdges, Zenon
  <2>2. pc[x] \in GuardLabels /\ pc[x] \in StoredLabels BY <2>1, GuardSet, Zenon DEF StoredLabels
  <2>3. Task(x) \in Tasks /\ loc[x].deadline # 0 /\ loc[x].deadline = renewed_deadline[Task(x)]
    BY <1>1, <2>1, <2>2, Zenon DEF RequestInv, RequestOK, GuardOK, Loaded
  <2>4. loc'[x].version = loc[x].version /\ loc'[x].deadline = loc[x].deadline
    <3>1. loc' = loc BY <1>5, Zenon DEF RenewInplace, Panic
    <3> QED BY <3>1, Zenon
  <2>5. pc'[x] \notin {"store", "cancel", "pause", "p_sleep", "p_check", "newstate", "recheck"} /\ pc[x] # "store"
    BY <2>1, Zenon
  <2> QED BY <1>2, <1>3, <2>2, <2>3, <2>4, <2>5, UserAside, ZenonT(30) DEF Works
<1> QED BY <1>4, <1>5, Zenon

\* The deadline is stored: from now on it is the latest one.
LEMMA StoreRequests ==
  ASSUME TypeOK, RequestInv, NEW x \in Users, RenewStore(x)
  PROVE  RequestInv'
<1>1. x \in Threads /\ x # Loop BY ThreadsAssumption, Zenon DEF Threads
<1>2. UNCHANGED <<kind, renew_guard, flags>> BY Zenon DEF RenewStore, misc
<1>3. pc[x] = "store" /\ pc'[x] \in {"cancel", "paused"} /\ Works(x) /\ Moves(x) BY RequestEdges, Zenon DEF Works
<1>4. loc[x].ret = "unguard" /\ Dirty(Task(x)) /\ Task(x) \in Tasks /\ renew_guard[Task(x)]
  BY <1>1, <1>3, GuardSet, Zenon DEF RequestInv, RequestOK, GuardOK
<1> PICK t \in Tasks : t = Task(x) BY <1>4, Zenon
<1>5. /\ version \in [Tasks -> Int] /\ renewed_deadline \in [Tasks -> Int]
      /\ loc \in [Threads -> Locals]
  BY <1>4, Zenon DEF TypeOK, DataOK, ControlOK
<1>6. /\ version'[t] = version[t] + 1 /\ renewed_deadline'[t] = loc[x].deadline
      /\ \A s \in Tasks \ {t} : version'[s] = version[s] /\ renewed_deadline'[s] = renewed_deadline[s]
  BY <1>5, Zenon DEF RenewStore
<1>7. loc'[x].version = version[t] + 1
  BY <1>1, <1>5, Zenon DEF RenewStore, Locals
<1>8. loc'[x].task = t /\ loc'[x].ret = "unguard" /\ loc'[x].deadline = loc[x].deadline
  BY <1>3, <1>4, Zenon DEF Works, Task
<1>9. \A y \in Threads \ {x} : pc'[y] = pc[y] /\ loc'[y] = loc[y] BY <1>3, Zenon DEF Moves
<1>10. ~Dirty(t)' BY <1>4, <1>5, <1>6, SMT, Z3 DEF Dirty
<1>11. \A y \in Users \ {x} : loc[y].ret = "unguard" => Task(y) # t BY <1>4, Zenon DEF RequestInv
<1>12. ASSUME NEW s \in Tasks PROVE Requested(s)'
  <2>1. Requested(s) BY Zenon DEF RequestInv
  <2>2. CASE s = t BY <1>2, <1>4, <1>6, <1>10, <2>1, <2>2, Zenon DEF Requested
  <2>3. CASE s # t
    <3>1. Dirty(s)' => Dirty(s) BY <1>6, <2>3, Zenon DEF Dirty
    <3>2. \A y \in Users : pc[y] = "store" /\ Task(y) = s => pc'[y] = "store" /\ Task(y)' = s
      BY <1>9, <2>3, Zenon DEF Task, Threads
    <3>3. Dirty(s)' => \E y \in Users : pc'[y] = "store" /\ Task(y)' = s BY <2>1, <3>1, <3>2, Zenon DEF Requested
    <3> QED BY <1>2, <1>6, <2>1, <2>3, <3>3, Zenon DEF Requested
  <2> QED BY <2>2, <2>3, Zenon
<1>13. ASSUME NEW y \in Threads PROVE RequestOK(y)'
  <2>1. CASE y = x
    <3>1. loc[x].deadline \in Int BY <1>1, LocalsTyped, Zenon DEF TypeOK
    <3>2. pc'[x] = "cancel" => loc[x].deadline < 0 BY <1>1, Zenon DEF RenewStore, Goto, TypeOK, ControlOK
    <3> QED BY <1>2, <1>3, <1>4, <1>6, <1>7, <1>8, <2>1, <3>1, <3>2, ZenonT(30) DEF RequestOK, GuardOK, Loaded, Task
  <2>2. CASE y # x
    <3>1. pc'[y] = pc[y] /\ loc'[y] = loc[y] /\ RequestOK(y) BY <1>9, <2>2, Zenon DEF RequestInv
    <3>2. loc[y].version \in Int BY LocalsTyped, Zenon DEF TypeOK
    <3>3. CASE Task(y) = t
      <4>1. y # Loop => loc[y].ret # "unguard" BY <1>11, <2>2, <3>3, Zenon DEF Threads
      <4>2. version[t] \in Int BY <1>5, Zenon
      <4> QED BY <1>2, <1>6, <3>1, <3>2, <3>3, <4>1, <4>2, LateRequest, ZenonT(30)
    <3>4. CASE Task(y) # t /\ Task(y) \in Tasks
      BY <1>2, <1>6, <3>1, <3>4, SameRequest, Zenon
    <3>5. CASE Task(y) \notin Tasks BY <1>2, <3>1, <3>5, IdleRequest, Zenon DEF Task
    <3> QED BY <3>3, <3>4, <3>5, Zenon
  <2> QED BY <2>1, <2>2, Zenon
<1>14. ASSUME NEW y \in Users, NEW z \in Users, loc'[y].ret = "unguard", loc'[z].ret = "unguard",
              Task(y)' = Task(z)'
       PROVE  y = z
  BY <1>1, <1>8, <1>9, <1>11, <1>14, ZenonT(30) DEF RequestInv, Task, Threads
<1> QED BY <1>12, <1>13, <1>14, Zenon DEF RequestInv

\* A step of a user who has no request after it.
LEMMA FreshRequest ==
  ASSUME RequestInv, NEW x \in Users, Moves(x),
         UNCHANGED <<kind, renew_guard, renewed_deadline, version>>,
         \A t \in Tasks : kind[t] = "plain" /\ "Paused" \in flags'[t] => "Paused" \in flags[t],
         pc[x] # "store", loc'[x].ret # "unguard",
         pc'[x] \in {"idle", "exchange", "set", "w_attach"}
  PROVE  RequestInv'
<1>1. x \in Threads /\ x # Loop BY ThreadsAssumption, Zenon DEF Threads
<1>2. pc'[x] \notin GuardLabels BY GuardSet, Zenon
<1>3. RequestOK(x)' BY <1>2, Zenon DEF RequestOK, GuardOK
<1> QED BY <1>1, <1>3, RequestAside, Zenon

\* The guard is released by the call that holds it.
LEMMA ReturnRequests ==
  ASSUME TypeOK, RequestInv, NEW x \in Users, Return(x)
  PROVE  RequestInv'
<1>1. x \in Threads /\ x # Loop BY ThreadsAssumption DEF Threads
<1>2. UNCHANGED <<kind, renewed_deadline, version, flags>> BY Zenon DEF Return, misc
<1>3. Moves(x) /\ pc[x] \in {"unguard", "return"} /\ pc'[x] = "idle" /\ loc'[x].ret # "unguard"
  BY RequestEdges, FreshLocals, Zenon
<1>4. CASE pc[x] = "return"
  <2>1. renew_guard' = renew_guard BY <1>4 DEF Return, At
  <2> QED BY <1>2, <1>3, <1>4, <2>1, FreshRequest, Zenon
<1>5. CASE pc[x] = "unguard"
  <2>1. loc[x].ret = "unguard" /\ Task(x) \in Tasks
    BY <1>1, <1>5, GuardSet, Zenon DEF RequestInv, RequestOK, GuardOK
  <2> PICK t \in Tasks : t = Task(x) BY <2>1, Zenon
  <2>2. \A s \in Tasks \ {t} : renew_guard'[s] = renew_guard[s]
    <3>1. renew_guard \in [Tasks -> BOOLEAN] BY Zenon DEF TypeOK, DataOK
    <3>2. renew_guard' = [renew_guard EXCEPT ![t] = FALSE] \/ renew_guard' = renew_guard BY Zenon DEF Return
    <3> QED BY <3>1, <3>2, Zenon
  <2>3. \A y \in Threads \ {x} : pc'[y] = pc[y] /\ loc'[y] = loc[y] BY <1>3, Zenon DEF Moves
  <2>4. \A y \in Users \ {x} : loc[y].ret = "unguard" => Task(y) # t BY <2>1, Zenon DEF RequestInv
  <2>5. ASSUME NEW s \in Tasks PROVE Requested(s)'
    <3>1. Requested(s) /\ (Dirty(s)' <=> Dirty(s)) BY <1>2, Zenon DEF RequestInv, Dirty
    <3>2. \A y \in Users : pc[y] = "store" /\ Task(y) = s => pc'[y] = "store" /\ Task(y)' = s
      BY <1>5, <2>3, Zenon DEF Task, Threads
    <3> QED BY <1>2, <3>1, <3>2, Zenon DEF Requested
  <2>6. ASSUME NEW y \in Threads PROVE RequestOK(y)'
    <3>1. CASE y = x
      <4>1. pc'[x] \notin GuardLabels BY <1>3, GuardSet, Zenon
      <4> QED BY <1>3, <3>1, <4>1, Zenon DEF RequestOK, GuardOK
    <3>2. CASE y # x
      <4>1. pc'[y] = pc[y] /\ loc'[y] = loc[y] /\ RequestOK(y) BY <2>3, <3>2, Zenon DEF RequestInv
      <4>2. y # Loop /\ loc[y].ret = "unguard" => Task(y) # t BY <2>4, <3>2, Zenon DEF Threads
      <4> QED BY <1>2, <2>2, <4>1, <4>2, Zenon DEF RequestOK, GuardOK, Loaded, Dirty, Task
    <3> QED BY <3>1, <3>2
  <2>7. ASSUME NEW y \in Users, NEW z \in Users, loc'[y].ret = "unguard", loc'[z].ret = "unguard",
               Task(y)' = Task(z)'
        PROVE  y = z
    BY <1>3, <2>3, <2>7, Zenon DEF RequestInv, Task, Threads
  <2> QED BY <2>5, <2>6, <2>7 DEF RequestInv
<1> QED BY <1>3, <1>4, <1>5, Zenon

\* The other calls of the users, and the steps of wait().
LEMMA CallRequests ==
  ASSUME TypeOK, RequestInv, NEW x \in Users,
         Stop(x) \/ WaitStep(x) \/ \E t \in Tasks : Resume(x, t) \/ Wait(x, t)
  PROVE  RequestInv'
<1>1. x \in Threads /\ x # Loop BY ThreadsAssumption, Zenon DEF Threads
<1>2. UNCHANGED <<kind, renew_guard, renewed_deadline, version>>
  BY Zenon DEF Stop, WaitStep, WaitAttach, WaitSpin, WaitReadState, WaitReadSem, WaitSem, WaitEnd, Resume, Wait,
         atomics, misc
<1>3. ASSUME Stop(x) PROVE RequestInv'
  <2>1. flags' = flags BY <1>3, Zenon DEF Stop, atomics
  <2>2. Moves(x) /\ pc[x] = "idle" /\ pc'[x] = "set" /\ loc'[x].ret = "join"
    BY <1>3, ReturnMoves, CallEdges, Zenon
  <2> QED BY <1>2, <2>1, <2>2, FreshRequest, Zenon
<1>4. ASSUME WaitStep(x) PROVE RequestInv'
  <2>1. flags' = flags
    BY <1>4, Zenon DEF WaitStep, WaitAttach, WaitSpin, WaitReadState, WaitReadSem, WaitSem, WaitEnd, atomics
  <2>2. CASE WaitEnd(x)
    <3>1. Moves(x) /\ pc[x] = "w_end" /\ pc'[x] = "idle" /\ loc'[x].ret # "unguard"
      BY <2>2, WaitEdges, FreshLocals, Zenon
    <3> QED BY <1>2, <2>1, <3>1, FreshRequest, Zenon
  <2>3. CASE ~WaitEnd(x)
    <3>1. Works(x) /\ pc[x] \in WaitLabels /\ pc'[x] \in WaitLabels
      BY <1>4, <2>3, WaitEdges, Zenon DEF WaitStep, WaitLabels
    <3>2. pc'[x] \notin StoredLabels /\ pc'[x] \notin GuardLabels BY <3>1, GuardSet, Zenon DEF StoredLabels, WaitLabels
    <3> QED BY <1>2, <2>1, <3>1, <3>2, UserAside, Zenon DEF Works, WaitLabels
  <2> QED BY <2>2, <2>3, Zenon
<1>5. ASSUME NEW t \in Tasks, Wait(x, t) PROVE RequestInv'
  <2>1. flags' = flags BY <1>5, Zenon DEF Wait, atomics
  <2>2. UNCHANGED <<pc, loc>> \/ (Moves(x) /\ pc'[x] = "w_attach" /\ loc'[x].ret = "return")
    BY <1>5, CallMoves, Zenon
  <2>3. pc[x] = "idle" BY <1>5, Zenon DEF Wait, At
  <2> QED BY <1>2, <2>1, <2>2, <2>3, FreshRequest, RequestSame, Zenon
<1>6. ASSUME NEW t \in Tasks, Resume(x, t) PROVE RequestInv'
  <2>1. \A s \in Tasks : "Paused" \in flags'[s] => "Paused" \in flags[s]
    BY <1>6, Zenon DEF Resume, TypeOK, DataOK
  <2>2. UNCHANGED <<pc, loc>> \/ (Moves(x) /\ pc'[x] = "exchange" /\ loc'[x].ret = "return")
    BY <1>6, CallMoves, Zenon
  <2>3. pc[x] = "idle" BY <1>6, Zenon DEF Resume, At
  <2>4. CASE UNCHANGED <<pc, loc>>
    <3>1. \A y \in Threads : RequestOK(y)'
      BY <1>2, <2>4, Zenon DEF RequestInv, RequestOK, GuardOK, Loaded, Dirty, Task
    <3>2. Moves(x) BY <2>4, Zenon DEF Moves, TypeOK, ControlOK
    <3> QED BY <1>1, <1>2, <2>1, <2>3, <2>4, <3>1, <3>2, RequestAside
  <2> QED BY <1>2, <2>1, <2>2, <2>3, <2>4, FreshRequest, Zenon
<1> QED BY <1>3, <1>4, <1>5, <1>6, Zenon

\* The flags of a plain task that a step leaves or clears.
LEMMA ClearedFlags ==
  ASSUME TypeOK, NEW t \in Tasks, NEW f \in SUBSET Flags, flags' = [flags EXCEPT ![t] = f],
         "Paused" \in f => "Paused" \in flags[t] \/ kind[t] = "pausing"
  PROVE  \A s \in Tasks : kind[s] = "plain" /\ "Paused" \in flags'[s] => "Paused" \in flags[s]
BY Zenon DEF TypeOK, DataOK

\* The completion of a task and the end of a request handled in place.
LEMMA SharedRequests ==
  ASSUME TypeOK, RequestInv, NEW x \in Threads, SharedStep(x)
  PROVE  RequestInv'
<1>1. /\ Moves(x) /\ pc[x] \in {"update", "u_set", "u_commit", "u_check", "unlock", "x_flags"} \cup CompleteLabels
      /\ pc'[x] \in {"u_set", "u_commit", "u_check", "unlock", "pop", "sleep", "stopped", "wait", "unguard",
                     "c_start", "c_sem", "c_done", "c_post", "reborn", "dec"}
  BY SharedEdges, Zenon DEF SharedStep, Works, CompleteLabels
<1>2. UNCHANGED <<kind, renew_guard, renewed_deadline, version>>
  BY Zenon DEF SharedStep, UpdateWakeup, UpdateSet, TrySet, Commit, UpdateCheck, Unlock, CancelFlags, CompleteStart,
         CompleteTakeSem, CompleteDone, CompletePost, atomics, misc
<1>3. \A t \in Tasks : kind[t] = "plain" /\ "Paused" \in flags'[t] => "Paused" \in flags[t]
  <2>1. CASE CancelFlags(x)
    <3>1. flags' = [flags EXCEPT ![Task(x)] = {"Cancelled"}] /\ pc[x] = "x_flags" BY <2>1, Zenon DEF CancelFlags, At
    <3>2. Task(x) \in Tasks BY <3>1, CompletingTask, Zenon DEF TypeOK
    <3>3. {"Cancelled"} \in SUBSET Flags /\ "Paused" \notin {"Cancelled"} BY Zenon DEF Flags
    <3> QED BY <3>1, <3>2, <3>3, ClearedFlags, Zenon
  <2>2. CASE ~CancelFlags(x)
    <3>1. flags' = flags
      BY <2>2, Zenon DEF SharedStep, UpdateWakeup, UpdateSet, TrySet, Commit, UpdateCheck, Unlock, CompleteStart,
             CompleteTakeSem, CompleteDone, CompletePost, atomics
    <3> QED BY <3>1, Zenon
  <2> QED BY <2>1, <2>2, Zenon
<1>4. pc[x] \in GuardLabels /\ pc'[x] \notin StoredLabels /\ pc[x] # "store"
  BY <1>1, GuardSet, Zenon DEF StoredLabels, CompleteLabels
<1>5. CASE x = Loop
  <2>1. RequestOK(x)' BY <1>1, <1>5, Zenon DEF RequestOK
  <2> QED BY <1>1, <1>2, <1>3, <1>4, <1>5, <2>1, RequestAside, Zenon
<1>6. CASE x # Loop
  <2>1. x \in Users BY <1>6, Zenon DEF Threads
  <2>2. loc'[x].task = loc[x].task /\ loc'[x].ret = loc[x].ret
    <3>1. UpdateWakeup(x) \/ UpdateSet(x) \/ UpdateCheck(x) \/ CompleteStart(x) => Works(x) BY SharedEdges, Zenon
    <3>2. Unlock(x) => Works(x) BY <1>6, UnlockMoves, Zenon
    <3>3. CancelFlags(x) \/ CompleteTakeSem(x) \/ CompleteDone(x) \/ CompletePost(x) => KeepsCall(x)
      BY SharedEdges, Zenon
    <3> QED BY <3>1, <3>2, <3>3, Zenon DEF SharedStep, Works, KeepsCall
  <2> QED BY <1>1, <1>2, <1>3, <1>4, <2>1, <2>2, UserAside, ZenonT(30)
<1> QED BY <1>5, <1>6, Zenon

\* A step of the event loop thread that has not loaded a deadline after it.
LEMMA LoopAside ==
  ASSUME RequestInv, Moves(Loop), UNCHANGED <<kind, renew_guard, renewed_deadline, version>>,
         \A t \in Tasks : kind[t] = "plain" /\ "Paused" \in flags'[t] => "Paused" \in flags[t],
         pc[Loop] # "store",
         pc'[Loop] \notin {"store", "pause", "p_sleep", "p_check", "newstate", "recheck"}
  PROVE  RequestInv'
<1>1. Loop \in Threads BY Zenon DEF Threads
<1>2. RequestOK(Loop)' BY Zenon DEF RequestOK
<1> QED BY <1>1, <1>2, RequestAside, Zenon

\* fetch_task_(): the deadline it loads is the latest one of its version.
LEMMA FetchRequests ==
  ASSUME TypeOK, RequestInv,
         \/ LoopWake \/ LoopLock \/ FetchPop \/ FetchLoad \/ FetchNewState \/ FetchAgain
         \/ FetchPanic \/ FetchReady \/ FetchSleeping
  PROVE  RequestInv'
<1>1. Loop \in Threads BY Zenon DEF Threads
<1>2. UNCHANGED <<kind, renew_guard, renewed_deadline, version, flags>>
  BY Zenon DEF LoopWake, LoopLock, FetchPop, FetchLoad, FetchNewState, FetchAgain, FetchPanic, FetchReady, FetchSleeping,
         atomics, misc
<1>3. ASSUME LoopWake \/ LoopLock \/ FetchPop \/ FetchAgain \/ FetchSleeping PROVE RequestInv'
  <2>1. /\ Moves(Loop) /\ pc[Loop] \in {"wait", "lock", "pop", "recheck", "sleep"}
        /\ pc'[Loop] \in {"lock", "pop", "sleep", "update", "load", "exec"}
    BY <1>3, LoopEdges, Zenon DEF Works
  <2> QED BY <1>2, <2>1, LoopAside, Zenon
<1>4. RequestOK(Loop) BY <1>1, Zenon DEF RequestInv
<1>5. ASSUME FetchLoad PROVE RequestInv'
  <2>1. Moves(Loop) /\ pc[Loop] = "load" /\ pc'[Loop] \in {"pop", "newstate"} BY <1>5, LoopEdges, Zenon
  <2>2. Task(Loop) \in Tasks BY <2>1, LoopTask, Zenon DEF TypeOK
  <2>3. pc'[Loop] = "newstate" => /\ loc'[Loop].task = loc[Loop].task
                                  /\ loc'[Loop].version = version[Task(Loop)]
                                  /\ loc'[Loop].deadline = renewed_deadline[Task(Loop)]
    <3>1. loc \in [Threads -> Locals] /\ pc \in [Threads -> UserLabels \cup LoopLabels] BY Zenon DEF TypeOK, ControlOK
    <3>2. pc'[Loop] = "newstate" =>
            loc' = [loc EXCEPT ![Loop].deadline = renewed_deadline[Task(Loop)], ![Loop].version = version[Task(Loop)]]
      BY <1>1, <1>5, <3>1, Zenon DEF FetchLoad, Goto
    <3> QED BY <1>1, <3>1, <3>2 DEF Locals
  <2>4. version[Task(Loop)] \in Int BY <2>2, Zenon DEF TypeOK, DataOK
  <2>5. RequestOK(Loop)' BY <1>2, <2>1, <2>3, <2>4, SMT, Z3 DEF RequestOK, Loaded, Task
  <2> QED BY <1>1, <1>2, <2>1, <2>5, RequestAside, Zenon
<1>6. ASSUME FetchNewState PROVE RequestInv'
  <2>1. Moves(Loop) /\ pc[Loop] = "newstate" /\ pc'[Loop] \in {"newstate", "recheck"} BY <1>6, LoopEdges, Zenon
  <2>2. loc'[Loop].task = loc[Loop].task /\ loc'[Loop].version = loc[Loop].version
        /\ loc'[Loop].deadline = loc[Loop].deadline
    <3>1. loc \in [Threads -> Locals] BY Zenon DEF TypeOK, ControlOK
    <3>2. loc' = loc \/ \E s : loc' = [loc EXCEPT ![Loop].from = s] BY <1>6, Zenon DEF FetchNewState, Panic
    <3> QED BY <1>1, <3>1, <3>2, Zenon DEF Locals
  <2>3. RequestOK(Loop)' BY <1>2, <1>4, <2>1, <2>2, Zenon DEF RequestOK, Loaded, Task
  <2> QED BY <1>1, <1>2, <2>1, <2>3, RequestAside, Zenon
<1>7. ASSUME FetchPanic PROVE RequestInv'
  <2>1. UNCHANGED <<pc, loc>> BY <1>7, Zenon DEF FetchPanic, Panic
  <2> QED BY <1>2, <2>1, RequestSame, Zenon
<1>8. ASSUME FetchReady PROVE RequestInv'
  <2>1. Moves(Loop) /\ pc[Loop] = "recheck" /\ pc'[Loop] \in {"x_flags", "exec", "pop"}
    BY <1>8, LoopEdges, ExecuteMoves, Zenon
  <2> QED BY <1>2, <2>1, LoopAside, Zenon
<1> QED BY <1>3, <1>5, <1>6, <1>7, <1>8, Zenon

\* execute_task_(): only a task that is not plain pauses.
LEMMA ExecuteRequests ==
  ASSUME TypeOK, RequestInv,
         \/ ExecuteBegin \/ ExecuteFinish \/ CheckRenewed \/ ExecuteOperation \/ ExecutePause \/ PauseTask
         \/ PauseCheck \/ ExecuteContinue \/ RebornTask
  PROVE  RequestInv'
<1>1. Loop \in Threads BY DEF Threads
<1>2. UNCHANGED <<kind, renew_guard, renewed_deadline, version>>
  BY Zenon DEF ExecuteBegin, ExecuteFinish, CheckRenewed, ExecuteOperation, ExecutePause, PauseTask, PauseCheck,
         ExecuteContinue, RebornTask, atomics, misc
<1>3. Moves(Loop) /\ pc[Loop] \in {"exec", "run", "renewed", "pause", "p_sleep", "p_check", "reborn"}
  BY LoopEdges, Zenon DEF Works
<1>4. Task(Loop) \in Tasks BY <1>3, LoopTask, Zenon DEF TypeOK
<1>5. RequestOK(Loop) BY <1>1 DEF RequestInv
<1>6. \A t \in Tasks : kind[t] = "plain" /\ "Paused" \in flags'[t] => "Paused" \in flags[t]
  <2> PICK t \in Tasks : t = Task(Loop) BY <1>4, Zenon
  <2>1. flags \in [Tasks -> SUBSET Flags] /\ kind \in [Tasks -> {"plain", "pausing"}] BY Zenon DEF TypeOK, DataOK
  <2>2. \/ flags' = flags
        \/ \E f \in SUBSET Flags : flags' = [flags EXCEPT ![t] = f] /\ "Paused" \notin f
        \/ \E f \in SUBSET Flags : flags' = [flags EXCEPT ![t] = f] /\ f \subseteq flags[t]
        \/ kind[t] = "pausing" /\ \E f \in SUBSET Flags : flags' = [flags EXCEPT ![t] = f]
    <3>1. CASE ExecuteBegin
      <4>1. flags' = flags \/ flags' = [flags EXCEPT ![t] = flags[t] \ {"Succeeded", "Cancelled", "Resumed"}]
        BY <3>1, Zenon DEF ExecuteBegin
      <4>2. flags[t] \ {"Succeeded", "Cancelled", "Resumed"} \in SUBSET Flags BY <2>1, Zenon
      <4> QED BY <4>1, <4>2, Zenon
    <3>2. CASE ExecuteFinish
      <4>1. flags' = [flags EXCEPT ![t] = {"Succeeded"}] \/ flags' = [flags EXCEPT ![t] = {}]
        BY <3>2, Zenon DEF ExecuteFinish
      <4>2. {"Succeeded"} \in SUBSET Flags /\ {} \in SUBSET Flags /\ "Paused" \notin {"Succeeded"} BY Zenon DEF Flags
      <4> QED BY <4>1, <4>2, Zenon
    <3>3. CASE ExecutePause
      <4>1. flags' = [flags EXCEPT ![t] = flags[t] \cup {"Paused"}] /\ pc[Loop] = "pause"
        BY <3>3, Zenon DEF ExecutePause, At
      <4>2. flags[t] \cup {"Paused"} \in SUBSET Flags BY <2>1, Zenon DEF Flags
      <4>3. kind[t] = "pausing" BY <1>5, <4>1, Zenon DEF RequestOK
      <4> QED BY <4>1, <4>2, <4>3, Zenon
    <3>4. CASE ExecuteContinue
      <4>1. flags' = [flags EXCEPT ![t] = flags[t] \ {"Paused"}] BY <3>4, Zenon DEF ExecuteContinue
      <4>2. flags[t] \ {"Paused"} \in SUBSET Flags BY <2>1, Zenon
      <4> QED BY <4>1, <4>2, Zenon
    <3>5. CASE CheckRenewed \/ ExecuteOperation \/ PauseTask \/ PauseCheck \/ RebornTask
      BY <3>5, Zenon DEF CheckRenewed, ExecuteOperation, PauseTask, PauseCheck, RebornTask, atomics
    <3> QED BY <3>1, <3>2, <3>3, <3>4, <3>5, Zenon
  <2>3. CASE flags' = flags BY <2>3, Zenon
  <2>4. ASSUME NEW f \in SUBSET Flags, flags' = [flags EXCEPT ![t] = f],
               "Paused" \in f => "Paused" \in flags[t] \/ kind[t] = "pausing"
        PROVE  \A s \in Tasks : kind[s] = "plain" /\ "Paused" \in flags'[s] => "Paused" \in flags[s]
    BY <2>4, ClearedFlags, Zenon
  <2> QED BY <2>2, <2>3, <2>4, Zenon
<1>7. ASSUME ExecuteOperation \/ ExecutePause \/ PauseTask PROVE RequestInv'
  <2>1. Works(Loop) /\ pc'[Loop] \in {"pause", "p_sleep", "p_check"} BY <1>7, LoopEdges, Zenon
  <2>2. kind[Task(Loop)] = "pausing"
    BY <1>5, <1>7, Zenon DEF ExecuteOperation, ExecutePause, PauseTask, At, RequestOK
  <2>3. RequestOK(Loop)' BY <1>2, <2>1, <2>2, Zenon DEF RequestOK, Works, Task
  <2>4. loc'[Loop].ret = loc[Loop].ret /\ loc'[Loop].task = loc[Loop].task BY <2>1, Zenon DEF Works
  <2> QED BY <1>1, <1>2, <1>3, <1>6, <2>1, <2>3, <2>4, RequestAside, Zenon
<1>8. ASSUME ~ExecuteOperation, ~ExecutePause, ~PauseTask PROVE RequestInv'
  <2>1. pc'[Loop] \in {"exec", "run", "renewed", "c_start", "reborn", "pop", "sleep"} BY <1>8, LoopEdges, Zenon
  <2> QED BY <1>2, <1>3, <1>6, <2>1, LoopAside, Zenon
<1> QED BY <1>7, <1>8, Zenon

\* A stored deadline is the latest one until its request ends, and what the event
\* loop thread has loaded is the latest one unless the version has grown.
LEMMA RequestStep ==
  ASSUME TypeOK, RequestInv, [Next]_vars
  PROVE  RequestInv'
<1>1. ASSUME NEW x \in Threads, SharedStep(x) PROVE RequestInv' BY <1>1, SharedRequests, Zenon
<1>2. ASSUME NEW x \in Users, RenewStep(x) PROVE RequestInv'
  BY <1>2, StoredRequests, QueuedRequests, StoreRequests, ReturnRequests, Zenon DEF RenewStep
<1>3. ASSUME NEW x \in Users, NEW t \in Tasks, Schedule(x, t) PROVE RequestInv'
  <2>1. PICK d \in Deadlines : Renew(x, t, d) BY <1>3, Zenon DEF Schedule
  <2>2. d \in Int BY BoundsAssumption, SMT, Z3
  <2> QED BY <2>1, <2>2, RenewRequests, Zenon
<1>4. ASSUME NEW x \in Users, NEW t \in Tasks, AsyncCancel(x, t) PROVE RequestInv'
  <2>1. Renew(x, t, -1) /\ -1 \in Int BY <1>4, SMT, Z3 DEF AsyncCancel
  <2> QED BY <2>1, RenewRequests, Zenon
<1>5. ASSUME NEW x \in Users, NEW t \in Tasks, Resume(x, t) \/ Wait(x, t) PROVE RequestInv'
  BY <1>5, CallRequests, Zenon
<1>6. ASSUME NEW x \in Users, WaitStep(x) \/ Stop(x) PROVE RequestInv' BY <1>6, CallRequests, Zenon
<1>7. ASSUME LoopStep PROVE RequestInv'
  <2>1. Loop \in Threads BY Zenon DEF Threads
  <2> QED BY <1>1, <1>7, <2>1, FetchRequests, ExecuteRequests, Zenon DEF LoopStep
<1>8. ASSUME Tick \/ UNCHANGED vars PROVE RequestInv'
  <2>1. UNCHANGED <<kind, renew_guard, renewed_deadline, version, flags, pc, loc>>
    BY <1>8, Zenon DEF Tick, vars, atomics, misc
  <2> QED BY <2>1, RequestSame, Zenon
<1>9. \A x \in Users : x \in Threads BY Zenon DEF Threads
<1> QED BY <1>1, <1>2, <1>3, <1>4, <1>5, <1>6, <1>7, <1>8, <1>9, ZenonT(30) DEF Next, UserStep, Terminated

=============================================================================
