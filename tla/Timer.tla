------------------------------- MODULE Timer -------------------------------
(***************************************************************************)
(* The timer of roc_core/timer.cpp, with the seqlocks and the semaphore it *)
(* is made of.                                                             *)
(*                                                                         *)
(* Any number of threads call try_set_deadline(), one thread calls         *)
(* wait_deadline() over and over.  A store to the seqlock deadline_ is two *)
(* steps, because a setter that finds it in progress gives up and the      *)
(* waiter that finds it in progress spins.  A store to next_wakeup_ is one *)
(* step: whoever finds one in progress goes on as if it had read -1, and   *)
(* -1 is the value before or after every store.                            *)
(***************************************************************************)
EXTENDS Integers, FiniteSets

CONSTANTS
    Setters,       \* threads that call try_set_deadline()
    Deadlines,     \* deadlines they set: 0 is at once, a negative one is never
    ClockOffsets,  \* what the semaphore's clock may be ahead of ClockMonotonic
    MaxCalls,      \* bound: calls of all setters together
    MaxTime        \* bound: the latest time

ASSUME SettersAssumption == IsFiniteSet(Setters)

ASSUME DeadlinesAssumption ==
    /\ Deadlines \subseteq Int /\ ClockOffsets \subseteq Nat
    /\ MaxCalls \in Nat /\ MaxTime \in Nat

VARIABLES
    deadline,       \* deadline_
    deadline_busy,  \* a store to deadline_ is in progress
    next_wakeup,    \* next_wakeup_; -1 also while a store to it is in progress
    sem,            \* value of sem_
    sem_post_flag,  \* sem_post_flag_
    now,            \* timestamp(ClockMonotonic)
    clock_offset,   \* the clock sem_timedwait() goes by, minus ClockMonotonic
    set_pc,         \* where each setter is
    new_deadline,   \* argument of each setter
    calls,          \* number of calls the setters have made
    wait_pc,        \* where the waiter is
    loaded          \* the waiter's local deadline

setters == <<set_pc, new_deadline, calls>>
waiter == <<wait_pc, loaded>>
posting == <<sem, sem_post_flag>>
clock == <<now, clock_offset>>
timerVars == <<deadline, deadline_busy, next_wakeup, posting, clock, setters, waiter>>

TimerInit ==
    /\ deadline = 0 /\ deadline_busy = FALSE /\ next_wakeup = 0
    /\ sem = 0 /\ sem_post_flag = FALSE
    /\ now = 0 /\ clock_offset \in ClockOffsets
    /\ set_pc = [s \in Setters |-> "idle"]
    /\ new_deadline = [s \in Setters |-> 0]
    /\ calls = 0
    /\ wait_pc = "idle" /\ loaded = 0

-----------------------------------------------------------------------------
(***************************************************************************)
(* try_set_deadline()                                                      *)
(***************************************************************************)
SetGoto(s, label) == set_pc' = [set_pc EXCEPT ![s] = label]

\* try_store() returns false if another store is in progress.
SetBegin(s) ==
    /\ set_pc[s] = "idle" /\ calls < MaxCalls
    /\ calls' = calls + 1
    /\ \/ /\ deadline_busy
          /\ UNCHANGED <<deadline_busy, set_pc, new_deadline>>
       \/ /\ ~deadline_busy /\ deadline_busy' = TRUE
          /\ \E d \in Deadlines : new_deadline' = [new_deadline EXCEPT ![s] = d]
          /\ SetGoto(s, "store")
    /\ UNCHANGED <<deadline, next_wakeup, posting, clock, waiter>>

SetStore(s) ==
    /\ set_pc[s] = "store"
    /\ deadline' = new_deadline[s] /\ deadline_busy' = FALSE
    /\ SetGoto(s, "load")
    /\ UNCHANGED <<next_wakeup, posting, clock, new_deadline, calls, waiter>>

WakeNeeded(d) == next_wakeup < 0 \/ (d >= 0 /\ d < next_wakeup)

\* Seeded fault: a waiter that has announced no wake-up time is left alone.
LoadIgnoresUnannounced(s) ==
    /\ set_pc[s] = "load"
    /\ SetGoto(s, IF new_deadline[s] >= 0 /\ new_deadline[s] < next_wakeup
                  THEN "flag" ELSE "idle")
    /\ UNCHANGED <<deadline, deadline_busy, next_wakeup, posting, clock,
                   new_deadline, calls, waiter>>

SetLoadWakeup(s) ==
    /\ set_pc[s] = "load"
    /\ SetGoto(s, IF WakeNeeded(new_deadline[s]) THEN "flag" ELSE "idle")
    /\ UNCHANGED <<deadline, deadline_busy, next_wakeup, posting, clock,
                   new_deadline, calls, waiter>>

\* Seeded fault: the semaphore is posted whether or not the flag was set.
FlagIgnored(s) ==
    /\ set_pc[s] = "flag"
    /\ sem_post_flag' = TRUE /\ SetGoto(s, "post")
    /\ UNCHANGED <<deadline, deadline_busy, next_wakeup, sem, clock,
                   new_deadline, calls, waiter>>

SetFlag(s) ==
    /\ set_pc[s] = "flag"
    /\ sem_post_flag' = TRUE
    /\ SetGoto(s, IF sem_post_flag THEN "idle" ELSE "post")
    /\ UNCHANGED <<deadline, deadline_busy, next_wakeup, sem, clock,
                   new_deadline, calls, waiter>>

SetPost(s) ==
    /\ set_pc[s] = "post"
    /\ sem' = sem + 1
    /\ SetGoto(s, "idle")
    /\ UNCHANGED <<deadline, deadline_busy, next_wakeup, sem_post_flag, clock,
                   new_deadline, calls, waiter>>

-----------------------------------------------------------------------------
(***************************************************************************)
(* wait_deadline()                                                         *)
(***************************************************************************)
WaitTop ==
    /\ wait_pc \in {"idle", "top"}
    /\ next_wakeup' = -1 /\ wait_pc' = "load"
    /\ UNCHANGED <<deadline, deadline_busy, posting, clock, setters, loaded>>

\* wait_load() spins while a store is in progress.
WaitLoad ==
    /\ wait_pc = "load" /\ ~deadline_busy
    /\ loaded' = deadline /\ wait_pc' = "check"
    /\ UNCHANGED <<deadline, deadline_busy, next_wakeup, posting, clock, setters>>

WaitCheck ==
    /\ wait_pc = "check"
    /\ wait_pc' = IF loaded >= 0 /\ loaded <= now THEN "leave"
                  ELSE IF loaded > 0 THEN "announce" ELSE "sem"
    /\ UNCHANGED <<deadline, deadline_busy, next_wakeup, posting, clock, setters, loaded>>

WaitAnnounce ==
    /\ wait_pc = "announce"
    /\ next_wakeup' = loaded /\ wait_pc' = "sem"
    /\ UNCHANGED <<deadline, deadline_busy, posting, clock, setters, loaded>>

\* wait(), and a timed_wait() that finds the semaphore posted.
WaitTake ==
    /\ wait_pc = "sem" /\ sem > 0
    /\ sem' = sem - 1 /\ wait_pc' = "reset"
    /\ UNCHANGED <<deadline, deadline_busy, next_wakeup, sem_post_flag, clock,
                   setters, loaded>>

WaitTimeout ==
    /\ wait_pc = "sem" /\ sem = 0
    /\ loaded > 0 /\ loaded <= now + clock_offset
    /\ wait_pc' = "reset"
    /\ UNCHANGED <<deadline, deadline_busy, next_wakeup, posting, clock, setters, loaded>>

\* Seeded fault: the flag stays set, so that nobody posts any more.
ResetForgotten ==
    /\ wait_pc = "reset" /\ wait_pc' = "top"
    /\ UNCHANGED <<deadline, deadline_busy, next_wakeup, posting, clock, setters, loaded>>

WaitReset ==
    /\ wait_pc = "reset"
    /\ sem_post_flag' = FALSE /\ wait_pc' = "top"
    /\ UNCHANGED <<deadline, deadline_busy, next_wakeup, sem, clock, setters, loaded>>

WaitLeave ==
    /\ wait_pc = "leave"
    /\ next_wakeup' = 0 /\ loaded' = 0 /\ wait_pc' = "idle"
    /\ UNCHANGED <<deadline, deadline_busy, posting, clock, setters>>

Tick ==
    /\ now < MaxTime /\ now' = now + 1
    /\ UNCHANGED <<deadline, deadline_busy, next_wakeup, posting, clock_offset,
                   setters, waiter>>

-----------------------------------------------------------------------------
Set(s) == SetStore(s) \/ SetLoadWakeup(s) \/ SetFlag(s) \/ SetPost(s)
Wait == WaitLoad \/ WaitCheck \/ WaitAnnounce \/ WaitTake \/ WaitTimeout
            \/ WaitReset \/ WaitLeave

TimerNext ==
    \/ \E s \in Setters : SetBegin(s) \/ Set(s)
    \/ WaitTop \/ Wait \/ Tick

\* A call that has begun goes on: no step of it waits for another call, except
\* for the store to deadline_ of a running setter and for the semaphore.
TimerFairness ==
    /\ \A s \in Setters : WF_timerVars(Set(s))
    /\ WF_timerVars(Wait) /\ WF_timerVars(WaitTop)

TimerSpec == TimerInit /\ [][TimerNext]_timerVars /\ TimerFairness

-----------------------------------------------------------------------------
(***************************************************************************)
(* Properties                                                              *)
(***************************************************************************)
SetLabels == {"idle", "store", "load", "flag", "post"}
WaitLabels == {"idle", "top", "load", "check", "announce", "sem", "reset", "leave"}

SharedOK ==
    /\ deadline \in Int /\ next_wakeup \in Int /\ sem \in Nat
    /\ now \in Nat /\ clock_offset \in Nat /\ calls \in Nat
    /\ new_deadline \in [Setters -> Int] /\ loaded \in Int

ControlOK ==
    /\ set_pc \in [Setters -> SetLabels] /\ wait_pc \in WaitLabels
    /\ deadline_busy \in BOOLEAN /\ sem_post_flag \in BOOLEAN

\* Every variable has its type; in particular the semaphore never goes below
\* zero.
TimerOK == SharedOK /\ ControlOK

\* A deadline the waiter would sleep over: it is due before the waiter wakes.
Overslept(d) == d >= 0 /\ (loaded < 0 \/ d < loaded)

\* The waiter has loaded a deadline that it is going to sleep until.
GoingToSleep == wait_pc \in {"check", "announce", "sem"}

\* A wake-up is on its way: the semaphore is posted, somebody is about to post
\* it, or the setter of the present deadline has not looked at the waiter yet.
WakeComing ==
    \/ sem > 0
    \/ \E s \in Setters :
          \/ set_pc[s] = "post"
          \/ set_pc[s] \in {"load", "flag"} /\ new_deadline[s] = deadline

\* The waiter's announcement agrees with its position: -1 until it knows the
\* deadline it will sleep until, and that deadline from then on.
AnnouncedInv ==
    /\ wait_pc \in {"load", "check", "announce"} => next_wakeup = -1
    /\ wait_pc = "announce" => loaded > 0
    /\ wait_pc = "sem" => \/ loaded > 0 /\ next_wakeup = loaded
                          \/ loaded < 0 /\ next_wakeup = -1

\* While the flag is set, a post() is there, or is coming, or was just taken.
FlagInv ==
    sem_post_flag =>
        sem > 0 \/ wait_pc = "reset" \/ \E s \in Setters : set_pc[s] = "post"

\* No wake-up is lost: whenever the deadline has moved to an earlier one than
\* the waiter has loaded, in whatever step of wait_deadline() the waiter was,
\* a post() is still to come.
NoLostWakeup == GoingToSleep /\ Overslept(deadline) => WakeComing

\* The inductive invariant behind NoLostWakeup.
TimerInv == TimerOK /\ AnnouncedInv /\ FlagInv /\ NoLostWakeup

\* The setters that have set the flag and not posted yet.
Posters == {s \in Setters : set_pc[s] = "post"}

\* Posts do not pile up: the flag lets one post() through for each round of the
\* waiter, so only those of setters that a time-out overtook can be left over.
PostsBounded ==
    sem + Cardinality(Posters) <= Cardinality(Setters) + 2

\* The inductive invariant behind PostsBounded: one post more while the flag is
\* set, and one less when the waiter has taken its post, or has timed out with
\* none, and not reset the flag yet.
PostsInv ==
    sem + Cardinality(Posters) <=
        Cardinality(Setters) + (IF sem_post_flag THEN 1 ELSE 0)
                             + (IF wait_pc = "reset" THEN 0 ELSE 1)

Due == deadline >= 0 /\ deadline <= now

\* A call of wait_deadline() returns once the deadline has come, unless the
\* deadline is changed.
WakesWhenDue == (wait_pc # "idle" /\ Due) ~> (wait_pc = "idle" \/ ~Due)
=============================================================================
