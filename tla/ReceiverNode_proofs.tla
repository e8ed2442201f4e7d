------------------------- MODULE ReceiverNode_proofs -------------------------
(***************************************************************************)
(* What the receiver node leaves behind, and that its network ports always *)
(* have an endpoint to write to, for any slots, handles, addresses and     *)
(* numbers of calls and packets.  Two small components are here as well:   *)
(* the wrapping counters of packets, and the timer, for any number of      *)
(* setters.                                                                *)
(***************************************************************************)
EXTENDS ReceiverNode, PacketUnits, Timer, FiniteSetTheorems, TLAPS

-----------------------------------------------------------------------------
(***************************************************************************)
(* The wrapping comparisons of packet/units.h agree with the order of the  *)
(* numbers before they wrapped, as long as those are less than half of the *)
(* range apart.                                                            *)
(***************************************************************************)
\* A number below the modulus is its own remainder.
LEMMA ModLow ==
  ASSUME NEW m \in Nat \ {0}, NEW x \in 0 .. m - 1
  PROVE  x % m = x
BY SMT, Z3

\* The remainder of a negative number: what an unsigned subtraction wraps to.
LEMMA ModNegative ==
  ASSUME NEW m \in Nat \ {0}, NEW x \in Int, -m <= x, x < 0
  PROVE  x % m = x + m
BY SMT, Z3

\* A number is a multiple of the modulus and its remainder.
LEMMA DivMod ==
  ASSUME NEW m \in Nat \ {0}, NEW x \in Int
  PROVE  x \div m \in Int /\ x % m \in 0 .. m - 1 /\ x = m * (x \div m) + (x % m)
BY SMT, Z3

\* A multiple of the modulus that is nearer to zero than the modulus is zero.
LEMMA SmallMultiple ==
  ASSUME NEW m \in Nat \ {0}, NEW k \in Int, -m < m * k, m * k < m
  PROVE  k = 0
<1>1. CASE k >= 1
  <2>1. m * k >= m * 1 BY <1>1, SMT, Z3
  <2> QED BY <2>1, SMT, Z3
<1>2. CASE k <= -1
  <2>1. m * k <= m * (-1) BY <1>2, SMT, Z3
  <2> QED BY <2>1, SMT, Z3
<1> QED BY <1>1, <1>2, SMT, Z3

\* Whole turns of the counter do not change a remainder.
LEMMA ModShift ==
  ASSUME NEW m \in Nat \ {0}, NEW x \in Int, NEW k \in Int
  PROVE  (x + m * k) % m = x % m
<1> DEFINE y == x + m * k
           p == x \div m
           q == y \div m
           r == x % m
           s == y % m
<1>1. y \in Int BY SMT, Z3
<1>2. p \in Int /\ r \in 0 .. m - 1 /\ x = m * p + r BY DivMod, Zenon
<1>3. q \in Int /\ s \in 0 .. m - 1 /\ y = m * q + s BY <1>1, DivMod, Zenon
<1>4. y = x + m * k BY Zenon
<1> HIDE DEF y, p, q, r, s
<1>5. m * q + s = m * p + r + m * k BY <1>2, <1>3, <1>4, Zenon
<1>6. m * (q - p - k) = m * q - m * p - m * k BY <1>2, <1>3, SMT, Z3
<1>7. m * (q - p - k) = r - s BY <1>2, <1>3, <1>5, <1>6, SMT, Z3
<1>8. q - p - k \in Int BY <1>2, <1>3, SMT, Z3
<1>9. q - p - k = 0 BY <1>2, <1>3, <1>7, <1>8, SmallMultiple, SMT, Z3
<1>10. r = s BY <1>2, <1>3, <1>7, <1>9, SMT, Z3
<1> QED BY <1>10, Zenon DEF r, s, y

\* *_diff() of two counters is the difference of the numbers they stand for, for every
\* width, wherever they start and however often they wrapped, if the numbers are less
\* than half of the range apart (the upper end excluded).
THEOREM DiffIsDistance ==
  ASSUME NEW m \in Nat \ {0}, NEW i \in Int, NEW j \in Int,
         -m <= 2 * (i - j), 2 * (i - j) < m
  PROVE  unit_diff(i % m, j % m, m) = i - j
<1> DEFINE k == (j \div m) - (i \div m)
           d == ((i % m) - (j % m)) % m
<1>1. k \in Int /\ (i % m) - (j % m) = (i - j) + m * k
  <2>1. /\ i \div m \in Int /\ i % m \in Int /\ i = m * (i \div m) + (i % m)
        /\ j \div m \in Int /\ j % m \in Int /\ j = m * (j \div m) + (j % m)
    BY DivMod, SMT, Z3
  <2>2. m * k = m * (j \div m) - m * (i \div m) BY <2>1, SMT, Z3
  <2> QED BY <2>1, <2>2, SMT, Z3
<1> HIDE DEF k
<1>2. d = (i - j) % m
  <2> DEFINE e == i - j
  <2>1. e \in Int BY SMT, Z3
  <2>2. (e + m * k) % m = e % m
    <3> HIDE DEF e
    <3> QED BY <1>1, <2>1, ModShift, Zenon
  <2> QED BY <1>1, <2>2, Zenon
<1>3. unit_diff(i % m, j % m, m) = IF 2 * d < m THEN d ELSE d - m BY Zenon DEF unit_diff
<1> HIDE DEF d
<1>4. CASE i - j >= 0
  <2>1. d = i - j BY <1>2, <1>4, ModLow, SMT, Z3
  <2> QED BY <1>3, <2>1, Zenon
<1>5. CASE i - j < 0
  <2>1. d = i - j + m BY <1>2, <1>5, ModNegative, SMT, Z3
  <2> QED BY <1>3, <2>1, SMT, Z3
<1> QED BY <1>4, <1>5, SMT, Z3

\* So *_lt() and *_le() order the packets of a window of half of the range as their
\* sender numbered them: on such a window the order is total and transitive, which the
\* comparison of the wrapped numbers alone is not.
THEOREM OrderInWindow ==
  ASSUME NEW m \in Nat \ {0}, NEW i \in Int, NEW j \in Int,
         -m < 2 * (i - j), 2 * (i - j) < m
  PROVE  /\ unit_lt(i % m, j % m, m) <=> i < j
         /\ unit_le(i % m, j % m, m) <=> i <= j
         /\ unit_lt(j % m, i % m, m) <=> j < i
<1>1. unit_diff(i % m, j % m, m) = i - j /\ unit_diff(j % m, i % m, m) = j - i
  <2>1. -m <= 2 * (i - j) /\ -m <= 2 * (j - i) /\ 2 * (j - i) < m BY SMT, Z3
  <2>2. unit_diff(i % m, j % m, m) = i - j BY <2>1, DiffIsDistance, Zenon
  <2>3. unit_diff(j % m, i % m, m) = j - i BY <2>1, DiffIsDistance, Zenon
  <2> QED BY <2>2, <2>3, Zenon
<1> QED BY <1>1, SMT, Z3 DEF unit_lt, unit_le

-----------------------------------------------------------------------------
(***************************************************************************)
(* The timer: its types, that no wake-up is lost and that posts do not     *)
(* pile up, for any number of setters, any deadlines and any offset of the *)
(* semaphore's clock.                                                      *)
(***************************************************************************)
\* Init establishes the invariant.
LEMMA TimerStarts == TimerInit => TimerInv
<1> SUFFICES ASSUME TimerInit PROVE TimerInv
    BY Zenon
<1>1. SharedOK
    BY DeadlinesAssumption, SMT, Z3 DEF TimerInit, SharedOK
<1>2. ControlOK
    BY Zenon DEF TimerInit, ControlOK, SetLabels, WaitLabels
<1>3. AnnouncedInv /\ FlagInv /\ NoLostWakeup
    BY Zenon DEF TimerInit, AnnouncedInv, FlagInv, NoLostWakeup, GoingToSleep
<1> QED BY <1>1, <1>2, <1>3, Zenon DEF TimerInv, TimerOK

\* Every step keeps the types.
LEMMA TypeStep == TimerOK /\ [TimerNext]_timerVars => TimerOK'
<1> SUFFICES ASSUME TimerOK, [TimerNext]_timerVars PROVE TimerOK'
    BY Zenon
<1> USE DEF TimerOK, setters, waiter, posting, clock
<1>1. SharedOK'
  <2> USE DEF SharedOK
  <2>1. ASSUME NEW s \in Setters, SetBegin(s) PROVE SharedOK'
    BY <2>1, DeadlinesAssumption, SMT, Z3 DEF SetBegin
  <2>2. ASSUME NEW s \in Setters, Set(s) PROVE SharedOK'
    BY <2>2, SMT, Z3 DEF Set, SetStore, SetLoadWakeup, SetFlag, SetPost
  <2>3. CASE WaitTop \/ Tick
    BY <2>3, SMT, Z3 DEF WaitTop, Tick
  <2>4. CASE Wait
    BY <2>4, SMT, Z3 DEF Wait, WaitLoad, WaitCheck, WaitAnnounce, WaitTake, WaitTimeout,
                WaitReset, WaitLeave
  <2>5. CASE UNCHANGED timerVars
    BY <2>5, Zenon DEF timerVars
  <2> QED BY <2>1, <2>2, <2>3, <2>4, <2>5, Zenon DEF TimerNext
<1>2. ControlOK'
  <2> USE DEF ControlOK, SetLabels, WaitLabels
  <2>1. ASSUME NEW s \in Setters, SetBegin(s) PROVE ControlOK'
    BY <2>1, Zenon DEF SetBegin, SetGoto
  <2>2. ASSUME NEW s \in Setters, Set(s) PROVE ControlOK'
    BY <2>2, Zenon DEF Set, SetStore, SetLoadWakeup, SetFlag, SetPost, SetGoto
  <2>3. CASE WaitTop \/ Tick
    BY <2>3, Zenon DEF WaitTop, Tick
  <2>4. CASE Wait
    BY <2>4, Zenon DEF Wait, WaitLoad, WaitCheck, WaitAnnounce, WaitTake, WaitTimeout,
                WaitReset, WaitLeave
  <2>5. CASE UNCHANGED timerVars
    BY <2>5, Zenon DEF timerVars
  <2> QED BY <2>1, <2>2, <2>3, <2>4, <2>5, Zenon DEF TimerNext
<1> QED BY <1>1, <1>2, Zenon

\* A setter's step keeps the waiter's announcement, and keeps a wake-up
\* coming for as long as the waiter would oversleep.
LEMMA SetterStep ==
    ASSUME TimerInv, TimerOK', NEW s \in Setters, SetBegin(s) \/ Set(s)
    PROVE  AnnouncedInv' /\ FlagInv' /\ NoLostWakeup'
<1> USE DEF TimerInv, TimerOK, SharedOK, ControlOK, setters, waiter, posting, clock, SetGoto
<1>1. AnnouncedInv'
    BY Zenon DEF AnnouncedInv, SetBegin, Set, SetStore, SetLoadWakeup, SetFlag, SetPost
<1>2. CASE SetBegin(s)
  <2>1. FlagInv'
    BY <1>2, Zenon DEF SetBegin, FlagInv
  <2>2. NoLostWakeup'
    BY <1>2, Zenon DEF SetBegin, NoLostWakeup, GoingToSleep, Overslept, WakeComing
  <2> QED BY <1>1, <2>1, <2>2, Zenon
<1>3. CASE SetStore(s)
  <2>1. FlagInv'
    BY <1>3, Zenon DEF SetStore, FlagInv
  <2>2. set_pc'[s] = "load" /\ new_deadline'[s] = deadline'
    BY <1>3, Zenon DEF SetStore
  <2> QED BY <1>1, <2>1, <2>2, Zenon DEF NoLostWakeup, WakeComing
<1>4. CASE SetLoadWakeup(s)
  <2>1. FlagInv'
    BY <1>4, Zenon DEF SetLoadWakeup, FlagInv
  <2>2. ASSUME GoingToSleep, Overslept(deadline), new_deadline[s] = deadline
        PROVE  WakeNeeded(new_deadline[s])
    BY <2>2, SMT, Z3 DEF GoingToSleep, Overslept, WakeNeeded, AnnouncedInv
  <2>3. NoLostWakeup'
    BY <1>4, <2>2, Zenon DEF SetLoadWakeup, NoLostWakeup, GoingToSleep, Overslept, WakeComing
  <2> QED BY <1>1, <2>1, <2>3
<1>5. CASE SetFlag(s)
  <2>1. FlagInv'
    BY <1>5, Zenon DEF SetFlag, FlagInv
  <2>2. NoLostWakeup'
    BY <1>5, Zenon DEF SetFlag, NoLostWakeup, GoingToSleep, Overslept, WakeComing, FlagInv
  <2> QED BY <1>1, <2>1, <2>2
<1>6. CASE SetPost(s)
  <2>1. sem' > 0
    BY <1>6, SMT, Z3 DEF SetPost
  <2> QED BY <1>1, <2>1, Zenon DEF FlagInv, NoLostWakeup, WakeComing
<1> QED BY <1>2, <1>3, <1>4, <1>5, <1>6, Zenon DEF Set

\* So does a step of the waiter: it loads the present deadline, and leaves the
\* semaphore wait only to reset the flag and to look at the deadline again.
LEMMA WaiterStep ==
    ASSUME TimerInv, TimerOK', WaitTop \/ Wait
    PROVE  AnnouncedInv' /\ FlagInv' /\ NoLostWakeup'
<1> USE DEF TimerInv, TimerOK, SharedOK, ControlOK, setters, waiter, posting, clock
<1>1. AnnouncedInv'
    BY SMT, Z3 DEF AnnouncedInv, WaitTop, Wait, WaitLoad, WaitCheck, WaitAnnounce,
           WaitTake, WaitTimeout, WaitReset, WaitLeave
<1>2. FlagInv'
    BY Zenon DEF FlagInv, WaitTop, Wait, WaitLoad, WaitCheck, WaitAnnounce,
           WaitTake, WaitTimeout, WaitReset, WaitLeave
<1>3. CASE WaitLoad
    BY <1>1, <1>2, <1>3, SMT, Z3 DEF WaitLoad, NoLostWakeup, Overslept
<1>4. CASE WaitCheck \/ WaitAnnounce
    BY <1>1, <1>2, <1>4, Zenon DEF WaitCheck, WaitAnnounce, NoLostWakeup, GoingToSleep, Overslept, WakeComing
<1>5. CASE WaitTop \/ WaitTake \/ WaitTimeout \/ WaitReset \/ WaitLeave
    BY <1>1, <1>2, <1>5, Zenon DEF WaitTop, WaitTake, WaitTimeout, WaitReset, WaitLeave, NoLostWakeup,
                GoingToSleep
<1> QED BY <1>1, <1>2, <1>3, <1>4, <1>5, Zenon DEF Wait

\* The invariant is inductive.
LEMMA TimerStep == TimerInv /\ [TimerNext]_timerVars => TimerInv'
<1> SUFFICES ASSUME TimerInv, [TimerNext]_timerVars PROVE TimerInv'
    OBVIOUS
<1>1. TimerOK'
    BY TypeStep, Zenon DEF TimerInv
<1>2. CASE \E s \in Setters : SetBegin(s) \/ Set(s)
    BY <1>1, <1>2, SetterStep, Zenon DEF TimerInv
<1>3. CASE WaitTop \/ Wait
    BY <1>1, <1>3, WaiterStep, Zenon DEF TimerInv
<1>4. CASE Tick \/ UNCHANGED timerVars
    BY <1>1, <1>4, SMT, Z3 DEF Tick, timerVars, TimerInv, setters, waiter, posting, clock,
       AnnouncedInv, FlagInv, NoLostWakeup, GoingToSleep, Overslept, WakeComing
<1> QED BY <1>2, <1>3, <1>4, Zenon DEF TimerNext

\* The state of timer.cpp has its types in every reachable state.
THEOREM TimerTypeCorrect == TimerSpec => []TimerOK
<1>1. TimerInv => TimerOK
    BY Zenon DEF TimerInv
<1> QED BY TimerStarts, TimerStep, <1>1, PTL DEF TimerSpec

\* try_set_deadline() and wait_deadline() lose no wake-up: a waiter that is
\* going to sleep past the deadline always has a post() coming.
THEOREM NoWakeupLost == TimerSpec => []NoLostWakeup
<1>1. TimerInv => NoLostWakeup
    BY Zenon DEF TimerInv
<1> QED BY TimerStarts, TimerStep, <1>1, PTL DEF TimerSpec

-----------------------------------------------------------------------------
\* The posters are a finite set, no larger than that of the setters.
LEMMA PostersFinite ==
    /\ IsFiniteSet(Posters) /\ Cardinality(Posters) \in Nat /\ Cardinality(Setters) \in Nat
    /\ Cardinality(Posters) <= Cardinality(Setters)
<1>1. Posters \subseteq Setters
    BY Zenon DEF Posters
<1>2. IsFiniteSet(Setters)
    BY SettersAssumption, Zenon
<1>3. IsFiniteSet(Posters) /\ Cardinality(Posters) <= Cardinality(Setters)
    BY <1>1, <1>2, FS_Subset, Zenon
<1> QED BY <1>2, <1>3, FS_CardinalityType, Zenon

\* Nobody begins or ends posting.
LEMMA SamePosters ==
    ASSUME \A s \in Setters : set_pc'[s] = "post" <=> set_pc[s] = "post"
    PROVE  Cardinality(Posters') = Cardinality(Posters)
<1>1. Posters' = Posters
    BY Zenon DEF Posters
<1> QED BY <1>1, Zenon

\* A setter's step adds a post only when it sets the flag.
LEMMA SetterPosts ==
    ASSUME TimerOK, PostsInv, NEW s \in Setters, SetBegin(s) \/ Set(s)
    PROVE  PostsInv'
<1> USE DEF TimerOK, SharedOK, ControlOK, setters, waiter, posting, clock, SetGoto
<1>1. wait_pc' = wait_pc
    BY Zenon DEF SetBegin, Set, SetStore, SetLoadWakeup, SetFlag, SetPost
<1>2. CASE SetBegin(s) \/ SetStore(s) \/ SetLoadWakeup(s)
  <2>1. \A r \in Setters : set_pc'[r] = "post" <=> set_pc[r] = "post"
    BY <1>2, Zenon DEF SetBegin, SetStore, SetLoadWakeup
  <2>2. sem' = sem /\ sem_post_flag' = sem_post_flag
    BY <1>2, Zenon DEF SetBegin, SetStore, SetLoadWakeup
  <2> QED BY <1>1, <2>1, <2>2, SamePosters, Zenon DEF PostsInv
<1>3. CASE SetFlag(s)
  <2>1. CASE sem_post_flag
    <3>1. \A r \in Setters : set_pc'[r] = "post" <=> set_pc[r] = "post"
      BY <1>3, <2>1, Zenon DEF SetFlag
    <3>2. sem' = sem /\ sem_post_flag' = sem_post_flag
      BY <1>3, <2>1, Zenon DEF SetFlag
    <3> QED BY <1>1, <3>1, <3>2, SamePosters DEF PostsInv
  <2>2. CASE ~sem_post_flag
    <3>1. sem' = sem /\ sem_post_flag' = TRUE /\ s \notin Posters
      BY <1>3, Zenon DEF SetFlag, Posters
    <3>2. Posters' = Posters \union {s}
      BY <1>3, <2>2, Zenon DEF SetFlag, Posters
    <3>3. Cardinality(Posters') = Cardinality(Posters) + 1
      BY <3>1, <3>2, PostersFinite, FS_AddElement, Zenon
    <3> QED BY <1>1, <2>2, <3>1, <3>3, PostersFinite, SMT, Z3 DEF PostsInv
  <2> QED BY <2>1, <2>2, Zenon
<1>4. CASE SetPost(s)
  <2>1. sem' = sem + 1 /\ sem_post_flag' = sem_post_flag /\ s \in Posters
    BY <1>4, Zenon DEF SetPost, Posters
  <2>2. Posters' = Posters \ {s}
    BY <1>4, Zenon DEF SetPost, Posters
  <2>3. Cardinality(Posters') = Cardinality(Posters) - 1
    BY <2>1, <2>2, PostersFinite, FS_RemoveElement, Zenon
  <2> QED BY <1>1, <2>1, <2>3, PostersFinite, SMT, Z3 DEF PostsInv
<1> QED BY <1>2, <1>3, <1>4, Zenon DEF Set

\* A step of the waiter: it resets the flag once it has taken a post, or when
\* there is no post but those that setters are about to make.
LEMMA WaiterPosts ==
    ASSUME TimerOK, PostsInv, WaitTop \/ Wait \/ Tick \/ UNCHANGED timerVars
    PROVE  PostsInv'
<1> USE DEF TimerOK, SharedOK, ControlOK, setters, waiter, posting, clock
<1>1. set_pc' = set_pc
    BY Zenon DEF WaitTop, Wait, WaitLoad, WaitCheck, WaitAnnounce, WaitTake, WaitTimeout, WaitReset,
           WaitLeave, Tick, timerVars
<1>2. Cardinality(Posters') = Cardinality(Posters)
    BY <1>1, SamePosters, Zenon
<1>3. CASE WaitTake
    BY <1>2, <1>3, PostersFinite, SMT, Z3 DEF WaitTake, PostsInv
<1>4. CASE WaitTimeout
    BY <1>2, <1>4, PostersFinite, SMT, Z3 DEF WaitTimeout, PostsInv
<1>5. CASE WaitReset
    BY <1>2, <1>5, PostersFinite, SMT, Z3 DEF WaitReset, PostsInv
<1>6. CASE WaitTop \/ WaitLoad \/ WaitCheck \/ WaitAnnounce \/ WaitLeave \/ Tick \/ UNCHANGED timerVars
  <2>1. sem' = sem /\ sem_post_flag' = sem_post_flag /\ (wait_pc' = "reset" <=> wait_pc = "reset")
    BY <1>6, Zenon DEF WaitTop, WaitLoad, WaitCheck, WaitAnnounce, WaitLeave, Tick, timerVars
  <2> QED BY <1>2, <2>1, Zenon DEF PostsInv
<1> QED BY <1>3, <1>4, <1>5, <1>6, Zenon DEF Wait

\* Posts do not pile up, however many setters race with the waiter's time-outs.
THEOREM PostsAreBounded == TimerSpec => []PostsBounded
<1>1. TimerInit => PostsInv
  <2> SUFFICES ASSUME TimerInit PROVE PostsInv
    OBVIOUS
  <2>1. sem = 0 /\ ~sem_post_flag /\ wait_pc = "idle"
    BY Zenon DEF TimerInit
  <2> QED BY <2>1, PostersFinite, SMT, Z3 DEF PostsInv
<1>2. TimerOK /\ PostsInv /\ [TimerNext]_timerVars => PostsInv'
    BY SetterPosts, WaiterPosts, Zenon DEF TimerNext
<1>3. TimerOK /\ PostsInv => PostsBounded
  <2> SUFFICES ASSUME TimerOK, PostsInv PROVE PostsBounded
    BY Zenon
  <2>1. sem \in Nat
    BY Zenon DEF TimerOK, SharedOK
  <2> QED BY <2>1, PostersFinite, SMT, Z3 DEF PostsInv, PostsBounded
<1> QED BY <1>1, <1>2, <1>3, TimerTypeCorrect, PTL DEF TimerSpec

-----------------------------------------------------------------------------
(* The invariant.                                                            *)

SlotType ==
    [proto : [Ifaces -> Protos \union {NoProto}], queue : [Ifaces -> Seq(Packets)],
     sessions : SUBSET Addresses]

PipelineType ==
    [slots : UNION {[hs -> SlotType] : hs \in SUBSET Handles}, pending : Int, sessions : Int,
     mixer : SUBSET (Handles \X Addresses)]

NodeSlotType ==
    [handle : Handles \union {NoHandle}, broken : BOOLEAN, ports : [Ifaces -> BOOLEAN]]

\* The types of the pipeline and of the slots of the node.
NodeTypes ==
    /\ pipe \in PipelineType
    /\ DOMAIN slot_map \subseteq Slots
    /\ slot_map \in [DOMAIN slot_map -> NodeSlotType]
    /\ call.at # "idle" /\ call.req.op = "bind" => call.req.uri \in Ifaces \X Protos
    /\ call.at # "idle" /\ call.req.op = "configure" => call.req.iface \in Ifaces
    /\ net.at = "push" => net.packet \in Packets

\* Behind OwnsAll, the same at every step of a call: the handles of slots are pipeline
\* slots, each of one slot, and ports are the ports of slots.
Handle(i) == slot_map[i].handle

Owned ==
    /\ Live(pipe) \subseteq Handles /\ ports \subseteq Handles \X Ifaces
    /\ \A h \in Handles : (\E i \in DOMAIN slot_map : Handle(i) = h) => h \in Live(pipe)
    /\ \A i, j \in DOMAIN slot_map : Handle(i) = Handle(j) /\ Handle(i) # NoHandle => i = j
    /\ \A h \in Handles, f \in Ifaces :
         <<h, f>> \in ports <=> \E i \in DOMAIN slot_map : Handle(i) = h /\ slot_map[i].ports[f]

\* An open port has an endpoint to write to.
Connected ==
    \A i \in DOMAIN slot_map, f \in Ifaces :
      slot_map[i].ports[f] =>
        Handle(i) # NoHandle /\ pipe.slots[Handle(i)].proto[f] # NoProto

\* What a call in progress at a slot may leave for its next steps: an endpoint without a
\* port, a broken slot that still has something, a slot without a handle.
CallAt(steps, i) == call.at \in steps /\ call.req.slot = i

Unfinished ==
    \A i \in DOMAIN slot_map :
      /\ \A f \in Ifaces :
           Handle(i) # NoHandle /\ pipe.slots[Handle(i)].proto[f] # NoProto
             => \/ slot_map[i].ports[f]
                \/ CallAt({"cleanup", "delete_slot"}, i)
                \/ CallAt({"add_port"}, i) /\ call.req.uri[1] = f
      /\ slot_map[i].broken /\ Handle(i) # NoHandle => CallAt({"cleanup", "delete_slot"}, i)
      /\ ~slot_map[i].broken /\ Handle(i) = NoHandle => CallAt({"cleanup"}, i)

\* What the steps of a call rely on.
CallKnows ==
    /\ call.at \in {"found", "resolve", "add_endpoint", "add_port", "query_slot", "cleanup",
                    "delete_slot"}
         => call.req.slot \in DOMAIN slot_map
    /\ call.at \in {"resolve", "add_endpoint", "add_port"}
         => call.req.op = "bind" /\ ~Slot.broken
    /\ call.at = "add_port" => pipe.slots[Slot.handle].proto[Iface] # NoProto
    /\ call.at \in {"cleanup", "delete_slot"} /\ call.req.op \notin {"unlink", "destroy"}
         => Slot.broken
    /\ call.at = "delete_slot" => OpenPorts = {} /\ Slot.handle # NoHandle
    /\ call.at = "create_slot" => call.req.slot \in Slots \ DOMAIN slot_map
    /\ net.at = "push" => net.port \in ports

\* The slots the reader walks through stay (without TaskInReclock).
ReaderKnows ==
    /\ reader.at \in {"refresh", "reclock"}
         => reader.slot \in Live(pipe) /\ reader.rest \subseteq Live(pipe)
    /\ reader.at = "refresh" => reader.todo \subseteq Ifaces
    /\ reader.at \in {"refresh", "mix"} => inside = "frame"
    /\ reader.at = "reclock" => inside = "nobody"

Ownership == Owned /\ Connected /\ Unfinished /\ CallKnows

\* A pipeline slot that is not the handle of a slot was left behind by get_slot_(), and is
\* as it was created.
Orphaned ==
    /\ \A h \in orphans : h \in Live(pipe) /\ pipe.slots[h] = NewSlot
    /\ \A i \in DOMAIN slot_map : Handle(i) \notin orphans
    /\ \A h \in Live(pipe) \ orphans : \E i \in DOMAIN slot_map : Handle(i) = h

-----------------------------------------------------------------------------
(* What the operations of the pipeline do to slots, endpoints and sessions.   *)

\* Two pipelines with the same slots and the same endpoints in them.
SameEndpoints(p, q) ==
    /\ Live(q) = Live(p)
    /\ \A h \in Live(p) : q.slots[h].proto = p.slots[h].proto

\* The sessions of the slots of a pipeline, as inputs of the mixer.
Inputs(p) == {m \in Live(p) \X Addresses : m[2] \in p.slots[m[1]].sessions}

\* SessionsMixed, of any pipeline.
Mixed(p) == p.mixer = Inputs(p) /\ p.sessions = Cardinality(p.mixer)

\* The slots of a pipeline are a function on some handles.
LEMMA PipelineSlots ==
  ASSUME NEW p \in PipelineType
  PROVE  /\ Live(p) \subseteq Handles
         /\ p.slots \in [Live(p) -> SlotType]
BY Zenon DEF PipelineType, Live

\* A pipeline is put together from its fields.
LEMMA PipelineFields ==
  ASSUME NEW hs \in SUBSET Handles, NEW s \in [hs -> SlotType], NEW n \in Int, NEW k \in Int,
         NEW m \in SUBSET (Handles \X Addresses)
  PROVE  [slots |-> s, pending |-> n, sessions |-> k, mixer |-> m] \in PipelineType
BY Zenon DEF PipelineType

\* A pipeline without slots is one.
LEMMA EmptyTyped == EmptyPipeline \in PipelineType
<1>1. <<>> \in [{} -> SlotType] BY SMT, Z3
<1>2. {} \in SUBSET Handles /\ {} \in SUBSET (Handles \X Addresses) /\ 0 \in Int BY SMT, Z3
<1> QED BY <1>1, <1>2, PipelineFields, Zenon DEF EmptyPipeline

\* The inputs of a mixer are finite.
LEMMA MixerFinite ==
  ASSUME NEW p \in PipelineType
  PROVE  IsFiniteSet(p.mixer)
<1>1. IsFiniteSet(Handles \X Addresses) BY FS_Product, NodeAssumption, Zenon
<1>2. p.mixer \subseteq Handles \X Addresses BY Zenon DEF PipelineType
<1> QED BY <1>1, <1>2, FS_Subset, Zenon

\* CountPacket() changes the counter only.
LEMMA CountPacketKeeps ==
  ASSUME NEW p \in PipelineType
  PROVE  /\ CountPacket(p) \in PipelineType
         /\ SameEndpoints(p, CountPacket(p))
         /\ Mixed(p) => Mixed(CountPacket(p))
BY SMT, Z3 DEF CountPacket, PipelineType, SameEndpoints, Live, Mixed, Inputs

\* A change of the queues changes nothing else.
LEMMA QueueKeeps ==
  ASSUME NEW p \in PipelineType, NEW h \in Live(p), NEW f \in Ifaces, NEW queue \in Seq(Packets),
         NEW q, q = [p EXCEPT !.slots = [p.slots EXCEPT ![h].queue[f] = queue]]
  PROVE  /\ q \in PipelineType
         /\ SameEndpoints(p, q)
         /\ \A g \in Live(p) : q.slots[g].sessions = p.slots[g].sessions
         /\ Mixed(p) => Mixed(q)
<1> DEFINE slots == [p.slots EXCEPT ![h].queue[f] = queue]
<1>1. p.slots \in [Live(p) -> SlotType] /\ Live(p) \in SUBSET Handles BY PipelineSlots, Zenon
<1>2. q = [slots |-> slots, pending |-> p.pending, sessions |-> p.sessions, mixer |-> p.mixer]
  BY Zenon DEF PipelineType
<1>3. slots \in [Live(p) -> SlotType] BY <1>1, Zenon DEF SlotType
<1>4. \A g \in Live(p) : slots[g].proto = p.slots[g].proto
                        /\ slots[g].sessions = p.slots[g].sessions
  BY <1>1, Zenon DEF SlotType
<1>5. p.pending \in Int /\ p.sessions \in Int /\ p.mixer \in SUBSET (Handles \X Addresses)
  BY Zenon DEF PipelineType
<1> HIDE DEF slots
<1>6. q \in PipelineType
  <2> DEFINE r == [slots |-> slots, pending |-> p.pending, sessions |-> p.sessions, mixer |-> p.mixer]
  <2>1. r \in PipelineType BY <1>1, <1>3, <1>5, PipelineFields, Zenon
  <2> QED BY <1>2, <2>1, Zenon
<1>7. Live(q) = Live(p) BY <1>2, <1>3, Zenon DEF Live
<1>8. Inputs(q) = Inputs(p) BY <1>2, <1>4, <1>7, SMT, Z3 DEF Inputs
<1> QED BY <1>2, <1>4, <1>6, <1>7, <1>8, SMT, Z3 DEF SameEndpoints, Mixed

\* PushPacket() changes a queue only.
LEMMA PushPacketKeeps ==
  ASSUME NEW p \in PipelineType, NEW h \in Live(p), NEW f \in Ifaces, NEW packet \in Packets
  PROVE  /\ PushPacket(p, h, f, packet) \in PipelineType
         /\ SameEndpoints(p, PushPacket(p, h, f, packet))
         /\ Mixed(p) => Mixed(PushPacket(p, h, f, packet))
<1> DEFINE queue == Append(p.slots[h].queue[f], packet)
<1>1. queue \in Seq(Packets) BY PipelineSlots, SMT, Z3 DEF SlotType
<1>2. PushPacket(p, h, f, packet) = [p EXCEPT !.slots = [p.slots EXCEPT ![h].queue[f] = queue]]
  BY Zenon DEF PushPacket
<1> HIDE DEF queue
<1> QED BY <1>1, <1>2, QueueKeeps, SMT, Z3

\* A new slot is empty.
LEMMA CreateSlot ==
  ASSUME NEW p \in PipelineType, NEW h \in Handles \ Live(p), NEW q, q = create_slot(p, h)
  PROVE  /\ q \in PipelineType
         /\ Live(q) = Live(p) \union {h}
         /\ q.slots[h].proto = [f \in Ifaces |-> NoProto]
         /\ \A g \in Live(p) : q.slots[g] = p.slots[g]
         /\ Mixed(p) => Mixed(q)
<1> DEFINE slots == With(p.slots, h, NewSlot)
<1>1. p.slots \in [Live(p) -> SlotType] /\ Live(p) \in SUBSET Handles BY PipelineSlots, Zenon
<1>2. q = [slots |-> slots, pending |-> p.pending, sessions |-> p.sessions, mixer |-> p.mixer]
  BY Zenon DEF create_slot, PipelineType
<1>3. NewSlot \in SlotType /\ NewSlot.proto = [f \in Ifaces |-> NoProto] /\ NewSlot.sessions = {}
  BY SMT, Z3 DEF NewSlot, SlotType
<1>4. slots \in [Live(p) \union {h} -> SlotType] BY <1>1, <1>3, Zenon DEF With
<1>5. slots[h] = NewSlot /\ \A g \in Live(p) : slots[g] = p.slots[g] BY <1>1, Zenon DEF With
<1>6. p.pending \in Int /\ p.sessions \in Int /\ p.mixer \in SUBSET (Handles \X Addresses)
  BY Zenon DEF PipelineType
<1> HIDE DEF slots
<1>7. q \in PipelineType
  <2> DEFINE r == [slots |-> slots, pending |-> p.pending, sessions |-> p.sessions, mixer |-> p.mixer]
  <2>1. Live(p) \union {h} \in SUBSET Handles BY <1>1, Zenon
  <2>2. r \in PipelineType BY <2>1, <1>4, <1>6, PipelineFields, Zenon
  <2> QED BY <1>2, <2>2, Zenon
<1>8. Live(q) = Live(p) \union {h} /\ q.slots = slots BY <1>2, <1>4, SMT, Z3 DEF Live
<1>9. Inputs(q) = Inputs(p) BY <1>3, <1>5, <1>8, Zenon DEF Inputs
<1> QED BY <1>2, <1>3, <1>5, <1>7, <1>8, <1>9, SMT, Z3 DEF Mixed

\* An endpoint is added.
LEMMA AddEndpoint ==
  ASSUME NEW p \in PipelineType, NEW h \in Live(p), NEW f \in Ifaces, NEW proto \in Protos,
         NEW q, q = add_endpoint(p, h, f, proto)
  PROVE  /\ q \in PipelineType
         /\ Live(q) = Live(p)
         /\ q.slots[h].proto[f] = proto
         /\ \A g \in Ifaces \ {f} : q.slots[h].proto[g] = p.slots[h].proto[g]
         /\ \A g \in Live(p) \ {h} : q.slots[g].proto = p.slots[g].proto
         /\ Mixed(p) => Mixed(q)
<1> DEFINE slots == [p.slots EXCEPT ![h].proto[f] = proto]
<1>1. p.slots \in [Live(p) -> SlotType] /\ Live(p) \in SUBSET Handles BY PipelineSlots, Zenon
<1>2. q = [slots |-> slots, pending |-> p.pending, sessions |-> p.sessions, mixer |-> p.mixer]
  BY Zenon DEF add_endpoint, PipelineType
<1>3. slots \in [Live(p) -> SlotType] BY <1>1, Zenon DEF SlotType
<1>4. /\ slots[h].proto[f] = proto
      /\ \A g \in Ifaces \ {f} : slots[h].proto[g] = p.slots[h].proto[g]
      /\ \A g \in Live(p) \ {h} : slots[g].proto = p.slots[g].proto
      /\ \A g \in Live(p) : slots[g].sessions = p.slots[g].sessions
  BY <1>1, Zenon DEF SlotType
<1>5. p.pending \in Int /\ p.sessions \in Int /\ p.mixer \in SUBSET (Handles \X Addresses)
  BY Zenon DEF PipelineType
<1> HIDE DEF slots
<1>6. q \in PipelineType
  <2> DEFINE r == [slots |-> slots, pending |-> p.pending, sessions |-> p.sessions, mixer |-> p.mixer]
  <2>1. r \in PipelineType BY <1>1, <1>3, <1>5, PipelineFields, Zenon
  <2> QED BY <1>2, <2>1, Zenon
<1>7. Live(q) = Live(p) /\ q.slots = slots BY <1>2, <1>3, SMT, Z3 DEF Live
<1>8. Inputs(q) = Inputs(p) BY <1>4, <1>7, Zenon DEF Inputs
<1> QED BY <1>2, <1>4, <1>6, <1>7, <1>8, SMT, Z3 DEF Mixed

\* Sessions end, and leave the mixer.
LEMMA RemoveSessions ==
  ASSUME NEW p \in PipelineType, NEW h \in Live(p), NEW gone \in SUBSET p.slots[h].sessions,
         NEW q, q = remove_sessions(p, h, gone)
  PROVE  /\ q \in PipelineType
         /\ SameEndpoints(p, q)
         /\ q.slots[h].sessions = p.slots[h].sessions \ gone
         /\ \A g \in Live(p) \ {h} : q.slots[g].sessions = p.slots[g].sessions
         /\ Mixed(p) => Mixed(q)
<1> DEFINE slots == [p.slots EXCEPT ![h].sessions = @ \ gone]
           mixer == p.mixer \ ({h} \X gone)
           count == p.sessions - Cardinality(gone)
           r == [slots |-> slots, pending |-> p.pending, sessions |-> count, mixer |-> mixer]
<1>1. p.slots \in [Live(p) -> SlotType] /\ Live(p) \in SUBSET Handles BY PipelineSlots, Zenon
<1>2. q = r BY Zenon DEF remove_sessions
<1>3. slots \in [Live(p) -> SlotType] BY <1>1, ZenonT(60) DEF SlotType
<1>4. /\ slots[h].sessions = p.slots[h].sessions \ gone
      /\ \A g \in Live(p) : slots[g].proto = p.slots[g].proto
      /\ \A g \in Live(p) \ {h} : slots[g].sessions = p.slots[g].sessions
  BY <1>1, Zenon DEF SlotType
<1>5. p.pending \in Int /\ p.sessions \in Int /\ p.mixer \in SUBSET (Handles \X Addresses)
  BY Zenon DEF PipelineType
<1>6. gone \subseteq Addresses BY <1>1, Zenon DEF SlotType
<1>7. IsFiniteSet(gone) /\ Cardinality(gone) \in Nat
  BY <1>6, NodeAssumption, FS_Subset, FS_CardinalityType, Zenon
<1>8. count \in Int BY <1>5, <1>7, SMT, Z3
<1>9. mixer \in SUBSET (Handles \X Addresses) BY <1>5, Zenon
<1> HIDE DEF slots, count, mixer
<1>10. q \in PipelineType BY <1>1, <1>2, <1>3, <1>5, <1>8, <1>9, PipelineFields, SMT, Z3
<1>11. Live(q) = Live(p) /\ q.slots = slots BY <1>2, <1>3, SMT, Z3 DEF Live
<1>12. ASSUME Mixed(p) PROVE Mixed(q)
  <2>1. mixer = Inputs(q)
    BY <1>12, <1>4, <1>6, <1>11, Zenon DEF Mixed, Inputs, mixer
  <2>2. {h} \X gone \subseteq p.mixer BY <1>12, <1>6, Zenon DEF Mixed, Inputs
  <2>3. IsFiniteSet(p.mixer) BY MixerFinite, Zenon
  <2>4. Cardinality({h} \X gone) = Cardinality(gone)
    <3>1. IsFiniteSet({h}) /\ Cardinality({h}) = 1 BY FS_Singleton, Zenon
    <3>2. Cardinality({h} \X gone) = Cardinality({h}) * Cardinality(gone)
      BY <1>7, <3>1, FS_Product, Zenon
    <3> QED BY <1>7, <3>1, <3>2, SMT, Z3
  <2>5. p.mixer \cap ({h} \X gone) = {h} \X gone BY <2>2, Zenon
  <2>6. Cardinality(mixer) = Cardinality(p.mixer) - Cardinality({h} \X gone)
    <3> DEFINE out == {h} \X gone
    <3>1. Cardinality(p.mixer \ out) = Cardinality(p.mixer) - Cardinality(p.mixer \cap out)
      BY <2>3, FS_Difference, Zenon
    <3> QED BY <2>5, <3>1, Zenon DEF mixer
  <2> QED BY <1>12, <1>2, <2>1, <2>4, <2>6, SMT, Z3 DEF Mixed, count
<1> QED BY <1>4, <1>10, <1>11, <1>12, Zenon DEF SameEndpoints

\* A slot is destroyed, with its sessions.
LEMMA DeleteSlot ==
  ASSUME NEW p \in PipelineType, NEW h \in Live(p), NEW q, q = delete_slot(p, h)
  PROVE  /\ q \in PipelineType
         /\ Live(q) = Live(p) \ {h}
         /\ \A g \in Live(q) : q.slots[g].proto = p.slots[g].proto
         /\ Mixed(p) => Mixed(q)
<1> DEFINE r == remove_sessions(p, h, p.slots[h].sessions)
           slots == Restrict(r.slots, Live(p) \ {h})
<1>1. /\ r \in PipelineType
      /\ SameEndpoints(p, r)
      /\ r.slots[h].sessions = {}
      /\ Mixed(p) => Mixed(r)
  BY RemoveSessions, SMT, Z3
<1>2. q = [r EXCEPT !.slots = slots] BY Zenon DEF delete_slot
<1> HIDE DEF r
<1>3. Live(r) = Live(p) BY <1>1, Zenon DEF SameEndpoints
<1>4. r.slots \in [Live(p) -> SlotType] /\ Live(p) \in SUBSET Handles
  BY <1>1, <1>3, PipelineSlots, Zenon
<1>5. slots \in [Live(p) \ {h} -> SlotType] BY <1>4, Zenon DEF Restrict
<1>6. \A g \in Live(p) \ {h} : slots[g] = r.slots[g] BY Zenon DEF Restrict
<1> HIDE DEF slots
<1>7. q = [slots |-> slots, pending |-> r.pending, sessions |-> r.sessions, mixer |-> r.mixer]
  BY <1>1, <1>2, Zenon DEF PipelineType
<1>8. r.pending \in Int /\ r.sessions \in Int /\ r.mixer \in SUBSET (Handles \X Addresses)
  BY <1>1, Zenon DEF PipelineType
<1>9. q \in PipelineType
  <2> DEFINE t == [slots |-> slots, pending |-> r.pending, sessions |-> r.sessions, mixer |-> r.mixer]
  <2>1. Live(p) \ {h} \in SUBSET Handles BY <1>4, Zenon
  <2>2. t \in PipelineType BY <2>1, <1>5, <1>8, PipelineFields, Zenon
  <2> QED BY <1>7, <2>2, Zenon
<1>10. Live(q) = Live(p) \ {h} /\ q.slots = slots BY <1>5, <1>7, SMT, Z3 DEF Live
<1>11. Inputs(q) = Inputs(r) BY <1>1, <1>3, <1>6, <1>10, Zenon DEF Inputs
<1> QED BY <1>1, <1>6, <1>7, <1>9, <1>10, <1>11, SMT, Z3 DEF SameEndpoints, Mixed

\* A session is created for an address that has none.
LEMMA CreateSession ==
  ASSUME NEW p \in PipelineType, NEW h \in Live(p), NEW a \in Addresses,
         a \notin p.slots[h].sessions, NEW q, q = create_session(p, h, a)
  PROVE  /\ q \in PipelineType
         /\ SameEndpoints(p, q)
         /\ Mixed(p) => Mixed(q)
<1> DEFINE slots == [p.slots EXCEPT ![h].sessions = @ \union {a}]
           mixer == p.mixer \union {<<h, a>>}
           r == [slots |-> slots, pending |-> p.pending, sessions |-> p.sessions + 1, mixer |-> mixer]
<1>1. p.slots \in [Live(p) -> SlotType] /\ Live(p) \in SUBSET Handles BY PipelineSlots, Zenon
<1>2. q = r BY Zenon DEF create_session
<1>3. slots \in [Live(p) -> SlotType] BY <1>1, ZenonT(60) DEF SlotType
<1>4. /\ slots[h].sessions = p.slots[h].sessions \union {a}
      /\ \A g \in Live(p) : slots[g].proto = p.slots[g].proto
      /\ \A g \in Live(p) \ {h} : slots[g].sessions = p.slots[g].sessions
  BY <1>1, Zenon DEF SlotType
<1>5. p.pending \in Int /\ p.sessions + 1 \in Int /\ p.mixer \in SUBSET (Handles \X Addresses)
  BY SMT, Z3 DEF PipelineType
<1>6. mixer \in SUBSET (Handles \X Addresses) BY <1>1, <1>5, SMT, Z3
<1> HIDE DEF slots, mixer
<1>7. q \in PipelineType BY <1>1, <1>2, <1>3, <1>5, <1>6, PipelineFields, SMT, Z3
<1>8. Live(q) = Live(p) /\ q.slots = slots BY <1>2, <1>3, SMT, Z3 DEF Live
<1>9. ASSUME Mixed(p) PROVE Mixed(q)
  <2>1. mixer = Inputs(q) BY <1>9, <1>4, <1>8, SMT, Z3 DEF Mixed, Inputs, mixer
  <2>2. <<h, a>> \notin p.mixer BY <1>9, Zenon DEF Mixed, Inputs
  <2>3. IsFiniteSet(p.mixer) BY MixerFinite, Zenon
  <2>4. Cardinality(mixer) = Cardinality(p.mixer) + 1
    BY <2>2, <2>3, FS_AddElement, Zenon DEF mixer
  <2> QED BY <1>9, <1>2, <2>1, <2>4, SMT, Z3 DEF Mixed
<1> QED BY <1>4, <1>7, <1>8, <1>9, Zenon DEF SameEndpoints

\* The next packet of an endpoint is pulled and routed.
LEMMA PullPacketKeeps ==
  ASSUME NEW p \in PipelineType, NEW h \in Live(p), NEW f \in Ifaces, p.slots[h].queue[f] # <<>>,
         NEW creatable \in BOOLEAN, NEW q, q = pull_packet(p, h, f, creatable)
  PROVE  /\ q \in PipelineType
         /\ SameEndpoints(p, q)
         /\ Mixed(p) => Mixed(q)
<1> DEFINE packet == Head(p.slots[h].queue[f])
           rest == Tail(p.slots[h].queue[f])
           popped == [p EXCEPT !.slots = [p.slots EXCEPT ![h].queue[f] = rest]]
           routed == route_packet(popped, h, f, packet, creatable)
<1>1. p.slots[h].queue[f] \in Seq(Packets) BY PipelineSlots, SMT, Z3 DEF SlotType
<1>2. packet \in Packets /\ rest \in Seq(Packets) BY <1>1, SMTT(30), Z3
<1>3. q = IF packet.parses THEN [routed EXCEPT !.pending = @ - 1] ELSE popped
  BY Zenon DEF pull_packet
<1> HIDE DEF packet, rest
<1>4. /\ popped \in PipelineType
      /\ SameEndpoints(p, popped)
      /\ Mixed(p) => Mixed(popped)
  BY <1>2, QueueKeeps, SMT, Z3
<1> HIDE DEF popped
<1>5. h \in Live(popped) BY <1>4, Zenon DEF SameEndpoints
<1>6. /\ routed \in PipelineType
      /\ SameEndpoints(popped, routed)
      /\ Mixed(popped) => Mixed(routed)
  <2>1. CASE f = "source" /\ packet.source \notin popped.slots[h].sessions /\ creatable
    <3>1. routed = create_session(popped, h, packet.source) BY <2>1, Zenon DEF route_packet
    <3>2. packet.source \in Addresses BY <1>2, Zenon DEF Packets
    <3> HIDE DEF routed
    <3> QED BY <1>4, <1>5, <2>1, <3>1, <3>2, CreateSession, SMT, Z3
  <2>2. CASE ~(f = "source" /\ packet.source \notin popped.slots[h].sessions /\ creatable)
    <3>1. routed = popped BY <2>2, Zenon DEF route_packet
    <3> QED BY <1>4, <3>1, Zenon DEF SameEndpoints
  <2> QED BY <2>1, <2>2, Zenon
<1> HIDE DEF routed
<1>7. \A r \in PipelineType :
        LET t == [r EXCEPT !.pending = @ - 1]
        IN  t \in PipelineType /\ SameEndpoints(r, t) /\ (Mixed(r) => Mixed(t))
  BY SMT, Z3 DEF PipelineType, SameEndpoints, Live, Mixed, Inputs
<1>8. CASE packet.parses
  <2>1. q \in PipelineType /\ SameEndpoints(routed, q) /\ (Mixed(routed) => Mixed(q))
    BY <1>3, <1>6, <1>7, <1>8, Zenon
  <2> QED BY <1>4, <1>6, <2>1, Zenon DEF SameEndpoints
<1>9. CASE ~packet.parses BY <1>3, <1>4, <1>9, Zenon
<1> QED BY <1>8, <1>9, Zenon

\* The first of some interfaces is one of them.
LEMMA FirstIsOne ==
  ASSUME NEW fs \in SUBSET Ifaces, fs # {}
  PROVE  FirstIface(fs) \in fs
<1>1. IfaceIndex["source"] = 1 /\ IfaceIndex["repair"] = 2 /\ IfaceIndex["control"] = 3
  BY Zenon DEF IfaceIndex
<1>2. CASE "source" \in fs
  <2>1. \A g \in fs : IfaceIndex["source"] <= IfaceIndex[g] BY <1>1, SMT, Z3 DEF Ifaces
  <2> QED BY <1>2, <2>1, Zenon DEF FirstIface
<1>3. CASE "source" \notin fs /\ "repair" \in fs
  <2>1. \A g \in fs : IfaceIndex["repair"] <= IfaceIndex[g] BY <1>1, <1>3, SMT, Z3 DEF Ifaces
  <2> QED BY <1>3, <2>1, Zenon DEF FirstIface
<1>4. CASE fs = {"control"}
  <2>1. \A g \in fs : IfaceIndex["control"] <= IfaceIndex[g] BY <1>1, <1>4, SMT, Z3
  <2> QED BY <1>4, <2>1, Zenon DEF FirstIface
<1> QED BY <1>2, <1>3, <1>4, Zenon DEF Ifaces

-----------------------------------------------------------------------------
(* The invariant is inductive.                                               *)

Inv == NodeTypes /\ Ownership /\ ReaderKnows /\ Mixed(pipe)

\* The node has the same slots, with the same handles and ports.
SameSlots ==
    /\ DOMAIN slot_map' = DOMAIN slot_map
    /\ \A i \in DOMAIN slot_map : slot_map'[i].handle = slot_map[i].handle
                                  /\ slot_map'[i].ports = slot_map[i].ports

\* A slot that has a handle has a slot of the pipeline.
LEMMA HandleLive ==
  ASSUME NodeTypes, Owned, NEW i \in DOMAIN slot_map, slot_map[i].handle # NoHandle
  PROVE  slot_map[i].handle \in Live(pipe)
BY Zenon DEF NodeTypes, NodeSlotType, Owned, Handle

\* A step that neither adds nor removes slots, endpoints and ports.
LEMMA OwnedKept ==
  ASSUME NodeTypes, Owned, Connected, SameSlots, SameEndpoints(pipe, pipe'), ports' = ports
  PROVE  Owned' /\ Connected'
<1>1. Owned' BY SMT, Z3 DEF Owned, Handle, SameSlots, SameEndpoints
<1>2. ASSUME NEW i \in DOMAIN slot_map, slot_map[i].handle # NoHandle
      PROVE  slot_map[i].handle \in Live(pipe)
  BY <1>2, HandleLive, Zenon
<1>3. Connected' BY <1>2, SMT, Z3 DEF Connected, Handle, SameSlots, SameEndpoints
<1> QED BY <1>1, <1>3, Zenon

\* A call breaks its slot.
LEMMA BreakSlotKeeps ==
  ASSUME NodeTypes, Ownership, BreakSlot, call.at \in {"found", "resolve", "add_port", "add_endpoint"},
         UNCHANGED <<pipe, ports, net>>
  PROVE  NodeTypes' /\ Ownership'
<1> DEFINE i == call.req.slot
<1>1. i \in DOMAIN slot_map BY Zenon DEF Ownership, CallKnows
<1>2. call' = [at |-> "cleanup", req |-> call.req] BY Zenon DEF BreakSlot, At
<1>3. /\ DOMAIN slot_map' = DOMAIN slot_map
      /\ slot_map' \in [DOMAIN slot_map -> NodeSlotType]
      /\ \A j \in DOMAIN slot_map :
           slot_map'[j].handle = slot_map[j].handle /\ slot_map'[j].ports = slot_map[j].ports
      /\ slot_map'[i].broken
      /\ \A j \in DOMAIN slot_map \ {i} : slot_map'[j].broken = slot_map[j].broken
  BY <1>1, ZenonT(60) DEF BreakSlot, NodeTypes, NodeSlotType
<1>4. SameSlots BY <1>3, Zenon DEF SameSlots
<1>5. SameEndpoints(pipe, pipe') BY Zenon DEF SameEndpoints
<1>6. Owned' /\ Connected' BY <1>4, <1>5, OwnedKept, Zenon DEF Ownership
<1>7. NodeTypes' BY <1>2, <1>3, Zenon DEF NodeTypes
<1>8. Unfinished' BY <1>2, <1>3, SMT, Z3 DEF Ownership, Unfinished, CallAt, Handle
<1>9. CallKnows' BY <1>1, <1>2, <1>3, Zenon DEF Ownership, CallKnows, Slot, Iface, OpenPorts
<1> QED BY <1>6, <1>7, <1>8, <1>9, Zenon DEF Ownership

\* A call goes on at its slot, or returns, and has nothing to clean up.
LEMMA CallGoesOn ==
  ASSUME NodeTypes, Ownership, UNCHANGED <<pipe, slot_map, ports, net>>, NEW step, call' = At(step),
         \/ step \in {"return", "panic", "destroyed"}
              /\ call.at \notin {"idle", "cleanup", "delete_slot", "add_port"}
         \/ step = "resolve" /\ call.at = "found" /\ call.req.op = "bind" /\ ~Slot.broken
         \/ step = "add_endpoint" /\ call.at = "resolve"
         \/ step = "query_slot" /\ call.at = "found"
         \/ step = "cleanup" /\ call.at = "found" /\ call.req.op = "unlink"
         \/ step = "delete_slot" /\ call.at = "cleanup" /\ OpenPorts = {} /\ Slot.handle # NoHandle
  PROVE  NodeTypes' /\ Ownership'
<1>1. call' = [at |-> step, req |-> call.req] BY Zenon DEF At
<1>2. SameSlots /\ SameEndpoints(pipe, pipe') BY Zenon DEF SameSlots, SameEndpoints
<1>3. Owned' /\ Connected' BY <1>2, OwnedKept, Zenon DEF Ownership
<1>4. NodeTypes' BY <1>1, SMT, Z3 DEF NodeTypes
<1> USE DEF Ownership
<1>5. CASE step = "delete_slot"
  <2>1. /\ call.at = "cleanup" /\ call'.at = "delete_slot" /\ call'.req = call.req
        /\ Handle(call.req.slot) # NoHandle
    BY <1>1, <1>5, SMT, Z3 DEF Slot, Handle
  <2>2. Unfinished' BY <2>1, ZenonT(30) DEF Unfinished, CallAt, Handle
  <2>3. Slot' = Slot /\ OpenPorts' = OpenPorts BY <2>1, Zenon DEF Slot, OpenPorts
  <2>4. OpenPorts = {} /\ Slot.handle # NoHandle BY <1>5, Zenon
  <2>5. CallKnows' BY <2>1, <2>3, <2>4, ZenonT(30) DEF CallKnows
  <2> QED BY <1>3, <1>4, <2>2, <2>5, Zenon
<1>6. CASE step = "cleanup"
  <2>1. Unfinished' BY <1>1, <1>6, Zenon DEF Unfinished, CallAt, Handle
  <2>2. CallKnows' BY <1>1, <1>6, SMT, Z3 DEF CallKnows
  <2> QED BY <1>3, <1>4, <2>1, <2>2, Zenon
<1>7. CASE step \notin {"cleanup", "delete_slot"}
  <2>1. call.at \notin {"cleanup", "delete_slot", "add_port"} BY <1>7, Zenon
  <2>2. Unfinished' BY <1>1, <1>7, <2>1, Zenon DEF Unfinished, CallAt, Handle
  <2>3. /\ step \notin {"found", "add_port", "create_slot"}
        /\ step \in {"resolve", "add_endpoint", "query_slot"} => call.req.slot \in DOMAIN slot_map
        /\ step \in {"resolve", "add_endpoint"} => call.req.op = "bind" /\ ~Slot.broken
    BY <1>7, Zenon DEF CallKnows
  <2>4. call'.at = step /\ call'.req = call.req /\ Slot' = Slot BY <1>1, SMT, Z3 DEF Slot
  <2>5. CallKnows' BY <1>7, <2>3, <2>4, Zenon DEF CallKnows
  <2> QED BY <1>3, <1>4, <2>2, <2>5, Zenon
<1> QED BY <1>5, <1>6, <1>7, Zenon

\* A call begins: Begin() only looks its slot up.
LEMMA BeginKeeps ==
  ASSUME NodeTypes, Ownership, NEW req \in Requests, Begin(req)
  PROVE  NodeTypes' /\ Ownership'
<1> USE DEF Begin
<1>1. SameSlots /\ SameEndpoints(pipe, pipe') BY Zenon DEF SameSlots, SameEndpoints
<1>2. Owned' /\ Connected' BY <1>1, OwnedKept, Zenon DEF Ownership
<1>3. call'.req = req /\ call'.at \in {"destroy", "found", "create_slot", "return"} BY Zenon
<1>4. call'.at = "found" => req.slot \in DOMAIN slot_map BY Zenon
<1>5. call'.at = "create_slot" => req.slot \in Slots \ DOMAIN slot_map BY Zenon DEF Requests
<1>6. /\ req.op = "bind" => req.uri \in Ifaces \X Protos
      /\ req.op = "configure" => req.iface \in Ifaces
  BY NodeAssumption, Zenon DEF Requests
<1>7. NodeTypes' BY <1>3, <1>6, Zenon DEF NodeTypes
<1>8. Unfinished' BY <1>3, Zenon DEF Ownership, Unfinished, CallAt, Handle
<1>9. CallKnows' BY <1>3, <1>4, <1>5, Zenon DEF Ownership, CallKnows
<1> QED BY <1>2, <1>7, <1>8, <1>9, Zenon DEF Ownership

\* A call ends, and leaves all as it is.
LEMMA ReturnKeeps ==
  ASSUME NodeTypes, Ownership, Return
  PROVE  NodeTypes' /\ Ownership'
<1> USE DEF Return, nodeUnchanged
<1>1. SameSlots /\ SameEndpoints(pipe, pipe') BY Zenon DEF SameSlots, SameEndpoints
<1>2. Owned' /\ Connected' BY <1>1, OwnedKept, Zenon DEF Ownership
<1>3. call'.at = "idle" BY Zenon DEF CallIdle
<1>4. NodeTypes' BY <1>3, Zenon DEF NodeTypes
<1>5. Unfinished' BY <1>3, Zenon DEF Ownership, Unfinished, CallAt, Handle
<1>6. CallKnows' BY <1>3, Zenon DEF Ownership, CallKnows
<1> QED BY <1>2, <1>4, <1>5, <1>6, Zenon DEF Ownership

\* The destructor turns to a slot.
LEMMA DestroyKeeps ==
  ASSUME NodeTypes, Ownership, Destroy
  PROVE  NodeTypes' /\ Ownership'
<1> USE DEF Destroy, nodeUnchanged
<1>1. SameSlots /\ SameEndpoints(pipe, pipe') BY Zenon DEF SameSlots, SameEndpoints
<1>2. Owned' /\ Connected' BY <1>1, OwnedKept, Zenon DEF Ownership
<1>3. CASE slot_map = <<>> BY <1>3, CallGoesOn, Zenon
<1>4. ASSUME NEW i \in DOMAIN slot_map,
             call' = [at |-> "cleanup", req |-> [op |-> "destroy", slot |-> i]]
      PROVE  NodeTypes' /\ Ownership'
  <2>1. NodeTypes' BY <1>4, Zenon DEF NodeTypes
  <2>2. Unfinished' BY <1>4, Zenon DEF Ownership, Unfinished, CallAt, Handle
  <2>3. CallKnows' BY <1>4, Zenon DEF Ownership, CallKnows
  <2> QED BY <1>2, <2>1, <2>2, <2>3, Zenon DEF Ownership
<1> QED BY <1>3, <1>4, Zenon

\* The steps of a call that change nothing but the call, or break its slot.
LEMMA CallStepKeeps ==
  ASSUME NodeTypes, Ownership,
         Configure \/ Bind \/ Resolve \/ Unlink \/ GetMetrics \/ CleanupHandle \/ EndQuerySlot
  PROVE  NodeTypes' /\ Ownership'
<1> USE DEF nodeUnchanged
<1>1. CASE Configure BY <1>1, BreakSlotKeeps, CallGoesOn, Zenon DEF Configure
<1>2. CASE Bind BY <1>2, BreakSlotKeeps, CallGoesOn, Zenon DEF Bind
<1>3. CASE Resolve BY <1>3, BreakSlotKeeps, CallGoesOn, Zenon DEF Resolve
<1>4. CASE Unlink BY <1>4, CallGoesOn, Zenon DEF Unlink
<1>5. CASE GetMetrics BY <1>5, CallGoesOn, Zenon DEF GetMetrics
<1>6. CASE CleanupHandle BY <1>6, CallGoesOn, Zenon DEF CleanupHandle
<1>7. CASE EndQuerySlot BY <1>7, CallGoesOn, Zenon DEF EndQuerySlot, TaskEnd
<1> QED BY <1>1, <1>2, <1>3, <1>4, <1>5, <1>6, <1>7, Zenon

\* A port of a slot is opened or closed, and nothing else changes.
PortSet(m, n, i, f, b) ==
    /\ DOMAIN n = DOMAIN m
    /\ n \in [DOMAIN m -> NodeSlotType]
    /\ \A j \in DOMAIN m : n[j].handle = m[j].handle /\ n[j].broken = m[j].broken
    /\ n[i].ports[f] = b
    /\ \A j \in DOMAIN m, g \in Ifaces : ~(j = i /\ g = f) => n[j].ports[g] = m[j].ports[g]

\* That is what an assignment to a port of a slot does.
LEMMA SetPort ==
  ASSUME NEW m, m \in [DOMAIN m -> NodeSlotType], NEW i \in DOMAIN m, NEW f \in Ifaces,
         NEW b \in BOOLEAN
  PROVE  PortSet(m, [m EXCEPT ![i].ports[f] = b], i, f, b)
<1> DEFINE s == [m[i] EXCEPT !.ports[f] = b]
           n == [m EXCEPT ![i].ports[f] = b]
<1>1. m[i] \in NodeSlotType BY Zenon
<1>2. /\ s \in NodeSlotType
      /\ s.handle = m[i].handle /\ s.broken = m[i].broken
      /\ s.ports = [m[i].ports EXCEPT ![f] = b]
  BY <1>1, ZenonT(60) DEF NodeSlotType
<1>3. m[i].ports \in [Ifaces -> BOOLEAN] BY <1>1, Zenon DEF NodeSlotType
<1>4. s.ports[f] = b /\ \A g \in Ifaces \ {f} : s.ports[g] = m[i].ports[g] BY <1>2, <1>3, Zenon
<1>5. n = [m EXCEPT ![i] = s] BY Zenon
<1> HIDE DEF s, n
<1>6. DOMAIN n = DOMAIN m /\ n[i] = s /\ \A j \in DOMAIN m \ {i} : n[j] = m[j] BY <1>5, Zenon
<1>7. n \in [DOMAIN m -> NodeSlotType] BY <1>2, <1>5, Zenon
<1>8. \A j \in DOMAIN m : n[j].handle = m[j].handle /\ n[j].broken = m[j].broken
  BY <1>2, <1>6, Zenon
<1>9. n[i].ports[f] = b BY <1>4, <1>6, Zenon
<1>10. \A j \in DOMAIN m, g \in Ifaces : ~(j = i /\ g = f) => n[j].ports[g] = m[j].ports[g]
  BY <1>4, <1>6, Zenon
<1>11. PortSet(m, n, i, f, b) BY <1>6, <1>7, <1>8, <1>9, <1>10, Zenon DEF PortSet
<1> QED BY <1>11, Zenon DEF n

\* A port is opened: its endpoint is there.
LEMMA AddPortKeeps ==
  ASSUME NodeTypes, Ownership, AddPort
  PROVE  NodeTypes' /\ Ownership'
<1> USE DEF Ownership
<1> DEFINE i == call.req.slot
           f == call.req.uri[1]
           h == slot_map[i].handle
<1>1. CASE BreakSlot /\ UNCHANGED <<ports, used>>
  BY <1>1, BreakSlotKeeps, Zenon DEF AddPort, nodeUnchanged
<1>2. CASE ~(BreakSlot /\ UNCHANGED <<ports, used>>)
  <2>1. /\ call.at = "add_port" /\ net.at = "idle"
        /\ ports' = ports \union {<<Slot.handle, Iface>>}
        /\ slot_map' = [slot_map EXCEPT ![i].ports[Iface] = TRUE]
        /\ call' = At("return") /\ pipe' = pipe /\ net' = net
    BY <1>2, Zenon DEF AddPort, nodeUnchanged
  <2>2. i \in DOMAIN slot_map /\ call.req.op = "bind" /\ ~slot_map[i].broken
    BY <2>1, Zenon DEF CallKnows, Slot
  <2>3. Iface = f /\ f \in Ifaces /\ Slot.handle = h BY <2>1, <2>2, Zenon DEF Iface, NodeTypes, Slot
  <2>4. pipe.slots[h].proto[f] # NoProto BY <2>1, <2>3, ZenonT(60) DEF CallKnows
  <2>5. h # NoHandle BY <2>1, <2>2, Zenon DEF Unfinished, CallAt, Handle
  <2>6. h \in Handles BY <2>2, <2>5, Zenon DEF NodeTypes, NodeSlotType
  <2>7. call' = [at |-> "return", req |-> call.req] BY <2>1, Zenon DEF At
  <2>8. /\ DOMAIN slot_map' = DOMAIN slot_map
        /\ slot_map' \in [DOMAIN slot_map -> NodeSlotType]
        /\ \A j \in DOMAIN slot_map :
             slot_map'[j].handle = slot_map[j].handle /\ slot_map'[j].broken = slot_map[j].broken
        /\ slot_map'[i].ports[f] = TRUE
        /\ \A j \in DOMAIN slot_map, g \in Ifaces :
             ~(j = i /\ g = f) => slot_map'[j].ports[g] = slot_map[j].ports[g]
    <3>1. slot_map \in [DOMAIN slot_map -> NodeSlotType] BY Zenon DEF NodeTypes
    <3>2. PortSet(slot_map, [slot_map EXCEPT ![i].ports[f] = TRUE], i, f, TRUE)
      BY <2>2, <2>3, <3>1, SetPort, Zenon
    <3>3. slot_map' = [slot_map EXCEPT ![i].ports[f] = TRUE] BY <2>1, <2>3, Zenon
    <3>4. PortSet(slot_map, slot_map', i, f, TRUE) BY <3>2, <3>3, ZenonT(60)
    <3> QED BY <3>4, Zenon DEF PortSet
  <2>9. ports' = ports \union {<<h, f>>} BY <2>1, <2>3, Zenon
  <2>10. NodeTypes' BY <2>1, <2>7, <2>8, SMT, Z3 DEF NodeTypes
  <2>11. Owned'
    <3>1. Live(pipe') \subseteq Handles /\ ports' \subseteq Handles \X Ifaces
      BY <2>1, <2>3, <2>6, <2>9, SMT, Z3 DEF Owned
    <3>2. \A k \in Handles : (\E j \in DOMAIN slot_map' : slot_map'[j].handle = k) => k \in Live(pipe')
      BY <2>1, <2>8, SMT, Z3 DEF Owned, Handle
    <3>3. \A j, k \in DOMAIN slot_map' :
            slot_map'[j].handle = slot_map'[k].handle /\ slot_map'[j].handle # NoHandle => j = k
      BY <2>8, SMT, Z3 DEF Owned, Handle
    <3>4. ASSUME NEW k \in Handles, NEW g \in Ifaces
          PROVE  <<k, g>> \in ports'
                   <=> \E j \in DOMAIN slot_map' : slot_map'[j].handle = k /\ slot_map'[j].ports[g]
      BY <2>2, <2>3, <2>6, <2>8, <2>9, SMTT(30), Z3 DEF Owned, Handle
    <3> QED BY <3>1, <3>2, <3>3, <3>4, Zenon DEF Owned, Handle
  <2>12. Connected'
    <3> SUFFICES ASSUME NEW j \in DOMAIN slot_map, NEW g \in Ifaces, slot_map'[j].ports[g]
                 PROVE  slot_map[j].handle # NoHandle /\ pipe.slots[slot_map[j].handle].proto[g] # NoProto
      BY <2>1, <2>8, SMTT(30), Z3 DEF Connected, Handle
    <3>1. CASE j = i /\ g = f BY <2>4, <2>5, <3>1, ZenonT(60)
    <3>2. CASE ~(j = i /\ g = f) BY <2>8, <3>2, ZenonT(30) DEF Connected, Handle
    <3> QED BY <3>1, <3>2, ZenonT(30)
  <2>13. Unfinished'
    <3>1. ASSUME NEW j \in DOMAIN slot_map, NEW g \in Ifaces, slot_map[j].handle # NoHandle,
                 pipe.slots[slot_map[j].handle].proto[g] # NoProto
          PROVE  slot_map'[j].ports[g]
      <4>1. CASE j = i /\ g = f BY <2>8, <4>1, Zenon
      <4>2. CASE ~(j = i /\ g = f)
        BY <2>1, <2>8, <3>1, <4>2, SMT, Z3 DEF Unfinished, CallAt, Handle
      <4> QED BY <4>1, <4>2, Zenon
    <3>2. \A j \in DOMAIN slot_map : slot_map[j].broken <=> slot_map[j].handle = NoHandle
      BY <2>1, Zenon DEF Unfinished, CallAt, Handle
    <3> QED BY <2>1, <2>8, <3>1, <3>2, SMT, Z3 DEF Unfinished, Handle
  <2>14. CallKnows' BY <2>1, <2>7, SMT, Z3 DEF CallKnows
  <2> QED BY <2>10, <2>11, <2>12, <2>13, <2>14, Zenon
<1> QED BY <1>1, <1>2, Zenon

\* The first port of a slot that is cleaned up is closed.
LEMMA RemovePortKeeps ==
  ASSUME NodeTypes, Ownership, RemovePort
  PROVE  NodeTypes' /\ Ownership'
<1> USE DEF Ownership
<1> DEFINE i == call.req.slot
           f == FirstIface(OpenPorts)
           h == slot_map[i].handle
<1>1. /\ call.at = "cleanup" /\ net.at = "idle" /\ OpenPorts # {}
      /\ ports' = ports \ {<<Slot.handle, f>>}
      /\ slot_map' = [slot_map EXCEPT ![i].ports[f] = FALSE]
      /\ call' = call /\ pipe' = pipe /\ net' = net
  BY Zenon DEF RemovePort, nodeUnchanged
<1>2. i \in DOMAIN slot_map BY <1>1, Zenon DEF CallKnows
<1>3. f \in Ifaces /\ slot_map[i].ports[f] BY <1>1, FirstIsOne, Zenon DEF OpenPorts, Slot
<1> HIDE DEF f
<1>4. Slot.handle = h /\ h # NoHandle BY <1>2, <1>3, Zenon DEF Slot, Connected, Handle
<1>5. h \in Handles BY <1>2, <1>4, Zenon DEF NodeTypes, NodeSlotType
<1>6. /\ DOMAIN slot_map' = DOMAIN slot_map
      /\ slot_map' \in [DOMAIN slot_map -> NodeSlotType]
      /\ \A j \in DOMAIN slot_map :
           slot_map'[j].handle = slot_map[j].handle /\ slot_map'[j].broken = slot_map[j].broken
      /\ slot_map'[i].ports[f] = FALSE
      /\ \A j \in DOMAIN slot_map, g \in Ifaces :
           ~(j = i /\ g = f) => slot_map'[j].ports[g] = slot_map[j].ports[g]
  <2>1. slot_map \in [DOMAIN slot_map -> NodeSlotType] BY Zenon DEF NodeTypes
  <2>2. PortSet(slot_map, [slot_map EXCEPT ![i].ports[f] = FALSE], i, f, FALSE)
    BY <1>2, <1>3, <2>1, SetPort, Zenon
  <2>3. PortSet(slot_map, slot_map', i, f, FALSE) BY <1>1, <2>2, ZenonT(60)
  <2> QED BY <2>3, Zenon DEF PortSet
<1>7. NodeTypes' BY <1>1, <1>6, Zenon DEF NodeTypes
<1>8. Owned'
  <2>1. Live(pipe') \subseteq Handles /\ ports' \subseteq Handles \X Ifaces BY <1>1, Zenon DEF Owned
  <2>2. \A k \in Handles : (\E j \in DOMAIN slot_map' : slot_map'[j].handle = k) => k \in Live(pipe')
    BY <1>1, <1>6, SMT, Z3 DEF Owned, Handle
  <2>3. \A j, k \in DOMAIN slot_map' :
          slot_map'[j].handle = slot_map'[k].handle /\ slot_map'[j].handle # NoHandle => j = k
    BY <1>6, Zenon DEF Owned, Handle
  <2>4. ASSUME NEW k \in Handles, NEW g \in Ifaces
        PROVE  <<k, g>> \in ports'
                 <=> \E j \in DOMAIN slot_map' : slot_map'[j].handle = k /\ slot_map'[j].ports[g]
    <3>1. <<k, g>> \in ports' <=> <<k, g>> \in ports /\ ~(k = h /\ g = f) BY <1>1, <1>4, Zenon
    <3>2. \A j \in DOMAIN slot_map : slot_map[j].handle = h => j = i BY <1>2, <1>4, ZenonT(30) DEF Owned, Handle
    <3> QED BY <1>2, <1>4, <1>5, <1>6, <3>1, <3>2, SMT, Z3 DEF Owned, Handle
  <2> QED BY <2>1, <2>2, <2>3, <2>4, Zenon DEF Owned, Handle
<1>9. Connected' BY <1>1, <1>6, SMTT(30), Z3 DEF Connected, Handle
<1>10. Unfinished' BY <1>1, <1>6, Zenon DEF Unfinished, CallAt, Handle
<1>11. CallKnows' BY <1>1, <1>2, <1>6, ZenonT(60) DEF CallKnows, Slot
<1> QED BY <1>7, <1>8, <1>9, <1>10, <1>11, Zenon

\* A slot with nothing left is forgotten, or stays as a broken one.
LEMMA CleanupDoneKeeps ==
  ASSUME NodeTypes, Ownership, CleanupDone
  PROVE  NodeTypes' /\ Ownership'
<1> USE DEF Ownership
<1> DEFINE i == call.req.slot
<1>1. /\ call.at = "cleanup" /\ OpenPorts = {} /\ Slot.handle = NoHandle
      /\ pipe' = pipe /\ ports' = ports /\ net' = net
      /\ call' = [at |-> IF call.req.op = "destroy" THEN "destroy" ELSE "return", req |-> call.req]
  BY Zenon DEF CleanupDone, nodeUnchanged, At
<1>2. i \in DOMAIN slot_map BY <1>1, Zenon DEF CallKnows
<1>3. slot_map[i].handle = NoHandle /\ \A f \in Ifaces : ~slot_map[i].ports[f]
  BY <1>1, Zenon DEF OpenPorts, Slot
<1>4. call.req.op \notin {"unlink", "destroy"} => slot_map[i].broken BY <1>1, Zenon DEF CallKnows, Slot
<1>5. /\ DOMAIN slot_map' \subseteq DOMAIN slot_map
      /\ slot_map' \in [DOMAIN slot_map' -> NodeSlotType]
      /\ \A j \in DOMAIN slot_map' : slot_map'[j] = slot_map[j]
      /\ DOMAIN slot_map \ {i} \subseteq DOMAIN slot_map'
      /\ i \in DOMAIN slot_map' => slot_map[i].broken
  BY <1>4, Zenon DEF CleanupDone, Restrict, NodeTypes
<1>6. NodeTypes' BY <1>1, <1>5, Zenon DEF NodeTypes
<1>7. Owned'
  <2>1. \A h \in Handles : h # NoHandle BY NodeAssumption, Zenon
  <2>2. Live(pipe') \subseteq Handles /\ ports' \subseteq Handles \X Ifaces BY <1>1, Zenon DEF Owned
  <2>3. \A k \in Handles : (\E j \in DOMAIN slot_map' : slot_map'[j].handle = k) => k \in Live(pipe')
    BY <1>1, <1>3, <1>5, <2>1, SMT, Z3 DEF Owned, Handle
  <2>4. \A j, k \in DOMAIN slot_map' :
          slot_map'[j].handle = slot_map'[k].handle /\ slot_map'[j].handle # NoHandle => j = k
    BY <1>5, SMT, Z3 DEF Owned, Handle
  <2>5. ASSUME NEW k \in Handles, NEW g \in Ifaces
        PROVE  <<k, g>> \in ports'
                 <=> \E j \in DOMAIN slot_map' : slot_map'[j].handle = k /\ slot_map'[j].ports[g]
    BY <1>1, <1>3, <1>5, <2>1, SMT, Z3 DEF Owned, Handle
  <2> QED BY <2>2, <2>3, <2>4, <2>5, Zenon DEF Owned, Handle
<1>8. Connected' BY <1>1, <1>5, Zenon DEF Connected, Handle
<1>9. Unfinished' BY <1>1, <1>3, <1>5, SMT, Z3 DEF Unfinished, CallAt, Handle
<1>10. CallKnows' BY <1>1, Zenon DEF CallKnows
<1> QED BY <1>6, <1>7, <1>8, <1>9, <1>10, Zenon

\* A slot is created, in the pipeline and in the node.
LEMMA EndCreateSlotKeeps ==
  ASSUME NodeTypes, Ownership, Mixed(pipe), NEW outcome \in SlotOutcomes,
         EndCreateSlot(outcome)
  PROVE  NodeTypes' /\ Ownership' /\ Mixed(pipe')
<1> USE DEF Ownership
<1> DEFINE i == call.req.slot
<1>1. call.at = "create_slot" /\ ports' = ports /\ net' = net
  BY Zenon DEF EndCreateSlot, TaskEnd, nodeUnchanged
<1>2. i \in Slots \ DOMAIN slot_map BY <1>1, Zenon DEF CallKnows
<1>3. CASE outcome = "failed"
  <2>1. pipe' = pipe /\ call' = At("return") /\ slot_map' = slot_map
    BY <1>3, Zenon DEF EndCreateSlot
  <2> QED BY <1>1, <2>1, CallGoesOn, Zenon
<1>4. CASE outcome = "leak"
  <2>1. /\ call' = [at |-> "return", req |-> call.req] /\ slot_map' = slot_map
        /\ \E h \in Handles \ Live(pipe) : pipe' = create_slot(pipe, h)
    BY <1>4, ZenonT(60) DEF EndCreateSlot, At
  <2>2. PICK h \in Handles \ Live(pipe) : pipe' = create_slot(pipe, h) BY <2>1, Zenon
  <2>3. /\ pipe' \in PipelineType
        /\ Live(pipe') = Live(pipe) \union {h}
        /\ \A g \in Live(pipe) : pipe'.slots[g] = pipe.slots[g]
        /\ Mixed(pipe')
    BY <2>2, CreateSlot, SMT, Z3 DEF NodeTypes
  <2>4. NodeTypes' BY <1>1, <2>1, <2>3, ZenonT(60) DEF NodeTypes
  <2>5. Owned' BY <1>1, <2>1, <2>3, ZenonT(60) DEF Owned, Handle
  <2>6. ASSUME NEW j \in DOMAIN slot_map, slot_map[j].handle # NoHandle
        PROVE  pipe'.slots[slot_map[j].handle] = pipe.slots[slot_map[j].handle]
    BY <2>3, <2>6, HandleLive, Zenon
  <2>7. Connected' BY <2>1, <2>6, SMTT(30), Z3 DEF Connected, Handle
  <2>8. Unfinished' BY <1>1, <2>1, <2>6, SMT, Z3 DEF Unfinished, CallAt, Handle
  <2>9. CallKnows' BY <1>1, <2>1, Zenon DEF CallKnows
  <2> QED BY <2>3, <2>4, <2>5, <2>7, <2>8, <2>9, Zenon
<1>5. CASE outcome = "created"
  <2>1. PICK h \in Handles \ Live(pipe) :
          /\ pipe' = create_slot(pipe, h)
          /\ slot_map' = With(slot_map, i, [handle |-> h, broken |-> FALSE,
                                            ports |-> [f \in Ifaces |-> FALSE]])
    BY <1>5, ZenonT(60) DEF EndCreateSlot
  <2>2. call' = [at |-> "found", req |-> call.req] BY <1>5, Zenon DEF EndCreateSlot, At
  <2>3. /\ pipe' \in PipelineType
        /\ Live(pipe') = Live(pipe) \union {h}
        /\ pipe'.slots[h].proto = [f \in Ifaces |-> NoProto]
        /\ \A g \in Live(pipe) : pipe'.slots[g] = pipe.slots[g]
        /\ Mixed(pipe')
    BY <2>1, CreateSlot, SMT, Z3 DEF NodeTypes
  <2>4. slot_map \in [DOMAIN slot_map -> NodeSlotType] BY Zenon DEF NodeTypes
  <2>5. [handle |-> h, broken |-> FALSE, ports |-> [f \in Ifaces |-> FALSE]] \in NodeSlotType
    BY Zenon DEF NodeSlotType
  <2>6. /\ DOMAIN slot_map' = DOMAIN slot_map \union {i}
        /\ slot_map' \in [DOMAIN slot_map' -> NodeSlotType]
        /\ \A j \in DOMAIN slot_map : slot_map'[j] = slot_map[j]
        /\ slot_map'[i].handle = h /\ ~slot_map'[i].broken
        /\ \A f \in Ifaces : ~slot_map'[i].ports[f]
    BY <1>2, <2>1, <2>4, <2>5, Zenon DEF With
  <2>7. NodeTypes' BY <1>1, <1>2, <2>2, <2>3, <2>6, ZenonT(60) DEF NodeTypes
  <2>8. \A j \in DOMAIN slot_map : slot_map[j].handle # h /\ i # j
    BY <1>2, <2>1, Zenon DEF Owned, Handle
  <2>9. Owned'
    <3>1. Live(pipe') \subseteq Handles /\ ports' \subseteq Handles \X Ifaces
      BY <1>1, <2>3, Zenon DEF Owned
    <3>2. \A k \in Handles : (\E j \in DOMAIN slot_map' : slot_map'[j].handle = k) => k \in Live(pipe')
      BY <2>3, <2>6, SMT, Z3 DEF Owned, Handle
    <3>3. \A j, k \in DOMAIN slot_map' :
            slot_map'[j].handle = slot_map'[k].handle /\ slot_map'[j].handle # NoHandle => j = k
      BY <2>6, <2>8, SMT, Z3 DEF Owned, Handle
    <3>4. ASSUME NEW k \in Handles, NEW g \in Ifaces
          PROVE  <<k, g>> \in ports'
                   <=> \E j \in DOMAIN slot_map' : slot_map'[j].handle = k /\ slot_map'[j].ports[g]
      BY <1>1, <2>6, SMT, Z3 DEF Owned, Handle
    <3> QED BY <3>1, <3>2, <3>3, <3>4, Zenon DEF Owned, Handle
  <2>10. ASSUME NEW j \in DOMAIN slot_map, slot_map[j].handle # NoHandle
         PROVE  pipe'.slots[slot_map[j].handle] = pipe.slots[slot_map[j].handle]
    BY <2>3, <2>10, HandleLive, Zenon
  <2>11. Connected' BY <2>6, <2>10, SMTT(30), Z3 DEF Connected, Handle
  <2>12. Unfinished'
    <3>1. h # NoHandle /\ \A f \in Ifaces : pipe'.slots[h].proto[f] = NoProto
      BY <2>1, <2>3, NodeAssumption, Zenon
    <3> QED BY <1>1, <2>6, <2>10, <3>1, SMT, Z3 DEF Unfinished, CallAt, Handle
  <2>13. CallKnows' BY <1>1, <2>2, <2>6, Zenon DEF CallKnows
  <2> QED BY <2>3, <2>7, <2>9, <2>11, <2>12, <2>13, Zenon
<1> QED BY <1>3, <1>4, <1>5, Zenon DEF SlotOutcomes

\* An endpoint is added to the slot of a call; its port comes next.
LEMMA EndAddEndpointKeeps ==
  ASSUME NodeTypes, Ownership, Mixed(pipe), EndAddEndpoint
  PROVE  NodeTypes' /\ Ownership' /\ Mixed(pipe')
<1> USE DEF Ownership
<1> DEFINE i == call.req.slot
           f == call.req.uri[1]
           h == slot_map[i].handle
<1>1. call.at = "add_endpoint" /\ ports' = ports /\ net' = net
  BY Zenon DEF EndAddEndpoint, TaskEnd, nodeUnchanged
<1>2. CASE BreakSlot /\ pipe' = pipe BY <1>1, <1>2, BreakSlotKeeps, Zenon
<1>3. CASE ~(BreakSlot /\ pipe' = pipe)
  <2>1. /\ pipe' = add_endpoint(pipe, Slot.handle, Iface, Proto)
        /\ call' = [at |-> "add_port", req |-> call.req] /\ slot_map' = slot_map
    BY <1>3, Zenon DEF EndAddEndpoint, At
  <2>2. i \in DOMAIN slot_map /\ call.req.op = "bind" /\ ~slot_map[i].broken
    BY <1>1, Zenon DEF CallKnows, Slot
  <2>3. call.req.uri \in Ifaces \X Protos BY <1>1, <2>2, Zenon DEF NodeTypes
  <2>4. Slot.handle = h /\ Iface = f /\ f \in Ifaces /\ Proto \in Protos /\ Proto # NoProto
    BY <2>2, <2>3, NodeAssumption, Zenon DEF Slot, Iface, Proto
  <2>5. h # NoHandle BY <1>1, <2>2, Zenon DEF Unfinished, CallAt, Handle
  <2>6. h \in Live(pipe) BY <2>2, <2>5, HandleLive, Zenon
  <2>7. /\ pipe' \in PipelineType
        /\ Live(pipe') = Live(pipe)
        /\ pipe'.slots[h].proto[f] = Proto
        /\ \A g \in Ifaces \ {f} : pipe'.slots[h].proto[g] = pipe.slots[h].proto[g]
        /\ \A g \in Live(pipe) \ {h} : pipe'.slots[g].proto = pipe.slots[g].proto
        /\ Mixed(pipe')
    <3>1. pipe \in PipelineType BY Zenon DEF NodeTypes
    <3>2. pipe' = add_endpoint(pipe, h, f, Proto) BY <2>1, <2>4, Zenon
    <3> HIDE DEF f, h
    <3> QED BY <2>4, <2>6, <3>1, <3>2, AddEndpoint, SMT, Z3
  <2>9. pipe'.slots[h].proto[f] # NoProto BY <2>4, <2>7, ZenonT(60)
  <2>10. NodeTypes' BY <1>1, <2>1, <2>2, <2>3, <2>7, ZenonT(60) DEF NodeTypes
  <2>11. Owned' BY <1>1, <2>1, <2>7, ZenonT(60) DEF Owned, Handle
  <2>12. \A j \in DOMAIN slot_map :
           slot_map[j].handle # NoHandle => slot_map[j].handle \in Live(pipe)
    BY HandleLive, Zenon
  <2>13. \A j \in DOMAIN slot_map : slot_map[j].handle = h => j = i
    BY <2>2, <2>5, Zenon DEF Owned, Handle
  <2>14. Connected'
    <3> SUFFICES ASSUME NEW j \in DOMAIN slot_map, NEW g \in Ifaces, slot_map[j].ports[g]
                 PROVE  slot_map[j].handle # NoHandle
                        /\ pipe'.slots[slot_map[j].handle].proto[g] # NoProto
      BY <2>1, Zenon DEF Connected, Handle
    <3>1. slot_map[j].handle # NoHandle /\ pipe.slots[slot_map[j].handle].proto[g] # NoProto
      BY Zenon DEF Connected, Handle
    <3> QED BY <2>7, <2>9, <2>12, <3>1, ZenonT(60)
  <2>15. Unfinished'
    <3>1. ASSUME NEW j \in DOMAIN slot_map, NEW g \in Ifaces, slot_map[j].handle # NoHandle,
                 pipe'.slots[slot_map[j].handle].proto[g] # NoProto
          PROVE  slot_map[j].ports[g] \/ (j = i /\ g = f)
      <4>1. CASE j = i /\ g = f BY <4>1, Zenon
      <4>2. CASE ~(j = i /\ g = f)
        <5>1. pipe.slots[slot_map[j].handle].proto[g] # NoProto
          BY <2>7, <2>9, <2>12, <2>13, <3>1, <4>2, ZenonT(60)
        <5> QED BY <1>1, <3>1, <5>1, Zenon DEF Unfinished, CallAt, Handle
      <4> QED BY <4>1, <4>2, Zenon
    <3>2. \A j \in DOMAIN slot_map : slot_map[j].broken <=> slot_map[j].handle = NoHandle
      BY <1>1, Zenon DEF Unfinished, CallAt, Handle
    <3> QED BY <2>1, <3>1, <3>2, Zenon DEF Unfinished, CallAt, Handle
  <2>16. CallKnows' BY <1>1, <2>1, <2>2, <2>4, <2>9, ZenonT(60) DEF CallKnows, Slot, Iface
  <2> QED BY <2>7, <2>10, <2>11, <2>14, <2>15, <2>16, ZenonT(60)
<1> QED BY <1>2, <1>3, Zenon DEF EndAddEndpoint

\* The pipeline slot of a slot without ports is destroyed.
LEMMA EndDeleteSlotKeeps ==
  ASSUME NodeTypes, Ownership, Mixed(pipe), EndDeleteSlot
  PROVE  NodeTypes' /\ Ownership' /\ Mixed(pipe')
<1> USE DEF Ownership
<1> DEFINE i == call.req.slot
           h == slot_map[i].handle
<1>1. /\ call.at = "delete_slot" /\ ports' = ports /\ net' = net
      /\ pipe' = delete_slot(pipe, Slot.handle)
      /\ slot_map' = [slot_map EXCEPT ![i].handle = NoHandle]
      /\ call' = [at |-> "cleanup", req |-> call.req]
  BY Zenon DEF EndDeleteSlot, TaskEnd, nodeUnchanged, At
<1>2. /\ i \in DOMAIN slot_map /\ h # NoHandle /\ Slot.handle = h
      /\ \A f \in Ifaces : ~slot_map[i].ports[f]
      /\ call.req.op \notin {"unlink", "destroy"} => slot_map[i].broken
  BY <1>1, Zenon DEF CallKnows, OpenPorts, Slot
<1>3. h \in Live(pipe) /\ h \in Handles BY <1>2, HandleLive, Zenon DEF Owned
<1>4. /\ pipe' \in PipelineType
      /\ Live(pipe') = Live(pipe) \ {h}
      /\ \A g \in Live(pipe') : pipe'.slots[g].proto = pipe.slots[g].proto
      /\ Mixed(pipe')
  BY <1>1, <1>2, <1>3, DeleteSlot, SMT, Z3 DEF NodeTypes
<1>5. /\ DOMAIN slot_map' = DOMAIN slot_map
      /\ slot_map' \in [DOMAIN slot_map -> NodeSlotType]
      /\ \A j \in DOMAIN slot_map :
           slot_map'[j].ports = slot_map[j].ports /\ slot_map'[j].broken = slot_map[j].broken
      /\ slot_map'[i].handle = NoHandle
      /\ \A j \in DOMAIN slot_map \ {i} : slot_map'[j].handle = slot_map[j].handle
  BY <1>1, <1>2, Zenon DEF NodeTypes, NodeSlotType
<1>6. NodeTypes' BY <1>1, <1>4, <1>5, Zenon DEF NodeTypes
<1>7. \A j \in DOMAIN slot_map : slot_map[j].handle = h => j = i BY <1>2, Zenon DEF Owned, Handle
<1>8. \A k \in Handles : k # NoHandle BY NodeAssumption, Zenon
<1>9. Owned'
  <2>1. Live(pipe') \subseteq Handles /\ ports' \subseteq Handles \X Ifaces
    BY <1>1, <1>4, Zenon DEF Owned
  <2>2. \A k \in Handles : (\E j \in DOMAIN slot_map' : slot_map'[j].handle = k) => k \in Live(pipe')
    BY <1>2, <1>4, <1>5, <1>7, <1>8, SMTT(30), Z3 DEF Owned, Handle
  <2>3. \A j, k \in DOMAIN slot_map' :
          slot_map'[j].handle = slot_map'[k].handle /\ slot_map'[j].handle # NoHandle => j = k
    BY <1>5, Zenon DEF Owned, Handle
  <2>4. ASSUME NEW k \in Handles, NEW g \in Ifaces
        PROVE  <<k, g>> \in ports'
                 <=> \E j \in DOMAIN slot_map' : slot_map'[j].handle = k /\ slot_map'[j].ports[g]
    BY <1>1, <1>2, <1>5, <1>8, SMTT(30), Z3 DEF Owned, Handle
  <2> QED BY <2>1, <2>2, <2>3, <2>4, Zenon DEF Owned, Handle
<1>10. ASSUME NEW j \in DOMAIN slot_map \ {i}, slot_map[j].handle # NoHandle
       PROVE  pipe'.slots[slot_map[j].handle].proto = pipe.slots[slot_map[j].handle].proto
  BY <1>4, <1>7, <1>10, HandleLive, SMTT(30), Z3
<1>11. Connected' BY <1>2, <1>5, <1>10, SMT, Z3 DEF Connected, Handle
<1>12. Unfinished' BY <1>1, <1>5, <1>10, SMT, Z3 DEF Unfinished, CallAt, Handle
<1>13. CallKnows' BY <1>1, <1>2, <1>5, ZenonT(60) DEF CallKnows, Slot
<1> QED BY <1>4, <1>6, <1>9, <1>11, <1>12, <1>13, Zenon

\* Steps of the network thread and of the reader change neither slots nor endpoints.
LEMMA PipeStepKeeps ==
  ASSUME NodeTypes, Ownership, UNCHANGED <<slot_map, call, ports>>, pipe' \in PipelineType,
         SameEndpoints(pipe, pipe'),
         net'.at = "push" => net'.packet \in Packets /\ net'.port \in ports
  PROVE  NodeTypes' /\ Ownership'
<1> USE DEF Ownership
<1>1. Owned' /\ Connected' BY OwnedKept, Zenon DEF SameSlots
<1>2. NodeTypes' BY Zenon DEF NodeTypes
<1>3. \A i \in DOMAIN slot_map : slot_map[i].handle # NoHandle
        => pipe'.slots[slot_map[i].handle].proto = pipe.slots[slot_map[i].handle].proto
  BY HandleLive, Zenon DEF SameEndpoints
<1>4. Unfinished' BY <1>3, SMT, Z3 DEF Unfinished, CallAt, Handle
<1>5. call.at = "add_port" => Slot.handle # NoHandle /\ call.req.slot \in DOMAIN slot_map
  BY Zenon DEF CallKnows, Slot, Unfinished, CallAt, Handle
<1>6. call.at = "add_port" => pipe'.slots[Slot.handle].proto[Iface] # NoProto
  BY <1>3, <1>5, Zenon DEF CallKnows, Slot
<1>7. Slot' = Slot /\ Iface' = Iface /\ OpenPorts' = OpenPorts BY Zenon DEF Slot, Iface, OpenPorts
<1>8. CallKnows' BY <1>6, <1>7, Zenon DEF CallKnows
<1> QED BY <1>1, <1>2, <1>4, <1>8, Zenon

\* A step of a call leaves the reader the slots it walks through.
LEMMA ReaderKept ==
  ASSUME ReaderKnows, reader' = reader,
         \/ inside' = inside /\ Live(pipe) \subseteq Live(pipe')
         \/ inside = "task" /\ inside' = "nobody"
         \/ inside = "nobody" /\ inside' = "task" /\ reader.at # "reclock" /\ pipe' = pipe
  PROVE  ReaderKnows'
BY Zenon DEF ReaderKnows

\* The next slot to refresh or to reclock is one of those that are left.
LEMMA WalkNext ==
  ASSUME NEW rest, NEW r
  PROVE  /\ r \in Refresh(rest)
              => \/ r.at = "mix"
                 \/ r.at = "refresh" /\ r.slot \in rest /\ r.rest \subseteq rest /\ r.todo \subseteq Ifaces
         /\ r \in Reclock(rest)
              => \/ r.at = "idle"
                 \/ r.at = "reclock" /\ r.slot \in rest /\ r.rest \subseteq rest
BY SMT, Z3 DEF Refresh, Reclock, Endpoints

\* Packets are written to ports, which have endpoints.
LEMMA WriteKeeps ==
  ASSUME Inv, (\E port \in ports, packet \in Packets : WriteBegin(port, packet)) \/ WriteEnd
  PROVE  Inv'
<1> USE DEF Inv, netUnchanged
<1>1. pipe \in PipelineType BY Zenon DEF NodeTypes
<1>2. ASSUME NEW port \in ports, NEW packet \in Packets, WriteBegin(port, packet)
      PROVE  Inv'
  <2>1. /\ pipe' \in PipelineType /\ SameEndpoints(pipe, pipe') /\ Mixed(pipe')
        /\ Live(pipe') = Live(pipe)
    BY <1>1, <1>2, CountPacketKeeps, Zenon DEF WriteBegin, SameEndpoints
  <2>2. NodeTypes' /\ Ownership' BY <1>2, <2>1, PipeStepKeeps, Zenon DEF WriteBegin
  <2>3. ReaderKnows' BY <1>2, <2>1, ReaderKept, Zenon DEF WriteBegin
  <2> QED BY <2>1, <2>2, <2>3, Zenon
<1>3. CASE WriteEnd
  <2>1. /\ net.at = "push" /\ net' = [at |-> "idle"]
        /\ pipe' = PushPacket(pipe, net.port[1], net.port[2], net.packet)
    BY <1>3, Zenon DEF WriteEnd
  <2>2. net.port \in ports /\ net.packet \in Packets BY <2>1, Zenon DEF Ownership, CallKnows, NodeTypes
  <2>3. PICK h \in Handles, f \in Ifaces : net.port = <<h, f>> BY <2>2, SMT, Z3 DEF Ownership, Owned
  <2>4. h \in Live(pipe) BY <2>2, <2>3, Zenon DEF Ownership, Owned
  <2>5. pipe' = PushPacket(pipe, h, f, net.packet) BY <2>1, <2>3, SMT, Z3
  <2>6. /\ pipe' \in PipelineType /\ SameEndpoints(pipe, pipe') /\ Mixed(pipe')
        /\ Live(pipe') = Live(pipe)
    BY <1>1, <2>2, <2>4, <2>5, PushPacketKeeps, SMTT(30), Z3 DEF SameEndpoints
  <2>7. NodeTypes' /\ Ownership' BY <1>3, <2>1, <2>6, PipeStepKeeps, SMTT(30), Z3 DEF WriteEnd
  <2>8. ReaderKnows' BY <1>3, <2>6, ReaderKept, Zenon DEF WriteEnd
  <2> QED BY <2>6, <2>7, <2>8, Zenon
<1> QED BY <1>2, <1>3, Zenon

\* The reader walks through slots that exist.
LEMMA ReaderKeeps ==
  ASSUME Inv, ~TaskInReclock, ReaderStep
  PROVE  Inv'
<1> USE DEF Inv, readerUnchanged
<1>1. pipe \in PipelineType BY Zenon DEF NodeTypes
<1>2. net.at = "push" => net.packet \in Packets /\ net.port \in ports
  BY Zenon DEF NodeTypes, Ownership, CallKnows
<1>3. SameEndpoints(pipe, pipe) BY Zenon DEF SameEndpoints
<1>4. CASE SubframeBegin \/ PullEnd \/ SubframeEnd \/ ReclockBegin
  <2>1. pipe' = pipe /\ net' = net /\ UNCHANGED <<slot_map, call, ports>>
    BY <1>4, Zenon DEF SubframeBegin, PullEnd, SubframeEnd, ReclockBegin
  <2>2. NodeTypes' /\ Ownership' BY <1>1, <1>2, <1>3, <2>1, PipeStepKeeps, Zenon
  <2>3. ASSUME SubframeBegin PROVE ReaderKnows'
    <3>1. inside' = "frame" /\ reader' \in Refresh(Live(pipe)) BY <2>3, Zenon DEF SubframeBegin
    <3> QED BY <2>1, <3>1, WalkNext, Zenon DEF ReaderKnows
  <2>4. ASSUME ReclockBegin PROVE ReaderKnows'
    <3>1. inside = "nobody" /\ inside' = inside /\ reader' \in Reclock(Live(pipe))
      BY <2>4, Zenon DEF ReclockBegin
    <3> QED BY <2>1, <3>1, WalkNext, Zenon DEF ReaderKnows
  <2>5. ASSUME SubframeEnd PROVE ReaderKnows'
    BY <2>5, Zenon DEF SubframeEnd, ReaderKnows
  <2>6. ASSUME PullEnd PROVE ReaderKnows'
    <3>1. /\ reader.at = "refresh" /\ inside' = inside
          /\ reader' = [reader EXCEPT !.todo = @ \ {FirstIface(@)}]
      BY <2>6, Zenon DEF PullEnd
    <3>2. /\ reader'.at = "refresh" /\ reader'.slot = reader.slot
          /\ reader'.rest = reader.rest /\ reader'.todo \subseteq reader.todo
      BY <3>1, SMT, Z3
    <3> QED BY <2>1, <3>1, <3>2, Zenon DEF ReaderKnows
  <2>7. Mixed(pipe)' BY <2>1, ZenonT(60) DEF Mixed, Inputs, Live
  <2> QED BY <1>4, <2>2, <2>3, <2>4, <2>5, <2>6, <2>7, Zenon
<1>5. ASSUME NEW creatable \in BOOLEAN, PullPacket(creatable) PROVE Inv'
  <2> DEFINE f == FirstIface(reader.todo)
  <2>1. /\ reader.at = "refresh" /\ reader.todo # {}
        /\ pipe.slots[reader.slot].queue[f] # <<>>
        /\ pipe' = pull_packet(pipe, reader.slot, f, creatable)
        /\ UNCHANGED <<inside, reader, slot_map, call, ports, net>>
    BY <1>5, Zenon DEF PullPacket, PullQueue
  <2>2. reader.slot \in Live(pipe) /\ f \in Ifaces BY <2>1, FirstIsOne, Zenon DEF ReaderKnows
  <2> HIDE DEF f
  <2>3. /\ pipe' \in PipelineType /\ SameEndpoints(pipe, pipe') /\ Mixed(pipe')
        /\ Live(pipe') = Live(pipe)
    BY <1>1, <2>1, <2>2, PullPacketKeeps, SMTT(30), Z3 DEF SameEndpoints
  <2>4. NodeTypes' /\ Ownership' BY <1>2, <2>1, <2>3, PipeStepKeeps, Zenon
  <2>5. ReaderKnows' BY <2>1, <2>3, ReaderKept, Zenon
  <2> QED BY <2>3, <2>4, <2>5, Zenon
<1>6. ASSUME NEW dead \in SUBSET Addresses, RefreshSessions(dead) \/ ReclockSlot(dead) PROVE Inv'
  <2>1. /\ reader.at \in {"refresh", "reclock"}
        /\ dead \subseteq pipe.slots[reader.slot].sessions
        /\ pipe' = remove_sessions(pipe, reader.slot, dead)
        /\ UNCHANGED <<inside, slot_map, call, ports, net>>
    BY <1>6, Zenon DEF RefreshSessions, ReclockSlot
  <2>2. reader.slot \in Live(pipe) /\ reader.rest \subseteq Live(pipe) BY <2>1, Zenon DEF ReaderKnows
  <2>3. /\ pipe' \in PipelineType /\ SameEndpoints(pipe, pipe') /\ Mixed(pipe')
        /\ Live(pipe') = Live(pipe)
    BY <1>1, <2>1, <2>2, RemoveSessions, SMTT(30), Z3 DEF SameEndpoints
  <2>4. NodeTypes' /\ Ownership' BY <1>2, <2>1, <2>3, PipeStepKeeps, Zenon
  <2>5. CASE RefreshSessions(dead)
    <3>1. reader.at = "refresh" /\ reader' \in Refresh(reader.rest) BY <2>5, Zenon DEF RefreshSessions
    <3>2. ReaderKnows' BY <2>1, <2>2, <2>3, <3>1, WalkNext, ZenonT(60) DEF ReaderKnows
    <3> QED BY <2>3, <2>4, <3>2, Zenon
  <2>6. CASE ReclockSlot(dead)
    <3>1. reader.at = "reclock" /\ reader' \in Reclock(reader.rest) BY <2>6, Zenon DEF ReclockSlot
    <3>2. ReaderKnows' BY <2>1, <2>2, <2>3, <3>1, WalkNext, SMTT(30), Z3 DEF ReaderKnows
    <3> QED BY <2>3, <2>4, <3>2, Zenon
  <2> QED BY <1>6, <2>5, <2>6, Zenon
<1> QED BY <1>4, <1>5, <1>6, Zenon DEF ReaderStep

\* The steps of the calls, for all of the invariant.
LEMMA UserKeeps ==
  ASSUME Inv, ~TaskInReclock,
         UserStep \/ \E req \in Requests : Begin(req)
  PROVE  Inv'
<1> USE DEF Inv, nodeUnchanged
<1>1. ASSUME NEW req \in Requests, Begin(req) PROVE Inv'
  BY <1>1, BeginKeeps, ReaderKept, Zenon DEF Begin
<1>2. CASE Return BY <1>2, ReturnKeeps, ReaderKept, Zenon DEF Return
<1>3. CASE Configure BY <1>3, CallStepKeeps, ReaderKept, Zenon DEF Configure
<1>4. CASE Bind BY <1>4, CallStepKeeps, ReaderKept, Zenon DEF Bind
<1>5. CASE Resolve BY <1>5, CallStepKeeps, ReaderKept, Zenon DEF Resolve
<1>6. CASE AddPort BY <1>6, AddPortKeeps, ReaderKept, Zenon DEF AddPort
<1>7. CASE Unlink BY <1>7, CallStepKeeps, ReaderKept, Zenon DEF Unlink
<1>8. CASE GetMetrics BY <1>8, CallStepKeeps, ReaderKept, Zenon DEF GetMetrics
<1>9. CASE RemovePort BY <1>9, RemovePortKeeps, ReaderKept, Zenon DEF RemovePort
<1>10. CASE CleanupHandle BY <1>10, CallStepKeeps, ReaderKept, Zenon DEF CleanupHandle
<1>11. CASE CleanupDone BY <1>11, CleanupDoneKeeps, ReaderKept, Zenon DEF CleanupDone
<1>12. CASE Destroy BY <1>12, DestroyKeeps, ReaderKept, Zenon DEF Destroy
<1>13. CASE TaskBegin
  <2>1. NodeTypes' /\ Ownership'
    BY <1>13, PipeStepKeeps, SMTT(30), Z3
    DEF TaskBegin, SameEndpoints, NodeTypes, Ownership, CallKnows
  <2> QED BY <1>13, <2>1, ReaderKept, ZenonT(60) DEF TaskBegin
<1>14. CASE EndAddEndpoint BY <1>14, EndAddEndpointKeeps, ReaderKept, ZenonT(60) DEF EndAddEndpoint, TaskEnd
<1>15. CASE EndDeleteSlot BY <1>15, EndDeleteSlotKeeps, ReaderKept, Zenon DEF EndDeleteSlot, TaskEnd
<1>16. CASE EndQuerySlot BY <1>16, CallStepKeeps, ReaderKept, Zenon DEF EndQuerySlot, TaskEnd
<1>17. ASSUME NEW outcome \in SlotOutcomes, EndCreateSlot(outcome) PROVE Inv'
  BY <1>17, EndCreateSlotKeeps, ReaderKept, Zenon DEF EndCreateSlot, TaskEnd
<1> QED
  BY <1>1, <1>2, <1>3, <1>4, <1>5, <1>6, <1>7, <1>8, <1>9, <1>10, <1>11, <1>12, <1>13, <1>14,
     <1>15, <1>16, <1>17, ZenonT(60)
  DEF UserStep

\* Neither the network thread nor the reader touches an endpoint.
LEMMA EndpointsKept ==
  ASSUME Inv, ReaderStep \/ WriteEnd \/ \E port \in ports, packet \in Packets : WriteBegin(port, packet)
  PROVE  SameEndpoints(pipe, pipe') /\ UNCHANGED <<used, slot_map, call>>
<1> USE DEF Inv, readerUnchanged, netUnchanged
<1>1. pipe \in PipelineType BY Zenon DEF NodeTypes
<1>2. ASSUME NEW port \in ports, NEW packet \in Packets, WriteBegin(port, packet)
      PROVE  SameEndpoints(pipe, pipe') /\ UNCHANGED <<used, slot_map, call>>
  BY <1>1, <1>2, CountPacketKeeps, Zenon DEF WriteBegin
<1>3. CASE WriteEnd
  <2>1. net.port \in ports /\ net.packet \in Packets
    BY <1>3, Zenon DEF WriteEnd, Ownership, CallKnows, NodeTypes
  <2>2. PICK h \in Handles, f \in Ifaces : net.port = <<h, f>> BY <2>1, SMT, Z3 DEF Ownership, Owned
  <2>3. h \in Live(pipe) BY <2>1, <2>2, Zenon DEF Ownership, Owned
  <2>4. pipe' = PushPacket(pipe, h, f, net.packet) BY <1>3, <2>2, SMT, Z3 DEF WriteEnd
  <2>5. SameEndpoints(pipe, pipe') BY <1>1, <2>1, <2>3, <2>4, PushPacketKeeps, Zenon
  <2> QED BY <1>3, <2>5, Zenon DEF WriteEnd
<1>4. CASE SubframeBegin \/ PullEnd \/ SubframeEnd \/ ReclockBegin
  BY <1>4, Zenon DEF SubframeBegin, PullEnd, SubframeEnd, ReclockBegin, SameEndpoints
<1>5. ASSUME NEW creatable \in BOOLEAN, PullPacket(creatable)
      PROVE  SameEndpoints(pipe, pipe') /\ UNCHANGED <<used, slot_map, call>>
  <2> DEFINE f == FirstIface(reader.todo)
  <2>1. /\ reader.at = "refresh" /\ reader.todo # {}
        /\ pipe.slots[reader.slot].queue[f] # <<>>
        /\ pipe' = pull_packet(pipe, reader.slot, f, creatable)
    BY <1>5, Zenon DEF PullPacket, PullQueue
  <2>2. reader.slot \in Live(pipe) /\ f \in Ifaces BY <2>1, FirstIsOne, Zenon DEF ReaderKnows
  <2> HIDE DEF f
  <2>3. SameEndpoints(pipe, pipe') BY <1>1, <2>1, <2>2, PullPacketKeeps, Zenon
  <2> QED BY <1>5, <2>3, Zenon DEF PullPacket
<1>6. ASSUME NEW dead \in SUBSET Addresses, RefreshSessions(dead) \/ ReclockSlot(dead)
      PROVE  SameEndpoints(pipe, pipe') /\ UNCHANGED <<used, slot_map, call>>
  <2>1. /\ reader.at \in {"refresh", "reclock"}
        /\ dead \subseteq pipe.slots[reader.slot].sessions
        /\ pipe' = remove_sessions(pipe, reader.slot, dead)
    BY <1>6, Zenon DEF RefreshSessions, ReclockSlot
  <2>2. reader.slot \in Live(pipe) BY <2>1, Zenon DEF ReaderKnows
  <2>3. SameEndpoints(pipe, pipe') BY <1>1, <2>1, <2>2, RemoveSessions, Zenon
  <2> QED BY <1>6, <2>3, Zenon DEF RefreshSessions, ReclockSlot
<1> QED BY <1>2, <1>3, <1>4, <1>5, <1>6, Zenon DEF ReaderStep

-----------------------------------------------------------------------------
(* Pipeline slots that get_slot_() has left behind stay what they are.        *)

\* An operation on a slot of the pipeline leaves the other slots as they are.
LEMMA OthersKept ==
  ASSUME NEW p \in PipelineType, NEW h \in Live(p), NEW q,
         \/ \E f, packet : q = PushPacket(p, h, f, packet)
         \/ \E f, proto : q = add_endpoint(p, h, f, proto)
         \/ \E gone : q = remove_sessions(p, h, gone)
         \/ q = delete_slot(p, h)
  PROVE  \A g \in Live(p) \ {h} : q.slots[g] = p.slots[g]
<1>1. p.slots \in [Live(p) -> SlotType] BY PipelineSlots, Zenon
<1>2. ASSUME NEW f, NEW packet, q = PushPacket(p, h, f, packet)
      PROVE  \A g \in Live(p) \ {h} : q.slots[g] = p.slots[g]
  <2>1. q.slots = [p.slots EXCEPT ![h].queue[f] = Append(@, packet)]
    BY <1>2, Zenon DEF PushPacket, PipelineType
  <2> QED BY <1>1, <2>1, Zenon
<1>3. ASSUME NEW f, NEW proto, q = add_endpoint(p, h, f, proto)
      PROVE  \A g \in Live(p) \ {h} : q.slots[g] = p.slots[g]
  <2>1. q.slots = [p.slots EXCEPT ![h].proto[f] = proto] BY <1>3, Zenon DEF add_endpoint, PipelineType
  <2> QED BY <1>1, <2>1, Zenon
<1>4. ASSUME NEW gone, NEW r, r = remove_sessions(p, h, gone)
      PROVE  \A g \in Live(p) \ {h} : r.slots[g] = p.slots[g]
  <2>1. r.slots = [p.slots EXCEPT ![h].sessions = @ \ gone] BY <1>4, Zenon DEF remove_sessions
  <2> QED BY <1>1, <2>1, Zenon
<1>5. CASE q = delete_slot(p, h)
  <2>1. PICK r : r = remove_sessions(p, h, p.slots[h].sessions) BY Zenon
  <2>2. r \in PipelineType BY <2>1, RemoveSessions, SMT, Z3
  <2>3. q = [r EXCEPT !.slots = Restrict(r.slots, Live(p) \ {h})] BY <1>5, <2>1, Zenon DEF delete_slot
  <2>4. q.slots = Restrict(r.slots, Live(p) \ {h}) BY <2>2, <2>3, Zenon DEF PipelineType
  <2>5. \A g \in Live(p) \ {h} : q.slots[g] = r.slots[g] BY <2>4, Zenon DEF Restrict
  <2> QED BY <1>4, <2>1, <2>5, Zenon
<1> QED BY <1>2, <1>3, <1>4, <1>5, Zenon

\* So does the pulling of a packet.
LEMMA PullOthers ==
  ASSUME NEW p \in PipelineType, NEW h \in Live(p), NEW f \in Ifaces, p.slots[h].queue[f] # <<>>,
         NEW creatable \in BOOLEAN, NEW q, q = pull_packet(p, h, f, creatable)
  PROVE  \A g \in Live(p) \ {h} : q.slots[g] = p.slots[g]
<1> DEFINE queue == p.slots[h].queue[f]
           slots == [p.slots EXCEPT ![h].queue[f] = Tail(queue)]
           popped == [p EXCEPT !.slots = slots]
           routed == route_packet(popped, h, f, Head(queue), creatable)
<1>1. p.slots \in [Live(p) -> SlotType] BY PipelineSlots, Zenon
<1>2. popped.slots = slots BY Zenon DEF PipelineType
<1>3. DOMAIN slots = Live(p) /\ \A g \in Live(p) \ {h} : slots[g] = p.slots[g] BY <1>1, Zenon
<1>4. q = IF Head(queue).parses THEN [routed EXCEPT !.pending = @ - 1] ELSE popped
  BY Zenon DEF pull_packet
<1> HIDE DEF slots
<1>5. /\ \A g \in Live(p) \ {h} : routed.slots[g] = p.slots[g]
      /\ [routed EXCEPT !.pending = @ - 1].slots = routed.slots
  <2> DEFINE made == [slots EXCEPT ![h].sessions = @ \union {Head(queue).source}]
  <2>1. \A g \in Live(p) \ {h} : made[g] = slots[g] BY <1>3, Zenon
  <2> HIDE DEF made
  <2>2. CASE routed = popped BY <1>2, <1>3, <2>2, Zenon DEF PipelineType
  <2>3. CASE routed = create_session(popped, h, Head(queue).source)
    <3>1. routed = [slots |-> made, pending |-> popped.pending, sessions |-> popped.sessions + 1,
                    mixer |-> popped.mixer \union {<<h, Head(queue).source>>}]
      BY <1>2, <2>3, Zenon DEF create_session, made
    <3> HIDE DEF routed
    <3> QED BY <1>3, <2>1, <3>1, SMT, Z3
  <2> QED BY <2>2, <2>3, Zenon DEF route_packet
<1> HIDE DEF routed, popped
<1> QED BY <1>2, <1>3, <1>4, <1>5, Zenon

\* A step that keeps the slots of the pipeline, the handles of the slots of the node, and
\* what was left behind.
LEMMA OrphanedSame ==
  ASSUME Orphaned, orphans' = orphans, Live(pipe') = Live(pipe),
         \A h \in orphans : pipe'.slots[h] = pipe.slots[h],
         DOMAIN slot_map' = DOMAIN slot_map,
         \A i \in DOMAIN slot_map : slot_map'[i].handle = slot_map[i].handle
  PROVE  Orphaned'
BY ZenonT(30) DEF Orphaned, Handle

\* The steps of a call that add and remove no pipeline slot.
LEMMA OrphanedCall ==
  ASSUME Inv, Orphaned,
         \/ Configure \/ Bind \/ Resolve \/ AddPort \/ RemovePort \/ CleanupDone
  PROVE  Orphaned'
<1> USE DEF nodeUnchanged
<1> DEFINE i == call.req.slot
<1>1. pipe' = pipe /\ orphans' = orphans
  BY Zenon DEF Configure, Bind, Resolve, AddPort, RemovePort, CleanupDone
<1>2. /\ slot_map \in [DOMAIN slot_map -> NodeSlotType] /\ i \in DOMAIN slot_map
      /\ call.at # "idle" /\ call.req.op = "bind" => call.req.uri \in Ifaces \X Protos
  BY Zenon DEF Configure, Bind, Resolve, AddPort, RemovePort, CleanupDone, Inv, NodeTypes, Ownership,
               CallKnows
<1>3. CASE slot_map' = slot_map BY <1>1, <1>3, OrphanedSame, Zenon
<1>4. CASE BreakSlot
  <2>1. /\ DOMAIN slot_map' = DOMAIN slot_map
        /\ \A j \in DOMAIN slot_map : slot_map'[j].handle = slot_map[j].handle
    BY <1>2, <1>4, ZenonT(60) DEF BreakSlot, NodeSlotType
  <2> QED BY <1>1, <2>1, OrphanedSame, Zenon
<1>5. ASSUME NEW f \in Ifaces, NEW b \in BOOLEAN, slot_map' = [slot_map EXCEPT ![i].ports[f] = b]
      PROVE  Orphaned'
  <2>1. PortSet(slot_map, [slot_map EXCEPT ![i].ports[f] = b], i, f, b) BY <1>2, SetPort, Zenon
  <2>2. PortSet(slot_map, slot_map', i, f, b) BY <1>5, <2>1, ZenonT(60)
  <2>3. /\ DOMAIN slot_map' = DOMAIN slot_map
        /\ \A j \in DOMAIN slot_map : slot_map'[j].handle = slot_map[j].handle
    BY <2>2, Zenon DEF PortSet
  <2> QED BY <1>1, <2>3, OrphanedSame, Zenon
<1>6. CASE AddPort
  <2>1. call.at = "add_port" BY <1>6, Zenon DEF AddPort
  <2>2. call.req.op = "bind" BY <2>1, Zenon DEF Inv, Ownership, CallKnows
  <2>3. Iface \in Ifaces BY <1>2, <2>1, <2>2, Zenon DEF Iface
  <2>4. BreakSlot \/ slot_map' = [slot_map EXCEPT ![i].ports[Iface] = TRUE] BY <1>6, Zenon DEF AddPort
  <2>5. TRUE \in BOOLEAN BY Zenon
  <2> QED BY <1>4, <1>5, <2>3, <2>4, <2>5, Zenon
<1>7. CASE RemovePort
  <2>1. slot_map' = [slot_map EXCEPT ![i].ports[FirstIface(OpenPorts)] = FALSE] /\ OpenPorts # {}
    BY <1>7, Zenon DEF RemovePort
  <2>2. FirstIface(OpenPorts) \in Ifaces BY <2>1, FirstIsOne, Zenon DEF OpenPorts
  <2>3. FALSE \in BOOLEAN BY Zenon
  <2> QED BY <1>5, <2>1, <2>2, <2>3, Zenon
<1>8. CASE CleanupDone
  <2>1. slot_map[i].handle = NoHandle BY <1>8, Zenon DEF CleanupDone, Slot
  <2>2. /\ DOMAIN slot_map' \subseteq DOMAIN slot_map
        /\ DOMAIN slot_map \ {i} \subseteq DOMAIN slot_map'
        /\ \A j \in DOMAIN slot_map' : slot_map'[j] = slot_map[j]
    BY <1>8, Zenon DEF CleanupDone, Restrict
  <2>3. Live(pipe) \subseteq Handles /\ NoHandle \notin Handles
    BY NodeAssumption, Zenon DEF Inv, Ownership, Owned
  <2>4. ASSUME NEW h \in Live(pipe) \ orphans
        PROVE  \E j \in DOMAIN slot_map' : slot_map'[j].handle = h
    <3>1. PICK j \in DOMAIN slot_map : slot_map[j].handle = h BY <2>4, Zenon DEF Orphaned, Handle
    <3>2. j \in DOMAIN slot_map \ {i} BY <2>1, <2>3, <3>1, Zenon
    <3> QED BY <2>2, <3>1, <3>2, Zenon
  <2> QED BY <1>1, <2>2, <2>4, ZenonT(30) DEF Orphaned, Handle
<1> QED BY <1>3, <1>4, <1>6, <1>7, <1>8, Zenon DEF Configure, Bind, Resolve

\* A slot of the pipeline is created, for the node or not.
LEMMA OrphanedCreate ==
  ASSUME Inv, Orphaned, NEW outcome \in SlotOutcomes, EndCreateSlot(outcome)
  PROVE  Orphaned'
<1> DEFINE i == call.req.slot
<1>1. i \notin DOMAIN slot_map BY Zenon DEF EndCreateSlot, Inv, Ownership, CallKnows
<1>2. CASE outcome = "failed"
  <2>1. UNCHANGED <<pipe, slot_map, orphans>> BY <1>2, Zenon DEF EndCreateSlot
  <2> QED BY <2>1, OrphanedSame, Zenon
<1>3. ASSUME NEW h \in Handles \ Live(pipe), pipe' = create_slot(pipe, h)
      PROVE  /\ Live(pipe') = Live(pipe) \union {h}
             /\ pipe'.slots[h] = NewSlot
             /\ \A g \in orphans : g \in Live(pipe) /\ pipe'.slots[g] = NewSlot
             /\ h # NoHandle
             /\ \A j \in DOMAIN slot_map : slot_map[j].handle # h
  <2>1. pipe \in PipelineType BY Zenon DEF Inv, NodeTypes
  <2>2. Live(pipe') = Live(pipe) \union {h} /\ \A g \in Live(pipe) : pipe'.slots[g] = pipe.slots[g]
    BY <1>3, <2>1, CreateSlot, SMT, Z3
  <2>3. pipe'.slots = With(pipe.slots, h, NewSlot) BY <1>3, <2>1, Zenon DEF create_slot, PipelineType
  <2>4. pipe'.slots[h] = NewSlot BY <2>3, Zenon DEF With
  <2>5. \A j \in DOMAIN slot_map : slot_map[j].handle # h BY Zenon DEF Inv, Ownership, Owned, Handle
  <2> QED BY <2>2, <2>4, <2>5, NodeAssumption, Zenon DEF Orphaned
<1>4. CASE outcome = "created"
  <2>1. PICK h \in Handles \ Live(pipe) :
          /\ pipe' = create_slot(pipe, h)
          /\ slot_map' = With(slot_map, i, [handle |-> h, broken |-> FALSE,
                                            ports |-> [f \in Ifaces |-> FALSE]])
    BY <1>4, ZenonT(60) DEF EndCreateSlot
  <2>2. orphans' = orphans BY <1>4, Zenon DEF EndCreateSlot
  <2>3. /\ Live(pipe') = Live(pipe) \union {h}
        /\ \A g \in orphans : g \in Live(pipe) /\ pipe'.slots[g] = NewSlot
    BY <1>3, <2>1, Zenon
  <2>4. /\ DOMAIN slot_map' = DOMAIN slot_map \union {i}
        /\ \A j \in DOMAIN slot_map : slot_map'[j] = slot_map[j]
        /\ slot_map'[i].handle = h
    BY <1>1, <2>1, Zenon DEF With
  <2>5. h \notin orphans BY <2>1, Zenon DEF Orphaned
  <2> QED BY <2>2, <2>3, <2>4, <2>5, ZenonT(60) DEF Orphaned, Handle
<1>5. CASE outcome = "leak"
  <2>1. slot_map' = slot_map BY <1>5, Zenon DEF EndCreateSlot
  <2>2. PICK h \in Handles \ Live(pipe) :
          pipe' = create_slot(pipe, h) /\ orphans' = orphans \union {h}
    BY <1>5, ZenonT(60) DEF EndCreateSlot
  <2>3. /\ Live(pipe') = Live(pipe) \union {h} /\ pipe'.slots[h] = NewSlot
        /\ \A g \in orphans : g \in Live(pipe) /\ pipe'.slots[g] = NewSlot
        /\ \A j \in DOMAIN slot_map : slot_map[j].handle # h
    BY <1>3, <2>2, Zenon
  <2> QED BY <2>1, <2>2, <2>3, ZenonT(60) DEF Orphaned, Handle
<1> QED BY <1>2, <1>4, <1>5, Zenon DEF SlotOutcomes

\* The steps of calls do nothing to what was left behind: it is not the slot of a call.
LEMMA OrphanedUser ==
  ASSUME Inv, Orphaned, UserStep \/ \E req \in Requests : Begin(req)
  PROVE  Orphaned'
<1> USE DEF nodeUnchanged
<1>1. CASE UNCHANGED <<pipe, slot_map, orphans>> BY <1>1, OrphanedSame, Zenon
<1>2. ASSUME NEW req \in Requests, Begin(req) PROVE Orphaned' BY <1>1, <1>2, Zenon DEF Begin
<1>3. CASE \/ Return \/ Unlink \/ GetMetrics \/ CleanupHandle \/ Destroy \/ TaskBegin \/ EndQuerySlot
  BY <1>1, <1>3, Zenon DEF Return, Unlink, GetMetrics, CleanupHandle, Destroy, TaskBegin, EndQuerySlot
<1>4. CASE \/ Configure \/ Bind \/ Resolve \/ AddPort \/ RemovePort \/ CleanupDone
  BY <1>4, OrphanedCall, Zenon
<1>5. ASSUME NEW outcome \in SlotOutcomes, EndCreateSlot(outcome) PROVE Orphaned'
  BY <1>5, OrphanedCreate, Zenon
<1>6. CASE EndAddEndpoint \/ EndDeleteSlot
  <2> DEFINE i == call.req.slot
             h == slot_map[i].handle
  <2>1. /\ orphans' = orphans /\ Slot.handle = h
        /\ call.at = "add_endpoint" \/ call.at = "delete_slot"
    BY <1>6, Zenon DEF EndAddEndpoint, EndDeleteSlot, Slot
  <2>2. i \in DOMAIN slot_map BY <2>1, Zenon DEF Inv, Ownership, CallKnows
  <2>3. h # NoHandle
    BY <2>1, <2>2, Zenon DEF Inv, Ownership, CallKnows, Unfinished, CallAt, Handle, Slot
  <2>4. pipe \in PipelineType /\ slot_map \in [DOMAIN slot_map -> NodeSlotType]
    BY Zenon DEF Inv, NodeTypes
  <2>5. h \in Live(pipe) BY <2>2, <2>3, HandleLive, Zenon DEF Inv, Ownership
  <2>6. h \notin orphans BY <2>2, Zenon DEF Orphaned, Handle
  <2>7. CASE EndAddEndpoint
    <3>1. CASE BreakSlot /\ pipe' = pipe
      <4>1. /\ DOMAIN slot_map' = DOMAIN slot_map
            /\ \A j \in DOMAIN slot_map : slot_map'[j].handle = slot_map[j].handle
        BY <2>2, <2>4, <3>1, ZenonT(60) DEF BreakSlot, NodeSlotType
      <4> QED BY <2>1, <3>1, <4>1, OrphanedSame, Zenon
    <3>2. CASE ~(BreakSlot /\ pipe' = pipe)
      <4>1. pipe' = add_endpoint(pipe, h, Iface, Proto) /\ slot_map' = slot_map
        BY <2>1, <2>7, <3>2, Zenon DEF EndAddEndpoint
      <4>2. \A g \in Live(pipe) \ {h} : pipe'.slots[g] = pipe.slots[g]
        BY <2>4, <2>5, <4>1, OthersKept, Zenon
      <4>3. pipe'.slots = [pipe.slots EXCEPT ![h].proto[Iface] = Proto]
        BY <2>4, <4>1, Zenon DEF add_endpoint, PipelineType
      <4>4. Live(pipe') = Live(pipe) BY <4>3, Zenon DEF Live
      <4>5. \A g \in orphans : pipe'.slots[g] = pipe.slots[g] BY <2>6, <4>2, Zenon DEF Orphaned
      <4> QED BY <2>1, <4>1, <4>4, <4>5, OrphanedSame, Zenon
    <3> QED BY <3>1, <3>2, Zenon
  <2>8. CASE EndDeleteSlot
    <3>1. /\ pipe' = delete_slot(pipe, h)
          /\ slot_map' = [slot_map EXCEPT ![i].handle = NoHandle]
      BY <2>1, <2>8, Zenon DEF EndDeleteSlot
    <3>2. Live(pipe') = Live(pipe) \ {h} BY <2>4, <2>5, <3>1, DeleteSlot, SMT, Z3
    <3>3. \A g \in Live(pipe) \ {h} : pipe'.slots[g] = pipe.slots[g]
      BY <2>4, <2>5, <3>1, OthersKept, Zenon
    <3>4. /\ DOMAIN slot_map' = DOMAIN slot_map /\ slot_map'[i].handle = NoHandle
          /\ \A j \in DOMAIN slot_map \ {i} : slot_map'[j].handle = slot_map[j].handle
      BY <2>2, <2>4, <3>1, Zenon DEF NodeSlotType
    <3>5. NoHandle \notin orphans
      BY NodeAssumption, Zenon DEF Orphaned, Inv, Ownership, Owned
    <3>6. \A g \in orphans : g \in Live(pipe') /\ pipe'.slots[g] = NewSlot
      BY <2>6, <3>2, <3>3, Zenon DEF Orphaned
    <3>7. \A j \in DOMAIN slot_map : slot_map'[j].handle \notin orphans
      BY <3>4, <3>5, Zenon DEF Orphaned, Handle
    <3>8. ASSUME NEW g \in Live(pipe') \ orphans
          PROVE  \E j \in DOMAIN slot_map' : slot_map'[j].handle = g
      <4>1. g \in Live(pipe) \ orphans /\ g # h BY <3>2, <3>8, Zenon
      <4>2. PICK j \in DOMAIN slot_map : slot_map[j].handle = g BY <4>1, Zenon DEF Orphaned, Handle
      <4> QED BY <3>4, <4>1, <4>2, Zenon
    <3> QED BY <2>1, <3>4, <3>6, <3>7, <3>8, Zenon DEF Orphaned, Handle
  <2> QED BY <1>6, <2>7, <2>8, Zenon
<1> QED BY <1>2, <1>3, <1>4, <1>5, <1>6, ZenonT(60) DEF UserStep

\* No packet comes to a slot that was left behind, and the reader finds none there and no
\* session to remove.
LEMMA OrphanedElsewhere ==
  ASSUME Inv, Orphaned,
         ReaderStep \/ WriteEnd \/ \E port \in ports, packet \in Packets : WriteBegin(port, packet)
  PROVE  Orphaned'
<1>1. orphans' = orphans /\ slot_map' = slot_map
  BY Zenon
  DEF ReaderStep, SubframeBegin, PullEnd, SubframeEnd, ReclockBegin, PullPacket, RefreshSessions,
      ReclockSlot, WriteEnd, WriteBegin, readerUnchanged, netUnchanged
<1>2. Live(pipe') = Live(pipe) BY EndpointsKept, Zenon DEF SameEndpoints
<1>3. SUFFICES \A h \in orphans : pipe'.slots[h] = pipe.slots[h] BY <1>1, <1>2, OrphanedSame, Zenon
<1>4. pipe \in PipelineType BY Zenon DEF Inv, NodeTypes
<1>5. \A h \in orphans : h \in Live(pipe) /\ pipe.slots[h] = NewSlot BY Zenon DEF Orphaned
<1>6. ASSUME NEW port \in ports, NEW packet \in Packets, WriteBegin(port, packet)
      PROVE  pipe'.slots = pipe.slots
  BY <1>4, <1>6, Zenon DEF WriteBegin, CountPacket, PipelineType
<1>7. CASE WriteEnd
  <2>1. net.port \in ports BY <1>7, Zenon DEF WriteEnd, Inv, Ownership, CallKnows
  <2>2. PICK h \in Handles, f \in Ifaces : net.port = <<h, f>>
    BY <2>1, SMT, Z3 DEF Inv, Ownership, Owned
  <2>3. Owned BY Zenon DEF Inv, Ownership
  <2>4. h \in Live(pipe) /\ h \notin orphans
    <3>1. <<h, f>> \in ports BY <2>1, <2>2, Zenon
    <3>2. PICK i \in DOMAIN slot_map : Handle(i) = h BY <2>3, <3>1, ZenonT(30) DEF Owned
    <3>3. h \in Live(pipe) BY <2>3, <3>2, ZenonT(30) DEF Owned
    <3>4. h \notin orphans BY <3>2, Zenon DEF Orphaned
    <3> QED BY <3>3, <3>4, Zenon
  <2>5. \E g, packet : pipe' = PushPacket(pipe, h, g, packet)
    BY <1>7, <2>2, SMT, Z3 DEF WriteEnd
  <2>6. \A g \in Live(pipe) \ {h} : pipe'.slots[g] = pipe.slots[g]
    BY <1>4, <2>4, <2>5, OthersKept, ZenonT(30)
  <2> QED BY <1>5, <2>4, <2>6, Zenon
<1>8. CASE SubframeBegin \/ PullEnd \/ SubframeEnd \/ ReclockBegin
  BY <1>8, Zenon DEF SubframeBegin, PullEnd, SubframeEnd, ReclockBegin
<1>9. ASSUME NEW creatable \in BOOLEAN, PullPacket(creatable)
      PROVE  \A h \in orphans : pipe'.slots[h] = pipe.slots[h]
  <2>1. PICK f : f = FirstIface(reader.todo) BY Zenon
  <2>2. /\ reader.at = "refresh" /\ reader.todo # {}
        /\ pipe.slots[reader.slot].queue[f] # <<>>
        /\ pipe' = pull_packet(pipe, reader.slot, f, creatable)
    BY <1>9, <2>1, Zenon DEF PullPacket, PullQueue
  <2>3. reader.slot \in Live(pipe) /\ f \in Ifaces
    BY <2>1, <2>2, FirstIsOne, Zenon DEF Inv, ReaderKnows
  <2>4. NewSlot.queue[f] = <<>> BY <2>3, Zenon DEF NewSlot
  <2>5. reader.slot \notin orphans BY <1>5, <2>2, <2>4, Zenon
  <2>6. PICK r \in Live(pipe) : r = reader.slot BY <2>3, Zenon
  <2>7. \A g \in Live(pipe) \ {r} : pipe'.slots[g] = pipe.slots[g]
    BY <1>4, <2>2, <2>3, <2>6, PullOthers, SMT, Z3
  <2> QED BY <1>5, <2>5, <2>6, <2>7, Zenon
<1>10. ASSUME NEW dead \in SUBSET Addresses, RefreshSessions(dead) \/ ReclockSlot(dead)
       PROVE  \A h \in orphans : pipe'.slots[h] = pipe.slots[h]
  <2>1. /\ reader.at \in {"refresh", "reclock"}
        /\ dead \subseteq pipe.slots[reader.slot].sessions
        /\ pipe' = remove_sessions(pipe, reader.slot, dead)
    BY <1>10, Zenon DEF RefreshSessions, ReclockSlot
  <2>2. reader.slot \in Live(pipe) BY <2>1, Zenon DEF Inv, ReaderKnows
  <2>3. \A g \in Live(pipe) \ {reader.slot} : pipe'.slots[g] = pipe.slots[g]
    BY <1>4, <2>1, <2>2, OthersKept, Zenon
  <2>4. ASSUME reader.slot \in orphans PROVE pipe'.slots[reader.slot] = pipe.slots[reader.slot]
    <3>1. pipe.slots[reader.slot] = NewSlot /\ NewSlot.sessions = {} BY <1>5, <2>4, Zenon DEF NewSlot
    <3>2. dead = {} BY <2>1, <3>1, Zenon
    <3>3. pipe'.slots = [pipe.slots EXCEPT ![reader.slot].sessions = @ \ dead]
      BY <2>1, Zenon DEF remove_sessions
    <3>4. pipe'.slots[reader.slot] = [NewSlot EXCEPT !.sessions = {} \ {}]
      BY <2>2, <3>1, <3>2, <3>3, Zenon DEF Live
    <3>5. \A a, b, c : [[proto |-> a, queue |-> b, sessions |-> c] EXCEPT !.sessions = c]
                       = [proto |-> a, queue |-> b, sessions |-> c]
      BY SMT, Z3
    <3>6. {} \ {} = {} BY Zenon
    <3>7. [NewSlot EXCEPT !.sessions = {} \ {}] = NewSlot BY <3>5, <3>6, Zenon DEF NewSlot
    <3> QED BY <3>1, <3>4, <3>7, Zenon
  <2> QED BY <1>5, <2>3, <2>4, Zenon
<1> QED BY <1>6, <1>7, <1>8, <1>9, <1>10, Zenon DEF ReaderStep

-----------------------------------------------------------------------------
(* What the node owns.                                                       *)

\* The node starts with nothing.
LEMMA InitInv == Init => Inv /\ Orphaned
<1> SUFFICES ASSUME Init PROVE Inv /\ Orphaned BY Zenon
<1>1. /\ pipe = [slots |-> <<>>, pending |-> 0, sessions |-> 0, mixer |-> {}]
      /\ slot_map = <<>> /\ call.at = "idle" /\ ports = {} /\ net.at = "idle" /\ reader.at = "idle"
  BY Zenon DEF Init, EmptyPipeline, CallIdle
<1>2. DOMAIN slot_map = {} /\ pipe.slots = <<>> /\ Live(pipe) = {} BY <1>1, SMTT(30), Z3 DEF Live
<1>3. pipe \in PipelineType BY EmptyTyped, Zenon DEF Init
<1>4. NodeTypes
  <2>1. slot_map \in [{} -> NodeSlotType] /\ {} \subseteq Slots BY <1>1, SMT, Z3
  <2>2. ~(call.at # "idle") /\ ~(net.at = "push") BY <1>1, Zenon
  <2> QED BY <1>2, <1>3, <2>1, <2>2, Zenon DEF NodeTypes
<1>5. Ownership
  BY <1>1, <1>2, Zenon DEF Ownership, Owned, Connected, Unfinished, CallKnows, Handle
<1>6. ReaderKnows BY <1>1, Zenon DEF ReaderKnows
<1>7. Mixed(pipe)
  <2>1. Inputs(pipe) = {} BY <1>2, Zenon DEF Inputs
  <2>2. Cardinality({}) = 0 BY FS_EmptySet, Zenon
  <2> QED BY <1>1, <2>1, <2>2, Zenon DEF Mixed
<1>8. Orphaned BY <1>2, Zenon DEF Init, Orphaned
<1> QED BY <1>4, <1>5, <1>6, <1>7, <1>8, Zenon DEF Inv

\* When no task runs while a frame is reclocked, it is known at every step of every call,
\* whichever of its steps fail, who owns each endpoint, port and session and each pipeline
\* slot but those that get_slot_() has left behind, and these have none of the others.
THEOREM NodeOwns ==
  ASSUME ~TaskInReclock
  PROVE  Spec => [](Inv /\ Orphaned)
<1>1. Inv /\ Orphaned /\ [Next]_vars => (Inv /\ Orphaned)'
  <2> SUFFICES ASSUME Inv, Orphaned, [Next]_vars PROVE Inv' /\ Orphaned' BY Zenon
  <2>1. CASE UNCHANGED vars
    <3> USE <2>1 DEF vars, Inv
    <3>1. NodeTypes' /\ Ownership'
      BY PipeStepKeeps, ZenonT(60) DEF SameEndpoints, NodeTypes, Ownership, CallKnows
    <3>2. ReaderKnows' BY ReaderKept, Zenon
    <3>3. Mixed(pipe)' BY ZenonT(60) DEF Mixed, Inputs, Live
    <3>4. Orphaned' BY OrphanedSame, Zenon
    <3> QED BY <3>1, <3>2, <3>3, <3>4, Zenon
  <2>2. CASE UserStep \/ \E req \in Requests : Begin(req)
    BY <2>2, UserKeeps, OrphanedUser, Zenon
  <2>3. CASE (\E port \in ports, packet \in Packets : WriteBegin(port, packet)) \/ WriteEnd
    BY <2>3, WriteKeeps, OrphanedElsewhere, Zenon
  <2>4. CASE ReaderStep BY <2>4, ReaderKeeps, OrphanedElsewhere, Zenon
  <2> QED BY <2>1, <2>2, <2>3, <2>4, Zenon DEF Next
<1> QED BY InitInv, <1>1, PTL DEF Spec

\* A port of the network loop writes to an endpoint that exists, in every state: bind()
\* opens it after task_add_endpoint_(), and cleanup_slot_() closes it before
\* task_delete_slot_().
THEOREM PortsAreConnected ==
  ASSUME ~TaskInReclock
  PROVE  Spec => []PortsHaveEndpoints
<1>1. Inv => PortsHaveEndpoints
  <2> SUFFICES ASSUME Inv, NEW port \in ports
               PROVE  port[1] \in Live(pipe) /\ pipe.slots[port[1]].proto[port[2]] # NoProto
    BY Zenon DEF PortsHaveEndpoints, Inv, Ownership, CallKnows
  <2> USE DEF Inv, Ownership
  <2>1. PICK h \in Handles, f \in Ifaces : port = <<h, f>> BY SMT, Z3 DEF Owned
  <2>2. PICK i \in DOMAIN slot_map : slot_map[i].handle = h /\ slot_map[i].ports[f]
    BY <2>1, Zenon DEF Owned, Handle
  <2>3. h \in Live(pipe) BY <2>2, Zenon DEF Owned, Handle
  <2>4. pipe.slots[h].proto[f] # NoProto BY <2>2, ZenonT(60) DEF Connected, Handle
  <2> QED BY <2>1, <2>3, <2>4, Zenon
<1> QED BY <1>1, NodeOwns, PTL

\* Between calls, and after the destructor, the pipeline and the network loop hold what
\* the slots of the node that are not broken stand for and nothing else, though bind()
\* and configure() may have failed at any of their steps, except for empty pipeline slots
\* that get_slot_() has left behind.
THEOREM NothingLeftBehind ==
  ASSUME ~TaskInReclock
  PROVE  Spec => []OwnsAll
<1>1. Inv /\ Orphaned => OwnsAll
  <2> SUFFICES ASSUME Inv, Orphaned, call.at \in {"idle", "destroyed"} PROVE OwnsAll BY Zenon DEF OwnsAll
  <2> USE DEF Inv, Ownership
  <2> DEFINE working == {i \in DOMAIN slot_map : ~slot_map[i].broken}
             bound == {b \in working \X Ifaces : slot_map[b[1]].ports[b[2]]}
             endpoints == {e \in Live(pipe) \X Ifaces : pipe.slots[e[1]].proto[e[2]] # NoProto}
  <2>1. \A i \in DOMAIN slot_map : slot_map[i].broken <=> slot_map[i].handle = NoHandle
    BY Zenon DEF Unfinished, CallAt, Handle
  <2>2. \A i \in DOMAIN slot_map, f \in Ifaces :
          slot_map[i].ports[f] <=> slot_map[i].handle # NoHandle
                                   /\ pipe.slots[slot_map[i].handle].proto[f] # NoProto
    BY Zenon DEF Unfinished, Connected, CallAt, Handle
  <2>3. \A h \in Handles : h # NoHandle BY NodeAssumption, Zenon
  <2>4. \A i \in working : slot_map[i].handle \in Handles
    BY <2>1, Zenon DEF NodeTypes, NodeSlotType
  <2>5. Live(pipe) \ orphans = {slot_map[i].handle : i \in working}
    <3>1. ASSUME NEW h \in Live(pipe) \ orphans PROVE \E i \in working : h = slot_map[i].handle
      <4>1. PICK i \in DOMAIN slot_map : slot_map[i].handle = h BY <3>1, Zenon DEF Orphaned, Handle
      <4>2. h # NoHandle BY <2>3, <3>1, Zenon DEF Owned
      <4> QED BY <2>1, <4>1, <4>2, Zenon
    <3>2. ASSUME NEW i \in working PROVE slot_map[i].handle \in Live(pipe) \ orphans
      BY <2>4, <3>2, Zenon DEF Owned, Orphaned, Handle
    <3> HIDE DEF working
    <3> QED BY <3>1, <3>2, Zenon
  <2>6. \A i, j \in working : slot_map[i].handle = slot_map[j].handle => i = j
    BY <2>1, Zenon DEF Owned, Handle
  <2>7. ports = {<<slot_map[b[1]].handle, b[2]>> : b \in bound}
    <3>1. ASSUME NEW port \in ports PROVE \E b \in bound : port = <<slot_map[b[1]].handle, b[2]>>
      <4>1. PICK h \in Handles, f \in Ifaces : port = <<h, f>> BY SMT, Z3 DEF Owned
      <4>2. PICK i \in DOMAIN slot_map : slot_map[i].handle = h /\ slot_map[i].ports[f]
        BY <4>1, Zenon DEF Owned, Handle
      <4>3. i \in working BY <2>1, <2>3, <4>2, Zenon
      <4>4. <<i, f>> \in bound BY <4>2, <4>3, Zenon
      <4> WITNESS <<i, f>> \in bound
      <4> QED BY <4>1, <4>2, Zenon
    <3>2. ASSUME NEW b \in bound PROVE <<slot_map[b[1]].handle, b[2]>> \in ports
      <4>1. PICK i \in working, f \in Ifaces : b = <<i, f>> /\ slot_map[i].ports[f] BY SMTT(30), Z3
      <4> QED BY <2>4, <4>1, Zenon DEF Owned, Handle
    <3> HIDE DEF bound
    <3> QED BY <3>1, <3>2, Zenon
  <2>8. \A h \in orphans : h \in Live(pipe) /\ pipe.slots[h] = NewSlot BY Zenon DEF Orphaned
  <2>9. ports = endpoints
    <3>1. ASSUME NEW h \in Handles, NEW f \in Ifaces
          PROVE  <<h, f>> \in ports <=> h \in Live(pipe) /\ pipe.slots[h].proto[f] # NoProto
      <4>1. CASE h \in orphans
        <5>1. <<h, f>> \in ports => \E i \in DOMAIN slot_map : slot_map[i].handle = h
          BY ZenonT(30) DEF Owned, Handle
        <5>2. \A i \in DOMAIN slot_map : slot_map[i].handle # h BY <4>1, Zenon DEF Orphaned, Handle
        <5>3. pipe.slots[h] = NewSlot /\ NewSlot.proto[f] = NoProto
          BY <2>8, <4>1, Zenon DEF NewSlot
        <5> QED BY <5>1, <5>2, <5>3, Zenon
      <4>2. CASE h \notin orphans
        <5>1. h \in Live(pipe) <=> \E i \in DOMAIN slot_map : slot_map[i].handle = h
          BY <4>2, Zenon DEF Owned, Orphaned, Handle
        <5> QED BY <2>2, <2>3, <5>1, SMTT(30), Z3 DEF Owned, Handle
      <4> QED BY <4>1, <4>2, Zenon
    <3>2. ports \subseteq Handles \X Ifaces /\ Live(pipe) \subseteq Handles BY Zenon DEF Owned
    <3> QED BY <3>1, <3>2, SMTT(30), Z3
  <2>10. \A i \in DOMAIN slot_map \ working :
          slot_map[i].handle = NoHandle /\ ~\E f \in Ifaces : slot_map[i].ports[f]
    BY <2>1, <2>2, Zenon
  <2> QED BY <2>5, <2>6, <2>7, <2>8, <2>9, <2>10, ZenonT(60) DEF OwnsAll
<1> QED BY <1>1, NodeOwns, PTL

\* The mixer reads exactly the sessions of the slots that exist, and sessions_ counts
\* them, however many slots, addresses and packets there are.
THEOREM SessionsAreMixed ==
  ASSUME ~TaskInReclock
  PROVE  Spec => []SessionsMixed
<1>1. Inv => SessionsMixed BY Zenon DEF Inv, Mixed, Inputs, SessionsMixed
<1> QED BY <1>1, NodeOwns, PTL

-----------------------------------------------------------------------------
(* All slots of a receiver node use the same protocol on the same interface:  *)
(* what check_compatibility_() finds when bind() starts still holds when the  *)
(* port is opened, several tasks later.                                       *)

\* used_protocols_ names the protocol of every port, and a call that has passed
\* check_compatibility_() would still pass it.
Compatible ==
    /\ used \in [Ifaces -> Protos \union {NoProto}]
    /\ \A i \in DOMAIN slot_map, f \in Ifaces :
         slot_map[i].ports[f] => pipe.slots[slot_map[i].handle].proto[f] = used[f]
    /\ call.at \in {"resolve", "add_endpoint", "add_port"} => used[Iface] \in {NoProto, Proto}
    /\ call.at = "add_port" => pipe.slots[Slot.handle].proto[Iface] = Proto

\* A port of the node is not a new one, and has the endpoint it had.
SamePort(i, f) ==
    /\ i \in DOMAIN slot_map /\ slot_map[i].ports[f]
    /\ pipe'.slots[slot_map'[i].handle].proto[f] = pipe.slots[slot_map[i].handle].proto[f]

\* A step that opens no port, of a call that is not about to.
LEMMA CompatibleKept ==
  ASSUME Compatible, used' = used,
         \A i \in DOMAIN slot_map', f \in Ifaces : slot_map'[i].ports[f] => SamePort(i, f),
         call'.at \notin {"resolve", "add_endpoint", "add_port"}
  PROVE  Compatible'
BY SMT, Z3 DEF Compatible, SamePort

\* A step that changes nothing of a port.
LEMMA PortsKept ==
  ASSUME Inv, SameSlots, SameEndpoints(pipe, pipe')
  PROVE  /\ \A i \in DOMAIN slot_map', f \in Ifaces : slot_map'[i].ports[f] => SamePort(i, f)
         /\ \A i \in DOMAIN slot_map : slot_map[i].handle # NoHandle
              => pipe'.slots[slot_map[i].handle].proto = pipe.slots[slot_map[i].handle].proto
<1>1. \A i \in DOMAIN slot_map : slot_map[i].handle # NoHandle
        => pipe'.slots[slot_map[i].handle].proto = pipe.slots[slot_map[i].handle].proto
  BY HandleLive, Zenon DEF Inv, Ownership, SameEndpoints
<1>2. \A i \in DOMAIN slot_map, f \in Ifaces : slot_map[i].ports[f] => slot_map[i].handle # NoHandle
  BY ZenonT(30) DEF Inv, Ownership, Connected, Handle
<1> QED BY <1>1, <1>2, Zenon DEF SameSlots, SamePort

\* Steps that are not of a call.
LEMMA CompatibleElsewhere ==
  ASSUME Inv, Compatible, SameEndpoints(pipe, pipe'), UNCHANGED <<used, slot_map, call>>
  PROVE  Compatible'
<1>1. SameSlots BY Zenon DEF SameSlots
<1>2. /\ \A i \in DOMAIN slot_map, f \in Ifaces : slot_map[i].ports[f] => SamePort(i, f)
      /\ \A i \in DOMAIN slot_map : slot_map[i].handle # NoHandle
           => pipe'.slots[slot_map[i].handle].proto = pipe.slots[slot_map[i].handle].proto
  BY <1>1, PortsKept, Zenon
<1>3. call.at = "add_port" => Slot.handle # NoHandle /\ call.req.slot \in DOMAIN slot_map
  BY Zenon DEF Inv, Ownership, CallKnows, Slot, Unfinished, CallAt, Handle
<1>4. call.at = "add_port" => pipe'.slots[Slot.handle].proto = pipe.slots[Slot.handle].proto
  BY <1>2, <1>3, Zenon DEF Slot
<1>5. Slot' = Slot /\ Iface' = Iface /\ Proto' = Proto BY Zenon DEF Slot, Iface, Proto
<1> QED BY <1>2, <1>4, <1>5, SMT, Z3 DEF Compatible, SamePort

\* break_slot_() opens no port.
LEMMA CompatibleBroken ==
  ASSUME Inv, Compatible, BreakSlot, pipe' = pipe, used' = used, call.req.slot \in DOMAIN slot_map
  PROVE  Compatible'
<1>1. SameSlots BY Zenon DEF BreakSlot, SameSlots, Inv, NodeTypes, NodeSlotType
<1>2. SameEndpoints(pipe, pipe') BY Zenon DEF SameEndpoints
<1>3. call'.at = "cleanup" BY Zenon DEF BreakSlot, At
<1> QED BY <1>1, <1>2, <1>3, PortsKept, CompatibleKept, Zenon

\* The steps of a call that keep its slot as it is and do not bring it nearer to a port.
LEMMA CompatibleIdle ==
  ASSUME Inv, Compatible, UNCHANGED <<pipe, used, slot_map>>,
         call'.at \notin {"resolve", "add_endpoint", "add_port"}
  PROVE  Compatible'
<1>1. SameSlots /\ SameEndpoints(pipe, pipe') BY Zenon DEF SameSlots, SameEndpoints
<1> QED BY <1>1, PortsKept, CompatibleKept, Zenon

\* bind() up to the task that adds the endpoint.
LEMMA CompatibleBind ==
  ASSUME Inv, Compatible, Bind \/ Resolve
  PROVE  Compatible'
<1>1. call.req.slot \in DOMAIN slot_map BY Zenon DEF Bind, Resolve, Inv, Ownership, CallKnows
<1>2. pipe' = pipe /\ used' = used BY Zenon DEF Bind, Resolve
<1>3. CASE BreakSlot BY <1>1, <1>2, <1>3, CompatibleBroken, Zenon
<1>4. CASE ~BreakSlot
  <2>1. slot_map' = slot_map /\ call'.req = call.req BY <1>4, SMT, Z3 DEF Bind, Resolve, At
  <2>2. Iface' = Iface /\ Proto' = Proto BY <2>1, Zenon DEF Iface, Proto
  <2>3. CASE call'.at \notin {"resolve", "add_endpoint", "add_port"}
    BY <1>2, <2>1, <2>3, CompatibleIdle, Zenon
  <2>4. CASE call'.at \in {"resolve", "add_endpoint", "add_port"}
    <3>1. call'.at # "add_port" /\ used[Iface] \in {NoProto, Proto}
      BY <1>4, <2>4, SMT, Z3 DEF Bind, Resolve, At, check_compatibility, Compatible
    <3>2. used'[Iface'] \in {NoProto, Proto'} BY <1>2, <2>2, <3>1, Zenon
    <3> QED BY <1>2, <2>1, <3>1, <3>2, ZenonT(30) DEF Compatible
  <2> QED BY <2>3, <2>4, Zenon
<1> QED BY <1>3, <1>4, Zenon

\* The endpoint gets the protocol of the URI; an endpoint that has a port stays.
LEMMA CompatibleEndpoint ==
  ASSUME Inv, Compatible, EndAddEndpoint
  PROVE  Compatible'
<1> USE DEF Inv, Ownership
<1> DEFINE i == call.req.slot
           f == call.req.uri[1]
           h == slot_map[i].handle
<1>1. call.at = "add_endpoint" /\ used' = used BY Zenon DEF EndAddEndpoint, TaskEnd
<1>2. /\ i \in DOMAIN slot_map /\ call.req.op = "bind" /\ ~slot_map[i].broken
      /\ call.req.uri \in Ifaces \X Protos
  BY <1>1, Zenon DEF CallKnows, Slot, NodeTypes
<1>3. Slot.handle = h /\ Iface = f /\ f \in Ifaces /\ Proto \in Protos
  BY <1>2, Zenon DEF Slot, Iface, Proto
<1>4. CASE BreakSlot /\ pipe' = pipe BY <1>1, <1>2, <1>4, CompatibleBroken, SMTT(30), Z3
<1>5. CASE ~(BreakSlot /\ pipe' = pipe)
  <2>1. /\ pipe' = add_endpoint(pipe, Slot.handle, Iface, Proto)
        /\ pipe.slots[h].proto[f] = NoProto
        /\ call' = [at |-> "add_port", req |-> call.req] /\ slot_map' = slot_map
    BY <1>3, <1>5, ZenonT(60) DEF EndAddEndpoint, At, CanAddEndpoint
  <2>2. h # NoHandle BY <1>1, <1>2, Zenon DEF Unfinished, CallAt, Handle
  <2>3. h \in Live(pipe) BY <1>2, <2>2, HandleLive, Zenon
  <2>4. /\ pipe'.slots[h].proto[f] = Proto
        /\ \A g \in Ifaces \ {f} : pipe'.slots[h].proto[g] = pipe.slots[h].proto[g]
        /\ \A k \in Live(pipe) \ {h} : pipe'.slots[k].proto = pipe.slots[k].proto
    <3>1. pipe \in PipelineType BY Zenon DEF NodeTypes
    <3>2. pipe' = add_endpoint(pipe, h, f, Proto) BY <1>3, <2>1, Zenon
    <3> HIDE DEF f, h
    <3> QED BY <1>3, <2>3, <3>1, <3>2, AddEndpoint, SMT, Z3
  <2>5. ASSUME NEW j \in DOMAIN slot_map, NEW g \in Ifaces, slot_map[j].ports[g]
        PROVE  pipe'.slots[slot_map[j].handle].proto[g] = used[g]
    <3>1. slot_map[j].handle # NoHandle /\ pipe.slots[slot_map[j].handle].proto[g] # NoProto
      BY <2>5, Zenon DEF Connected, Handle
    <3>2. slot_map[j].handle \in Live(pipe) BY <3>1, HandleLive, Zenon
    <3>3. pipe.slots[slot_map[j].handle].proto[g] = used[g] BY <2>5, ZenonT(60) DEF Compatible
    <3> QED BY <2>1, <2>4, <3>1, <3>2, <3>3, ZenonT(60)
  <2>6. Slot' = Slot /\ Iface' = Iface /\ Proto' = Proto BY <2>1, ZenonT(60) DEF Slot, Iface, Proto
  <2>7. used[Iface] \in {NoProto, Proto} BY <1>1, SMTT(30), Z3 DEF Compatible
  <2>8. pipe'.slots[Slot'.handle].proto[Iface'] = Proto' BY <1>3, <2>4, <2>6, ZenonT(60)
  <2>9. used'[Iface'] \in {NoProto, Proto'} BY <1>1, <2>6, <2>7, Zenon
  <2> QED BY <1>1, <2>1, <2>5, <2>8, <2>9, ZenonT(60) DEF Compatible
<1> QED BY <1>4, <1>5, Zenon

\* The port is opened and its protocol becomes the one of the interface: it was already,
\* or no slot had a port on the interface.
LEMMA CompatiblePort ==
  ASSUME Inv, Compatible, AddPort
  PROVE  Compatible'
<1> USE DEF Inv, Ownership
<1> DEFINE i == call.req.slot
           f == call.req.uri[1]
           h == slot_map[i].handle
<1>1. call.at = "add_port" /\ pipe' = pipe BY Zenon DEF AddPort
<1>2. /\ i \in DOMAIN slot_map /\ call.req.op = "bind"
      /\ call.req.uri \in Ifaces \X Protos
  BY <1>1, Zenon DEF CallKnows, Slot, NodeTypes
<1>3. Slot.handle = h /\ Iface = f /\ f \in Ifaces /\ Proto \in Protos
  BY <1>2, Zenon DEF Slot, Iface, Proto
<1>4. CASE BreakSlot /\ used' = used BY <1>1, <1>2, <1>4, CompatibleBroken, SMTT(30), Z3
<1>5. CASE ~(BreakSlot /\ used' = used)
  <2>1. /\ slot_map' = [slot_map EXCEPT ![i].ports[f] = TRUE]
        /\ used' = [used EXCEPT ![f] = Proto] /\ call'.at = "return"
    BY <1>3, <1>5, SMT, Z3 DEF AddPort, update_compatibility, At
  <2>2. PortSet(slot_map, slot_map', i, f, TRUE)
    <3>1. slot_map \in [DOMAIN slot_map -> NodeSlotType] BY Zenon DEF NodeTypes
    <3>2. PortSet(slot_map, [slot_map EXCEPT ![i].ports[f] = TRUE], i, f, TRUE)
      BY <1>2, <1>3, <3>1, SetPort, ZenonT(60)
    <3> QED BY <2>1, <3>2, Zenon
  <2>3. used[f] \in {NoProto, Proto} /\ pipe.slots[h].proto[f] = Proto
    BY <1>1, <1>3, Zenon DEF Compatible
  <2>4. /\ used' \in [Ifaces -> Protos \union {NoProto}]
        /\ used'[f] = Proto /\ \A g \in Ifaces \ {f} : used'[g] = used[g]
    BY <1>3, <2>1, ZenonT(60) DEF Compatible
  <2>5. ASSUME NEW j \in DOMAIN slot_map', NEW g \in Ifaces, slot_map'[j].ports[g]
        PROVE  pipe'.slots[slot_map'[j].handle].proto[g] = used'[g]
    <3>1. j \in DOMAIN slot_map /\ slot_map'[j].handle = slot_map[j].handle BY <2>2, SMTT(30), Z3 DEF PortSet
    <3>2. CASE j = i /\ g = f BY <1>1, <2>3, <2>4, <3>1, <3>2, ZenonT(60)
    <3>3. CASE ~(j = i /\ g = f)
      <4>1. slot_map[j].ports[g] BY <2>2, <2>5, <3>1, <3>3, Zenon DEF PortSet
      <4>2. /\ pipe.slots[slot_map[j].handle].proto[g] = used[g]
            /\ pipe.slots[slot_map[j].handle].proto[g] # NoProto
        BY <3>1, <4>1, Zenon DEF Compatible, Connected, Handle
      <4> QED BY <1>1, <2>3, <2>4, <3>1, <4>2, ZenonT(60)
    <3> QED BY <3>2, <3>3, Zenon
  <2> QED BY <2>1, <2>4, <2>5, ZenonT(60) DEF Compatible
<1> QED BY <1>4, <1>5, Zenon

\* Ports are closed, slots go and come: no port is opened.
LEMMA CompatibleCleanup ==
  ASSUME Inv, Compatible, RemovePort \/ CleanupDone \/ EndDeleteSlot
  PROVE  Compatible'
<1> USE DEF Inv, Ownership
<1> DEFINE i == call.req.slot
<1>1. i \in DOMAIN slot_map BY Zenon DEF RemovePort, CleanupDone, EndDeleteSlot, CallKnows
<1>2. /\ used' = used
      /\ call'.at \notin {"resolve", "add_endpoint", "add_port"}
  BY SMT, Z3 DEF RemovePort, CleanupDone, EndDeleteSlot, TaskEnd, At
<1>3. slot_map \in [DOMAIN slot_map -> NodeSlotType] BY Zenon DEF NodeTypes
<1>4. CASE RemovePort
  <2> DEFINE f == FirstIface(OpenPorts)
  <2>1. pipe' = pipe /\ slot_map' = [slot_map EXCEPT ![i].ports[f] = FALSE]
    BY <1>4, Zenon DEF RemovePort
  <2>2. f \in Ifaces BY <1>4, FirstIsOne, Zenon DEF RemovePort, OpenPorts
  <2> HIDE DEF f
  <2>3. PortSet(slot_map, [slot_map EXCEPT ![i].ports[f] = FALSE], i, f, FALSE)
    BY <1>1, <1>3, <2>2, SetPort, Zenon
  <2>4. PortSet(slot_map, slot_map', i, f, FALSE) BY <2>1, <2>3, ZenonT(60)
  <2>5. \A j \in DOMAIN slot_map', g \in Ifaces : slot_map'[j].ports[g] => SamePort(j, g)
    BY <2>1, <2>4, SMT, Z3 DEF PortSet, SamePort
  <2> QED BY <1>2, <2>5, CompatibleKept, Zenon
<1>5. CASE CleanupDone
  <2>1. /\ DOMAIN slot_map' \subseteq DOMAIN slot_map /\ pipe' = pipe
        /\ \A j \in DOMAIN slot_map' : slot_map'[j] = slot_map[j]
    BY <1>3, <1>5, Zenon DEF CleanupDone, Restrict
  <2>2. \A j \in DOMAIN slot_map', g \in Ifaces : slot_map'[j].ports[g] => SamePort(j, g)
    BY <2>1, Zenon DEF SamePort
  <2> QED BY <1>2, <2>2, CompatibleKept
<1>6. CASE EndDeleteSlot
  <2> DEFINE h == slot_map[i].handle
  <2>1. /\ pipe' = delete_slot(pipe, h)
        /\ slot_map' = [slot_map EXCEPT ![i].handle = NoHandle]
        /\ call.at = "delete_slot"
    BY <1>6, Zenon DEF EndDeleteSlot, Slot
  <2>2. h # NoHandle /\ \A f \in Ifaces : ~slot_map[i].ports[f]
    BY <2>1, Zenon DEF CallKnows, OpenPorts, Slot
  <2>3. h \in Live(pipe) BY <1>1, <2>2, HandleLive, ZenonT(60)
  <2>4. /\ Live(pipe') = Live(pipe) \ {h}
        /\ \A g \in Live(pipe') : pipe'.slots[g].proto = pipe.slots[g].proto
    BY <2>1, <2>3, DeleteSlot, SMT, Z3 DEF NodeTypes
  <2>5. /\ DOMAIN slot_map' = DOMAIN slot_map
        /\ \A j \in DOMAIN slot_map : slot_map'[j].ports = slot_map[j].ports
        /\ \A j \in DOMAIN slot_map \ {i} : slot_map'[j].handle = slot_map[j].handle
    BY <1>1, <1>3, <2>1, Zenon DEF NodeSlotType
  <2>6. ASSUME NEW j \in DOMAIN slot_map', NEW g \in Ifaces, slot_map'[j].ports[g]
        PROVE  SamePort(j, g)
    <3>1. j \in DOMAIN slot_map \ {i} /\ slot_map[j].ports[g] BY <2>2, <2>5, <2>6, Zenon
    <3>2. slot_map[j].handle # NoHandle BY <3>1, Zenon DEF Connected, Handle
    <3>3. slot_map[j].handle \in Live(pipe) \ {h}
      BY <1>1, <3>1, <3>2, HandleLive, Zenon DEF Owned, Handle
    <3> QED BY <2>4, <2>5, <3>1, <3>3, Zenon DEF SamePort
  <2> QED BY <1>2, <2>6, CompatibleKept, Zenon
<1> QED BY <1>4, <1>5, <1>6, Zenon

\* A new slot has no port.
LEMMA CompatibleCreate ==
  ASSUME Inv, Compatible, NEW outcome \in SlotOutcomes,
         EndCreateSlot(outcome)
  PROVE  Compatible'
<1> USE DEF Inv, Ownership
<1>1. used' = used /\ call.at = "create_slot" /\ call'.at \in {"found", "return"}
  BY SMT, Z3 DEF EndCreateSlot, TaskEnd, At
<1>2. CASE outcome = "failed" BY <1>1, <1>2, CompatibleIdle, Zenon DEF EndCreateSlot
<1>3. CASE outcome = "leak"
  <2>1. slot_map' = slot_map BY <1>3, Zenon DEF EndCreateSlot
  <2>2. PICK h \in Handles \ Live(pipe) : pipe' = create_slot(pipe, h)
    BY <1>3, Zenon DEF EndCreateSlot
  <2>3. \A g \in Live(pipe) : pipe'.slots[g] = pipe.slots[g]
    BY <2>2, CreateSlot, SMT, Z3 DEF NodeTypes
  <2>4. ASSUME NEW j \in DOMAIN slot_map', NEW g \in Ifaces, slot_map'[j].ports[g]
        PROVE  SamePort(j, g)
    <3>1. slot_map[j].handle # NoHandle BY <2>1, <2>4, Zenon DEF Connected, Handle
    <3>2. slot_map[j].handle \in Live(pipe) BY <2>1, <3>1, HandleLive, Zenon
    <3> QED BY <2>1, <2>3, <2>4, <3>2, Zenon DEF SamePort
  <2> QED BY <1>1, <2>4, CompatibleKept, Zenon
<1>4. CASE outcome = "created"
  <2>1. PICK h \in Handles \ Live(pipe) :
          /\ pipe' = create_slot(pipe, h)
          /\ slot_map' = With(slot_map, call.req.slot,
                              [handle |-> h, broken |-> FALSE, ports |-> [f \in Ifaces |-> FALSE]])
    BY <1>4, Zenon DEF EndCreateSlot
  <2>2. \A g \in Live(pipe) : pipe'.slots[g] = pipe.slots[g]
    BY <2>1, CreateSlot, SMT, Z3 DEF NodeTypes
  <2>3. call.req.slot \notin DOMAIN slot_map BY <1>1, Zenon DEF CallKnows
  <2>4. /\ DOMAIN slot_map' = DOMAIN slot_map \union {call.req.slot}
        /\ \A j \in DOMAIN slot_map : slot_map'[j] = slot_map[j]
        /\ \A f \in Ifaces : ~slot_map'[call.req.slot].ports[f]
    BY <2>1, <2>3, Zenon DEF With
  <2>5. ASSUME NEW j \in DOMAIN slot_map', NEW g \in Ifaces, slot_map'[j].ports[g]
        PROVE  SamePort(j, g)
    <3>1. j \in DOMAIN slot_map /\ slot_map[j].ports[g] /\ slot_map'[j] = slot_map[j]
      BY <2>4, <2>5, Zenon
    <3>2. slot_map[j].handle # NoHandle BY <3>1, Zenon DEF Connected, Handle
    <3>3. slot_map[j].handle \in Live(pipe) BY <3>1, <3>2, HandleLive, Zenon
    <3> QED BY <2>2, <3>1, <3>3, Zenon DEF SamePort
  <2> QED BY <1>1, <2>5, CompatibleKept, Zenon
<1> QED BY <1>2, <1>3, <1>4, Zenon DEF SlotOutcomes

\* The steps of the calls.
LEMMA CompatibleUser ==
  ASSUME Inv, Compatible, UserStep \/ \E req \in Requests : Begin(req)
  PROVE  Compatible'
<1>1. ASSUME NEW req \in Requests, Begin(req) PROVE Compatible'
  <2>1. call'.at \in {"destroy", "found", "create_slot", "return"} BY <1>1, Zenon DEF Begin
  <2> QED BY <1>1, <2>1, CompatibleIdle, Zenon DEF Begin
<1>2. CASE Return BY <1>2, CompatibleIdle, Zenon DEF Return, CallIdle
<1>3. CASE Configure
  <2>1. call.req.slot \in DOMAIN slot_map BY <1>3, Zenon DEF Configure, Inv, Ownership, CallKnows
  <2>2. CASE BreakSlot BY <1>3, <2>1, <2>2, CompatibleBroken, Zenon DEF Configure
  <2>3. CASE ~BreakSlot BY <1>3, <2>3, CompatibleIdle, SMT, Z3 DEF Configure, At
  <2> QED BY <2>2, <2>3, Zenon
<1>4. CASE Bind \/ Resolve BY <1>4, CompatibleBind, Zenon
<1>5. CASE AddPort BY <1>5, CompatiblePort, Zenon
<1>6. CASE Unlink BY <1>6, CompatibleIdle, Zenon DEF Unlink, At
<1>7. CASE GetMetrics BY <1>7, CompatibleIdle, SMT, Z3 DEF GetMetrics, At
<1>8. CASE CleanupHandle BY <1>8, CompatibleIdle, Zenon DEF CleanupHandle, At
<1>9. CASE RemovePort \/ CleanupDone \/ EndDeleteSlot BY <1>9, CompatibleCleanup, Zenon
<1>10. CASE Destroy BY <1>10, CompatibleIdle, SMT, Z3 DEF Destroy, At
<1>11. CASE TaskBegin BY <1>11, CompatibleElsewhere, Zenon DEF TaskBegin, SameEndpoints
<1>12. CASE EndAddEndpoint BY <1>12, CompatibleEndpoint
<1>13. CASE EndQuerySlot BY <1>13, CompatibleIdle, Zenon DEF EndQuerySlot, TaskEnd, At
<1>14. ASSUME NEW outcome \in SlotOutcomes, EndCreateSlot(outcome) PROVE Compatible'
  BY <1>14, CompatibleCreate, Zenon
<1> QED
  BY <1>1, <1>2, <1>3, <1>4, <1>5, <1>6, <1>7, <1>8, <1>9, <1>10, <1>11, <1>12, <1>13, <1>14, SMTT(30), Z3
  DEF UserStep

\* "same interface of all slots should use same protocols" (receiver.cpp, sender.cpp): two
\* ports on the same interface, of whichever slots and however many calls later, were
\* bound with the same protocol.
THEOREM ProtocolsAgree ==
  ASSUME ~TaskInReclock
  PROVE  Spec => []SameProtocols
<1>1. Init => Compatible
  <2> SUFFICES ASSUME Init PROVE Compatible BY Zenon
  <2>1. DOMAIN slot_map = {} /\ call.at = "idle" BY SMT, Z3 DEF Init, CallIdle
  <2> QED BY <2>1, Zenon DEF Init, Compatible
<1>2. Inv /\ Compatible /\ [Next]_vars => Compatible'
  <2> SUFFICES ASSUME Inv, Compatible, [Next]_vars PROVE Compatible' BY Zenon
  <2>1. CASE UNCHANGED vars BY <2>1, CompatibleElsewhere, Zenon DEF vars, SameEndpoints
  <2>2. CASE UserStep \/ \E req \in Requests : Begin(req) BY <2>2, CompatibleUser, Zenon
  <2>3. CASE ReaderStep \/ WriteEnd
               \/ \E port \in ports, packet \in Packets : WriteBegin(port, packet)
    BY <2>3, EndpointsKept, CompatibleElsewhere, Zenon
  <2> QED BY <2>1, <2>2, <2>3, Zenon DEF Next
<1>3. Inv /\ Compatible => SameProtocols
  <2> SUFFICES ASSUME Inv, Compatible, NEW port \in ports
               PROVE  pipe.slots[port[1]].proto[port[2]] = used[port[2]]
    BY Zenon DEF SameProtocols
  <2>1. PICK h \in Handles, f \in Ifaces : port = <<h, f>> BY SMT, Z3 DEF Inv, Ownership, Owned
  <2>2. PICK i \in DOMAIN slot_map : slot_map[i].handle = h /\ slot_map[i].ports[f]
    BY <2>1, Zenon DEF Inv, Ownership, Owned, Handle
  <2> QED BY <2>1, <2>2, Zenon DEF Compatible
<1> QED BY <1>1, <1>2, <1>3, NodeOwns, PTL DEF Spec

-----------------------------------------------------------------------------
(* A receiver that says it is idle is empty, and its counters never go below  *)
(* zero: pending_packets_ counts at least the packets that are queued and the *)
(* one that the network thread is about to queue.                             *)

\* How many packets are queued at an endpoint.
Depth(p, e) == Len(p.slots[e[1]].queue[e[2]])

\* The places that packets take in the queues of a pipeline.
Queued(p) == UNION {{e} \X (1 .. Depth(p, e)) : e \in Live(p) \X Ifaces}

\* The packets that are queued, or will be, are counted. (A packet that could not be
\* parsed, and those that were queued when their slot was destroyed, still are.)
Counted ==
    /\ IsFiniteSet(Queued(pipe))
    /\ Cardinality(Queued(pipe)) + (IF net.at = "push" THEN 1 ELSE 0) <= pipe.pending

\* A task is made from a null handle by get_metrics() of a broken slot only.
Checked == call.at = "panic" => call.req.op = "get_metrics" /\ Slot.broken

\* A place is a pair of an endpoint and a number up to the depth of its queue.
LEMMA QueuedPlaces ==
  ASSUME NEW p
  PROVE  /\ \A e \in Live(p) \X Ifaces : \A i \in 1 .. Depth(p, e) : <<e, i>> \in Queued(p)
         /\ \A w \in Queued(p) :
              \E e \in Live(p) \X Ifaces : \E i \in 1 .. Depth(p, e) : w = <<e, i>>
<1>1. ASSUME NEW e \in Live(p) \X Ifaces, NEW i \in 1 .. Depth(p, e) PROVE <<e, i>> \in Queued(p)
  <2> DEFINE places == 1 .. Depth(p, e)
  <2>1. <<e, i>> \in {e} \X places BY Zenon
  <2> QED BY <2>1, Zenon DEF Queued
<1>2. ASSUME NEW w \in Queued(p)
      PROVE  \E e \in Live(p) \X Ifaces : \E i \in 1 .. Depth(p, e) : w = <<e, i>>
  <2>0. \E S \in {{e} \X (1 .. Depth(p, e)) : e \in Live(p) \X Ifaces} : w \in S BY Zenon DEF Queued
  <2>1. PICK e \in Live(p) \X Ifaces : w \in {e} \X (1 .. Depth(p, e)) BY <2>0, Zenon
  <2> DEFINE places == 1 .. Depth(p, e)
  <2>2. w \in {e} \X places BY <2>1, Zenon
  <2> HIDE DEF places
  <2>3. w[1] = e /\ w[2] \in places /\ w = <<w[1], w[2]>> BY <2>2, SMT, Z3
  <2> QED BY <2>3, Zenon DEF places
<1> QED BY <1>1, <1>2, Zenon

\* The endpoints of a pipeline, and how deep their queues may be.
LEMMA DepthType ==
  ASSUME NEW p \in PipelineType, NEW e \in Live(p) \X Ifaces
  PROVE  Depth(p, e) \in Nat
<1>1. e[1] \in Live(p) /\ e[2] \in Ifaces BY Zenon
<1>2. p.slots[e[1]].queue[e[2]] \in Seq(Packets) BY <1>1, PipelineSlots, SMT, Z3 DEF SlotType
<1> QED BY <1>2, SMT, Z3 DEF Depth

\* Queues that are not longer have no other places.
LEMMA QueuedLess ==
  ASSUME NEW p \in PipelineType, NEW q \in PipelineType,
         \A e \in Live(q) \X Ifaces :
           Depth(q, e) = 0 \/ (e \in Live(p) \X Ifaces /\ Depth(q, e) <= Depth(p, e))
  PROVE  Queued(q) \subseteq Queued(p)
<1>1. ASSUME NEW e \in Live(q) \X Ifaces, NEW i \in 1 .. Depth(q, e)
      PROVE  <<e, i>> \in Queued(p)
  <2>1. e \in Live(p) \X Ifaces /\ Depth(q, e) <= Depth(p, e) BY SMT, Z3
  <2>2. Depth(p, e) \in Nat /\ Depth(q, e) \in Nat BY <2>1, DepthType, Zenon
  <2>3. i \in 1 .. Depth(p, e) BY <2>1, <2>2, SMT, Z3
  <2> QED BY <2>1, <2>3, QueuedPlaces, Zenon
<1>2. ASSUME NEW w \in Queued(q) PROVE w \in Queued(p)
  <2>1. PICK e \in Live(q) \X Ifaces : \E i \in 1 .. Depth(q, e) : w = <<e, i>> BY QueuedPlaces, SMT, Z3
  <2> QED BY <1>1, <2>1, Zenon
<1> QED BY <1>2, Zenon

\* A queue that is longer by a packet has one more place.
LEMMA QueuedMore ==
  ASSUME NEW p \in PipelineType, NEW q \in PipelineType, Live(q) = Live(p),
         NEW d \in Live(p) \X Ifaces, Depth(q, d) = Depth(p, d) + 1,
         \A e \in (Live(p) \X Ifaces) \ {d} : Depth(q, e) = Depth(p, e)
  PROVE  /\ IsFiniteSet(Queued(p)) <=> IsFiniteSet(Queued(q))
         /\ IsFiniteSet(Queued(p)) => Cardinality(Queued(q)) = Cardinality(Queued(p)) + 1
<1> DEFINE last == <<d, Depth(q, d)>>
<1>1. Depth(p, d) \in Nat /\ Depth(q, d) \in Nat BY DepthType, Zenon
<1>2. \A e \in Live(q) \X Ifaces : Depth(p, e) <= Depth(q, e) BY <1>1, DepthType, SMT, Z3
<1>3. Queued(p) \subseteq Queued(q) BY <1>2, QueuedLess, Zenon
<1>4. last \in Queued(q)
  <2>1. Depth(q, d) \in 1 .. Depth(q, d) BY <1>1, SMT, Z3
  <2> QED BY <2>1, QueuedPlaces, Zenon
<1>5. last \notin Queued(p)
  <2>1. Depth(q, d) \notin 1 .. Depth(p, d) BY <1>1, SMT, Z3
  <2> SUFFICES ASSUME last \in Queued(p) PROVE FALSE BY Zenon
  <2>2. PICK e \in Live(p) \X Ifaces : \E i \in 1 .. Depth(p, e) : last = <<e, i>> BY QueuedPlaces, Zenon
  <2>3. PICK i \in 1 .. Depth(p, e) : last = <<e, i>> BY <2>2, Zenon
  <2>4. e = d /\ i = Depth(q, d) BY <2>3, Zenon
  <2> QED BY <2>1, <2>3, <2>4, Zenon
<1>6. ASSUME NEW e \in Live(q) \X Ifaces, NEW i \in 1 .. Depth(q, e), <<e, i>> # last
      PROVE  <<e, i>> \in Queued(p)
  <2>1. i \in 1 .. Depth(p, e)
    <3>1. CASE e = d BY <1>1, <1>6, <3>1, SMT, Z3
    <3>2. CASE e # d BY <3>2, Zenon
    <3> QED BY <3>1, <3>2, Zenon
  <2> QED BY <2>1, QueuedPlaces, Zenon
<1>7. ASSUME NEW w \in Queued(q) PROVE w \in Queued(p) \union {last}
  <2>1. PICK e \in Live(q) \X Ifaces : \E i \in 1 .. Depth(q, e) : w = <<e, i>> BY QueuedPlaces, SMT, Z3
  <2> HIDE DEF last
  <2> QED BY <1>6, <2>1, Zenon
<1>8. Queued(q) = Queued(p) \union {last} BY <1>3, <1>4, <1>7, Zenon
<1> HIDE DEF last
<1>9. IsFiniteSet(Queued(q)) => IsFiniteSet(Queued(p)) BY <1>3, FS_Subset, Zenon
<1>10. IsFiniteSet(Queued(p))
         => IsFiniteSet(Queued(q)) /\ Cardinality(Queued(q)) = Cardinality(Queued(p)) + 1
  BY <1>5, <1>8, FS_AddElement, Zenon
<1> QED BY <1>9, <1>10, Zenon

\* A packet is queued behind the others.
LEMMA PushDepth ==
  ASSUME NEW p \in PipelineType, NEW h \in Live(p), NEW f \in Ifaces, NEW packet \in Packets,
         NEW q, q = PushPacket(p, h, f, packet)
  PROVE  /\ q.pending = p.pending
         /\ Depth(q, <<h, f>>) = Depth(p, <<h, f>>) + 1
         /\ \A e \in (Live(p) \X Ifaces) \ {<<h, f>>} : Depth(q, e) = Depth(p, e)
<1> DEFINE queue == p.slots[h].queue[f]
           slots == [p.slots EXCEPT ![h].queue[f] = Append(queue, packet)]
<1>1. p.slots \in [Live(p) -> SlotType] /\ queue \in Seq(Packets) BY PipelineSlots, SMT, Z3 DEF SlotType
<1>2. q.slots = slots /\ q.pending = p.pending BY Zenon DEF PushPacket, PipelineType
<1>3. /\ slots[h].queue[f] = Append(queue, packet)
      /\ \A g \in Live(p), i \in Ifaces : ~(g = h /\ i = f) => slots[g].queue[i] = p.slots[g].queue[i]
  BY <1>1, Zenon DEF SlotType
<1>4. Len(Append(queue, packet)) = Len(queue) + 1 BY <1>1, SMT, Z3
<1> HIDE DEF slots
<1>5. ASSUME NEW e \in (Live(p) \X Ifaces) \ {<<h, f>>} PROVE Depth(q, e) = Depth(p, e)
  <2>1. e[1] \in Live(p) /\ e[2] \in Ifaces /\ ~(e[1] = h /\ e[2] = f) BY SMT, Z3
  <2> QED BY <1>2, <1>3, <2>1, Zenon DEF Depth
<1>6. Depth(q, <<h, f>>) = Depth(p, <<h, f>>) + 1 BY <1>2, <1>3, <1>4, Zenon DEF Depth
<1> QED BY <1>2, <1>5, <1>6, Zenon

\* A packet leaves its queue, and is uncounted or not.
LEMMA PullDepth ==
  ASSUME NEW p \in PipelineType, NEW h \in Live(p), NEW f \in Ifaces, p.slots[h].queue[f] # <<>>,
         NEW creatable \in BOOLEAN, NEW q, q = pull_packet(p, h, f, creatable)
  PROVE  /\ q.pending \in {p.pending, p.pending - 1}
         /\ Depth(p, <<h, f>>) = Depth(q, <<h, f>>) + 1
         /\ \A e \in (Live(p) \X Ifaces) \ {<<h, f>>} : Depth(q, e) = Depth(p, e)
<1>0. p.slots \in [Live(p) -> SlotType] BY PipelineSlots, Zenon
<1> DEFINE queue == p.slots[h].queue[f]
           slots == [p.slots EXCEPT ![h].queue[f] = Tail(queue)]
           popped == [p EXCEPT !.slots = slots]
           routed == route_packet(popped, h, f, Head(queue), creatable)
<1>1. p.slots \in [Live(p) -> SlotType] /\ queue \in Seq(Packets) BY <1>0, Zenon DEF SlotType
<1>2. popped.slots = slots /\ popped.pending = p.pending BY Zenon DEF PipelineType
<1>3. /\ slots \in [Live(p) -> SlotType]
      /\ slots[h].queue[f] = Tail(queue)
      /\ \A g \in Live(p), i \in Ifaces : ~(g = h /\ i = f) => slots[g].queue[i] = p.slots[g].queue[i]
  <2>1. Tail(queue) \in Seq(Packets) BY <1>1, SMT, Z3
  <2> QED BY <1>1, <2>1, ZenonT(60) DEF SlotType
<1>4. Len(Tail(queue)) + 1 = Len(queue) BY <1>1, SMT, Z3
<1>5. q = IF Head(queue).parses THEN [routed EXCEPT !.pending = @ - 1] ELSE popped
  BY Zenon DEF pull_packet
<1> HIDE DEF slots
<1>6. /\ routed.pending = p.pending
      /\ \A g \in Live(p) : routed.slots[g].queue = slots[g].queue
      /\ [routed EXCEPT !.pending = @ - 1].pending = routed.pending - 1
      /\ [routed EXCEPT !.pending = @ - 1].slots = routed.slots
  <2> DEFINE made == [slots EXCEPT ![h].sessions = @ \union {Head(queue).source}]
  <2>1. \A g \in Live(p) : made[g].queue = slots[g].queue BY <1>3, Zenon DEF SlotType
  <2> HIDE DEF made
  <2>2. CASE routed = popped BY <1>2, <2>2, Zenon DEF PipelineType
  <2>3. CASE routed = create_session(popped, h, Head(queue).source)
    <3>1. routed = [slots |-> made, pending |-> p.pending, sessions |-> popped.sessions + 1,
                    mixer |-> popped.mixer \union {<<h, Head(queue).source>>}]
      BY <1>2, <2>3, Zenon DEF create_session, made
    <3> HIDE DEF routed
    <3> QED BY <2>1, <3>1, SMT, Z3
  <2> QED BY <2>2, <2>3, Zenon DEF route_packet
<1> HIDE DEF routed, popped
<1>7. /\ q.pending \in {p.pending, p.pending - 1}
      /\ \A g \in Live(p) : q.slots[g].queue = slots[g].queue
  BY <1>2, <1>5, <1>6, Zenon
<1>8. ASSUME NEW e \in (Live(p) \X Ifaces) \ {<<h, f>>} PROVE Depth(q, e) = Depth(p, e)
  <2>1. e[1] \in Live(p) /\ e[2] \in Ifaces /\ ~(e[1] = h /\ e[2] = f) BY SMT, Z3
  <2>2. q.slots[e[1]].queue[e[2]] = p.slots[e[1]].queue[e[2]] BY <1>3, <1>7, <2>1, SMT, Z3
  <2> QED BY <2>2, Zenon DEF Depth
<1>9. Depth(p, <<h, f>>) = Depth(q, <<h, f>>) + 1 BY <1>3, <1>4, <1>7, Zenon DEF Depth
<1> QED BY <1>7, <1>8, <1>9, Zenon

\* The other operations of the pipeline queue nothing: a slot's queues are as they were, or
\* new and empty.
QueuesKept(p, q) ==
    /\ q.pending = p.pending
    /\ \A h \in Live(q) : \/ h \in Live(p) /\ q.slots[h].queue = p.slots[h].queue
                          \/ \A f \in Ifaces : q.slots[h].queue[f] = <<>>

\* A new slot, and a new endpoint, have no packets.
LEMMA QueuesAdded ==
  ASSUME NEW p \in PipelineType, NEW q,
         \/ \E h \in Handles \ Live(p) : q = create_slot(p, h)
         \/ \E h \in Live(p), f \in Ifaces, proto \in Protos : q = add_endpoint(p, h, f, proto)
  PROVE  QueuesKept(p, q)
<1>1. p.slots \in [Live(p) -> SlotType] BY PipelineSlots, Zenon
<1>2. ASSUME NEW h \in Handles \ Live(p), q = create_slot(p, h) PROVE QueuesKept(p, q)
  <2>1. q.slots = With(p.slots, h, NewSlot) /\ q.pending = p.pending
    BY <1>2, Zenon DEF create_slot, PipelineType
  <2>2. Live(q) = Live(p) \union {h} BY <2>1, Zenon DEF With, Live
  <2>3. q.slots[h] = NewSlot /\ \A g \in Live(p) : q.slots[g] = p.slots[g]
    BY <2>1, Zenon DEF With, Live
  <2>4. \A f \in Ifaces : NewSlot.queue[f] = <<>> BY Zenon DEF NewSlot
  <2> QED BY <2>1, <2>2, <2>3, <2>4, Zenon DEF QueuesKept
<1>3. ASSUME NEW h \in Live(p), NEW f \in Ifaces, NEW proto \in Protos, q = add_endpoint(p, h, f, proto)
      PROVE  QueuesKept(p, q)
  <2> DEFINE slots == [p.slots EXCEPT ![h].proto[f] = proto]
  <2>1. q.slots = slots /\ q.pending = p.pending BY <1>3, Zenon DEF add_endpoint, PipelineType
  <2>2. DOMAIN slots = Live(p) /\ \A g \in Live(p) : slots[g].queue = p.slots[g].queue
    BY <1>1, Zenon DEF SlotType
  <2> HIDE DEF slots
  <2> QED BY <2>1, <2>2, Zenon DEF QueuesKept, Live
<1> QED BY <1>2, <1>3, Zenon

\* Sessions end without their packets.
LEMMA QueuesLeft ==
  ASSUME NEW p \in PipelineType, NEW h \in Live(p), NEW gone, NEW q, q = remove_sessions(p, h, gone)
  PROVE  QueuesKept(p, q) /\ Live(q) = Live(p)
<1> DEFINE slots == [p.slots EXCEPT ![h].sessions = @ \ gone]
<1>1. p.slots \in [Live(p) -> SlotType] BY PipelineSlots, Zenon
<1>2. q.slots = slots /\ q.pending = p.pending BY Zenon DEF remove_sessions
<1>3. DOMAIN slots = Live(p) /\ \A g \in Live(p) : slots[g].queue = p.slots[g].queue
  BY <1>1, Zenon DEF SlotType
<1> HIDE DEF slots
<1> QED BY <1>2, <1>3, Zenon DEF QueuesKept, Live

\* A slot ends with its packets, which stay counted.
LEMMA QueuesDeleted ==
  ASSUME NEW p \in PipelineType, NEW h \in Live(p), NEW q, q = delete_slot(p, h)
  PROVE  QueuesKept(p, q)
<1> DEFINE r == remove_sessions(p, h, p.slots[h].sessions)
<1>1. QueuesKept(p, r) /\ Live(r) = Live(p) BY QueuesLeft, SMT, Z3
<1>2. \A g \in Live(p) : r.slots[g].queue = p.slots[g].queue \/ \A f \in Ifaces : r.slots[g].queue[f] = <<>>
  BY <1>1, Zenon DEF QueuesKept
<1>3. r.pending = p.pending BY <1>1, Zenon DEF QueuesKept
<1>4. q = [r EXCEPT !.slots = Restrict(r.slots, Live(p) \ {h})] BY Zenon DEF delete_slot
<1>5. r \in PipelineType BY RemoveSessions, Zenon
<1> HIDE DEF r
<1>6. q.slots = Restrict(r.slots, Live(p) \ {h}) /\ q.pending = r.pending
  BY <1>4, <1>5, Zenon DEF PipelineType
<1>7. Live(q) = Live(p) \ {h} /\ \A g \in Live(q) : q.slots[g] = r.slots[g]
  BY <1>6, Zenon DEF Restrict, Live
<1>8. ASSUME NEW g \in Live(q)
      PROVE  \/ g \in Live(p) /\ q.slots[g].queue = p.slots[g].queue
             \/ \A f \in Ifaces : q.slots[g].queue[f] = <<>>
  <2>1. g \in Live(p) /\ q.slots[g] = r.slots[g] BY <1>7, Zenon
  <2> QED BY <1>2, <2>1, Zenon
<1> QED BY <1>3, <1>6, <1>8, Zenon DEF QueuesKept

\* What queues nothing keeps the packets counted.
LEMMA CountedKept ==
  ASSUME Counted, pipe \in PipelineType, pipe' \in PipelineType, QueuesKept(pipe, pipe'),
         net'.at = net.at
  PROVE  Counted'
<1> DEFINE old == Queued(pipe)
           new == Queued(pipe')
<1>1. \A e \in Live(pipe') \X Ifaces :
        Depth(pipe', e) = 0 \/ (e \in Live(pipe) \X Ifaces /\ Depth(pipe', e) <= Depth(pipe, e))
  <2> SUFFICES ASSUME NEW e \in Live(pipe') \X Ifaces
               PROVE  Depth(pipe', e) = 0
                      \/ (e \in Live(pipe) \X Ifaces /\ Depth(pipe', e) <= Depth(pipe, e))
    BY Zenon
  <2>1. e[1] \in Live(pipe') /\ e[2] \in Ifaces BY Zenon
  <2>2. CASE e[1] \in Live(pipe) /\ pipe'.slots[e[1]].queue = pipe.slots[e[1]].queue
    <3>1. e \in Live(pipe) \X Ifaces BY <2>2, Zenon
    <3>2. Depth(pipe', e) = Depth(pipe, e) BY <2>2, Zenon DEF Depth
    <3> QED BY <3>1, <3>2, DepthType, SMT, Z3
  <2>3. CASE pipe'.slots[e[1]].queue[e[2]] = <<>> BY <2>3, Zenon DEF Depth
  <2> QED BY <2>1, <2>2, <2>3, Zenon DEF QueuesKept
<1>2. new \subseteq old BY <1>1, QueuedLess, Zenon
<1>3. IsFiniteSet(old) /\ Cardinality(old) + (IF net.at = "push" THEN 1 ELSE 0) <= pipe.pending
  BY Zenon DEF Counted
<1> HIDE DEF old, new
<1>4. IsFiniteSet(new) /\ Cardinality(new) <= Cardinality(old) BY <1>2, <1>3, FS_Subset, Zenon
<1>5. Cardinality(new) \in Nat /\ Cardinality(old) \in Nat BY <1>3, <1>4, FS_CardinalityType, Zenon
<1>6. pipe.pending \in Int /\ pipe'.pending = pipe.pending BY Zenon DEF PipelineType, QueuesKept
<1>7. Cardinality(new) + (IF net.at = "push" THEN 1 ELSE 0) <= pipe.pending
  BY <1>3, <1>4, <1>5, <1>6, SMT, Z3
<1> QED BY <1>4, <1>6, <1>7, Zenon DEF Counted, new

\* The steps of calls queue no packets.
LEMMA UserCounted ==
  ASSUME Inv, Inv', Counted, UserStep \/ \E req \in Requests : Begin(req)
  PROVE  Counted'
<1> USE DEF nodeUnchanged
<1>1. pipe \in PipelineType /\ pipe' \in PipelineType BY Zenon DEF Inv, NodeTypes
<1>2. SUFFICES net' = net /\ QueuesKept(pipe, pipe') BY <1>1, CountedKept, Zenon
<1>3. CASE pipe' = pipe /\ net' = net BY <1>3, Zenon DEF QueuesKept
<1>4. CASE EndAddEndpoint
  <2>1. call.at = "add_endpoint" /\ net' = net BY <1>4, Zenon DEF EndAddEndpoint, TaskEnd
  <2>2. /\ call.req.slot \in DOMAIN slot_map /\ call.req.op = "bind" /\ ~Slot.broken
        /\ call.req.uri \in Ifaces \X Protos
    BY <2>1, Zenon DEF Inv, Ownership, CallKnows, NodeTypes
  <2>3. Iface \in Ifaces /\ Proto \in Protos BY <2>2, Zenon DEF Iface, Proto
  <2>4. Slot.handle # NoHandle BY <2>1, <2>2, Zenon DEF Inv, Ownership, Unfinished, CallAt, Handle, Slot
  <2>5. Slot.handle \in Live(pipe) BY <2>2, <2>4, HandleLive, Zenon DEF Inv, Ownership, Slot
  <2>6. CASE pipe' = add_endpoint(pipe, Slot.handle, Iface, Proto)
    <3>1. QueuesKept(pipe, pipe') BY <1>1, <2>3, <2>5, <2>6, QueuesAdded, Zenon
    <3> QED BY <2>1, <3>1, Zenon
  <2> QED BY <1>3, <1>4, <2>1, <2>6, Zenon DEF EndAddEndpoint
<1>5. CASE EndDeleteSlot
  <2>1. /\ call.at = "delete_slot" /\ net' = net /\ pipe' = delete_slot(pipe, Slot.handle)
    BY <1>5, Zenon DEF EndDeleteSlot, TaskEnd
  <2>2. call.req.slot \in DOMAIN slot_map /\ Slot.handle # NoHandle
    BY <2>1, Zenon DEF Inv, Ownership, CallKnows
  <2>3. Slot.handle \in Live(pipe) BY <2>2, HandleLive, Zenon DEF Inv, Ownership, Slot
  <2>4. QueuesKept(pipe, pipe') BY <1>1, <2>1, <2>3, QueuesDeleted, Zenon
  <2> QED BY <2>1, <2>4, Zenon
<1>6. ASSUME NEW outcome \in SlotOutcomes, EndCreateSlot(outcome)
      PROVE  net' = net /\ QueuesKept(pipe, pipe')
  <2>1. net' = net BY <1>6, Zenon DEF EndCreateSlot, TaskEnd
  <2>2. CASE outcome = "failed"
    <3>1. pipe' = pipe BY <1>6, <2>2, Zenon DEF EndCreateSlot
    <3> QED BY <1>3, <2>1, <3>1, Zenon
  <2>3. CASE outcome \in {"created", "leak"}
    <3>1. \E h \in Handles \ Live(pipe) : pipe' = create_slot(pipe, h)
      BY <1>6, <2>3, ZenonT(60) DEF EndCreateSlot
    <3>2. QueuesKept(pipe, pipe') BY <1>1, <3>1, QueuesAdded, Zenon
    <3> QED BY <2>1, <3>2, Zenon
  <2> QED BY <2>2, <2>3, Zenon DEF SlotOutcomes
<1>7. ASSUME NEW req \in Requests, Begin(req) PROVE pipe' = pipe /\ net' = net BY <1>7, Zenon DEF Begin
<1>8. CASE \/ Return \/ Configure \/ Bind \/ Resolve \/ AddPort \/ Unlink \/ GetMetrics
           \/ RemovePort \/ CleanupHandle \/ CleanupDone \/ Destroy \/ TaskBegin \/ EndQuerySlot
  <2>1. pipe' = pipe /\ net' = net
    BY <1>8, Zenon
    DEF Return, Configure, Bind, Resolve, AddPort, Unlink, GetMetrics, RemovePort, CleanupHandle,
        CleanupDone, Destroy, TaskBegin, EndQuerySlot, TaskEnd
  <2> QED BY <1>3, <2>1, Zenon
<1> QED BY <1>3, <1>4, <1>5, <1>6, <1>7, <1>8, Zenon DEF UserStep

\* A packet is counted before it is queued.
LEMMA WriteCounted ==
  ASSUME Inv, Inv', Counted,
         (\E port \in ports, packet \in Packets : WriteBegin(port, packet)) \/ WriteEnd
  PROVE  Counted'
<1> DEFINE old == Queued(pipe)
           new == Queued(pipe')
<1>1. pipe \in PipelineType /\ pipe' \in PipelineType BY Zenon DEF Inv, NodeTypes
<1>2. pipe.pending \in Int BY <1>1, Zenon DEF PipelineType
<1>3. IsFiniteSet(old) /\ Cardinality(old) + (IF net.at = "push" THEN 1 ELSE 0) <= pipe.pending
  BY Zenon DEF Counted
<1>4. Cardinality(old) \in Nat BY <1>3, FS_CardinalityType, Zenon
<1>5. ASSUME NEW port \in ports, NEW packet \in Packets, WriteBegin(port, packet) PROVE Counted'
  <2>1. net.at = "idle" /\ net'.at = "push" /\ pipe' = CountPacket(pipe) BY <1>5, Zenon DEF WriteBegin
  <2>2. pipe'.slots = pipe.slots /\ pipe'.pending = pipe.pending + 1
    BY <1>1, <2>1, Zenon DEF CountPacket, PipelineType
  <2>3. new = old BY <2>2, Zenon DEF Queued, Live, Depth
  <2> HIDE DEF old
  <2>4. Cardinality(old) + 1 <= pipe.pending + 1 BY <1>2, <1>3, <1>4, <2>1, SMT, Z3
  <2> QED BY <1>3, <2>1, <2>2, <2>3, <2>4, Zenon DEF Counted
<1>6. CASE WriteEnd
  <2>1. /\ net.at = "push" /\ net'.at = "idle"
        /\ pipe' = PushPacket(pipe, net.port[1], net.port[2], net.packet)
    BY <1>6, Zenon DEF WriteEnd
  <2>2. net.port \in ports /\ net.packet \in Packets
    BY <2>1, ZenonT(30) DEF Inv, Ownership, CallKnows, NodeTypes
  <2>3. PICK h \in Handles, f \in Ifaces : net.port = <<h, f>> BY <2>2, SMT, Z3 DEF Inv, Ownership, Owned
  <2>4. h \in Live(pipe) BY <2>2, <2>3, ZenonT(30) DEF Inv, Ownership, Owned
  <2>5. pipe' = PushPacket(pipe, h, f, net.packet) BY <2>1, <2>3, SMT, Z3
  <2>6. /\ pipe'.pending = pipe.pending
        /\ Depth(pipe', <<h, f>>) = Depth(pipe, <<h, f>>) + 1
        /\ \A e \in (Live(pipe) \X Ifaces) \ {<<h, f>>} : Depth(pipe', e) = Depth(pipe, e)
    BY <1>1, <2>2, <2>4, <2>5, PushDepth, SMT, Z3
  <2>7. Live(pipe') = Live(pipe) BY <1>1, <2>2, <2>4, <2>5, PushPacketKeeps DEF SameEndpoints
  <2>8. <<h, f>> \in Live(pipe) \X Ifaces BY <2>4, Zenon
  <2>9. IsFiniteSet(new) /\ Cardinality(new) = Cardinality(old) + 1
    BY <1>1, <1>3, <2>6, <2>7, <2>8, QueuedMore, ZenonT(30)
  <2> HIDE DEF old, new
  <2>10. Cardinality(new) + 0 <= pipe.pending BY <1>2, <1>3, <1>4, <2>1, <2>9, SMT, Z3
  <2> QED BY <2>1, <2>6, <2>9, <2>10, Zenon DEF Counted, new
<1> QED BY <1>5, <1>6, Zenon

\* A packet leaves its queue before it is uncounted, in one turn of the loop that the
\* network thread does not see the middle of.
LEMMA ReaderCounted ==
  ASSUME Inv, Inv', Counted, ReaderStep
  PROVE  Counted'
<1> DEFINE old == Queued(pipe)
           new == Queued(pipe')
<1>1. pipe \in PipelineType /\ pipe' \in PipelineType BY Zenon DEF Inv, NodeTypes
<1>2. net' = net BY Zenon
  DEF ReaderStep, SubframeBegin, PullEnd, SubframeEnd, ReclockBegin, PullPacket, RefreshSessions,
      ReclockSlot, readerUnchanged
<1>3. CASE SubframeBegin \/ PullEnd \/ SubframeEnd \/ ReclockBegin
  <2>1. pipe' = pipe BY <1>3, Zenon DEF SubframeBegin, PullEnd, SubframeEnd, ReclockBegin
  <2>2. QueuesKept(pipe, pipe') BY <2>1, Zenon DEF QueuesKept
  <2> QED BY <1>1, <1>2, <2>2, CountedKept, Zenon
<1>4. ASSUME NEW dead \in SUBSET Addresses, RefreshSessions(dead) \/ ReclockSlot(dead) PROVE Counted'
  <2>1. reader.at \in {"refresh", "reclock"} /\ pipe' = remove_sessions(pipe, reader.slot, dead)
    BY <1>4, Zenon DEF RefreshSessions, ReclockSlot
  <2>2. reader.slot \in Live(pipe) BY <2>1, Zenon DEF Inv, ReaderKnows
  <2>3. QueuesKept(pipe, pipe') BY <1>1, <2>1, <2>2, QueuesLeft, Zenon
  <2> QED BY <1>1, <1>2, <2>3, CountedKept, Zenon
<1>5. ASSUME NEW creatable \in BOOLEAN, PullPacket(creatable) PROVE Counted'
  <2>1. PICK f : f = FirstIface(reader.todo) BY Zenon
  <2>2. /\ reader.at = "refresh" /\ reader.todo # {}
        /\ pipe.slots[reader.slot].queue[f] # <<>>
        /\ pipe' = pull_packet(pipe, reader.slot, f, creatable)
    BY <1>5, <2>1, Zenon DEF PullPacket, PullQueue
  <2>3. reader.slot \in Live(pipe) /\ f \in Ifaces
    BY <2>1, <2>2, FirstIsOne, Zenon DEF Inv, ReaderKnows
  <2>4. PICK h \in Live(pipe) : h = reader.slot BY <2>3, Zenon
  <2>5. /\ pipe'.pending \in {pipe.pending, pipe.pending - 1}
        /\ Depth(pipe, <<h, f>>) = Depth(pipe', <<h, f>>) + 1
        /\ \A e \in (Live(pipe) \X Ifaces) \ {<<h, f>>} : Depth(pipe', e) = Depth(pipe, e)
    BY <1>1, <2>2, <2>3, <2>4, PullDepth, SMT, Z3
  <2>6. Live(pipe') = Live(pipe) BY <1>1, <2>2, <2>3, <2>4, PullPacketKeeps, SMT, Z3 DEF SameEndpoints
  <2>7. <<h, f>> \in Live(pipe') \X Ifaces BY <2>3, <2>6, Zenon
  <2>8. \A e \in (Live(pipe') \X Ifaces) \ {<<h, f>>} : Depth(pipe, e) = Depth(pipe', e)
    BY <2>5, <2>6, Zenon
  <2>9. IsFiniteSet(old) /\ Cardinality(old) + (IF net.at = "push" THEN 1 ELSE 0) <= pipe.pending
    BY Zenon DEF Counted
  <2>10. /\ IsFiniteSet(new) <=> IsFiniteSet(old)
         /\ IsFiniteSet(new) => Cardinality(old) = Cardinality(new) + 1
    BY <1>1, <2>5, <2>6, <2>7, <2>8, QueuedMore, Zenon
  <2> HIDE DEF old, new
  <2>11. Cardinality(new) \in Nat BY <2>9, <2>10, FS_CardinalityType, Zenon
  <2>12. pipe.pending \in Int BY <1>1, Zenon DEF PipelineType
  <2>13. Cardinality(new) + (IF net.at = "push" THEN 1 ELSE 0) <= pipe'.pending
    BY <2>5, <2>9, <2>10, <2>11, <2>12, SMT, Z3
  <2> QED BY <1>2, <2>9, <2>10, <2>13, Zenon DEF Counted, new
<1> QED BY <1>3, <1>4, <1>5, Zenon DEF ReaderStep

\* Without tasks in reclock(), packets stay counted.
LEMMA AlwaysCounted ==
  ASSUME ~TaskInReclock
  PROVE  Spec => []Counted
<1>1. Init => Counted
  <2> SUFFICES ASSUME Init PROVE Counted BY Zenon
  <2>1. pipe.slots = <<>> /\ pipe.pending = 0 /\ net.at = "idle" BY Zenon DEF Init, EmptyPipeline
  <2>2. Live(pipe) = {} BY <2>1, SMT, Z3 DEF Live
  <2>3. Queued(pipe) = {} BY <2>2, QueuedPlaces, SMT, Z3
  <2>4. IsFiniteSet({}) /\ Cardinality({}) = 0 BY FS_EmptySet, Zenon
  <2> QED BY <2>1, <2>3, <2>4, SMT, Z3 DEF Counted
<1>2. Inv /\ Inv' /\ Counted /\ [Next]_vars => Counted'
  <2> SUFFICES ASSUME Inv, Inv', Counted, [Next]_vars PROVE Counted' BY Zenon
  <2>1. CASE UNCHANGED vars
    <3>1. pipe' = pipe /\ net' = net BY <2>1, Zenon DEF vars
    <3>2. QueuesKept(pipe, pipe') BY <3>1, Zenon DEF QueuesKept
    <3>3. pipe \in PipelineType /\ pipe' \in PipelineType BY Zenon DEF Inv, NodeTypes
    <3> QED BY <3>1, <3>2, <3>3, CountedKept, Zenon
  <2>2. CASE UserStep \/ \E req \in Requests : Begin(req) BY <2>2, UserCounted, Zenon
  <2>3. CASE (\E port \in ports, packet \in Packets : WriteBegin(port, packet)) \/ WriteEnd
    BY <2>3, WriteCounted, Zenon
  <2>4. CASE ReaderStep BY <2>4, ReaderCounted, Zenon
  <2> QED BY <2>1, <2>2, <2>3, <2>4, Zenon DEF Next
<1> QED BY <1>1, <1>2, NodeOwns, PTL DEF Spec

\* "no sessions and packets; we can sleep until there are some" (receiver_source.cpp): when
\* the counters say so it is so, of whatever the network thread writes at that moment,
\* however many packets, slots and sessions there were.
THEOREM IdleIsEmpty ==
  ASSUME ~TaskInReclock
  PROVE  Spec => []SleepsWhenEmpty
<1>1. Inv /\ Counted => SleepsWhenEmpty
  <2> SUFFICES ASSUME Inv, Counted, state(pipe) = "Idle"
               PROVE  /\ pipe.mixer = {}
                      /\ \A h \in Live(pipe), f \in Ifaces : pipe.slots[h].queue[f] = <<>>
    BY Zenon DEF SleepsWhenEmpty
  <2>1. pipe \in PipelineType BY Zenon DEF Inv, NodeTypes
  <2>2. pipe.sessions = 0 /\ pipe.pending = 0 BY Zenon DEF state
  <2>3. pipe.mixer = {}
    <3>1. IsFiniteSet(pipe.mixer) BY <2>1, MixerFinite, Zenon
    <3>2. Cardinality(pipe.mixer) = 0 BY <2>2, Zenon DEF Inv, Mixed
    <3> QED BY <3>1, <3>2, FS_EmptySet, Zenon
  <2>4. Queued(pipe) = {}
    <3> DEFINE all == Queued(pipe)
    <3>1. IsFiniteSet(all) /\ Cardinality(all) + (IF net.at = "push" THEN 1 ELSE 0) <= 0
      BY <2>2, Zenon DEF Counted
    <3> HIDE DEF all
    <3>2. Cardinality(all) \in Nat BY <3>1, FS_CardinalityType, Zenon
    <3>3. Cardinality(all) = 0 BY <3>1, <3>2, SMT, Z3
    <3>4. all = {} BY <3>1, <3>3, FS_EmptySet, Zenon
    <3> QED BY <3>4, Zenon DEF all
  <2>5. ASSUME NEW h \in Live(pipe), NEW f \in Ifaces PROVE pipe.slots[h].queue[f] = <<>>
    <3>1. <<h, f>> \in Live(pipe) \X Ifaces BY Zenon
    <3>2. 1 \notin 1 .. Depth(pipe, <<h, f>>) BY <2>4, <3>1, QueuedPlaces, Zenon
    <3>3. pipe.slots[h].queue[f] \in Seq(Packets) BY <2>1, PipelineSlots, SMT, Z3 DEF SlotType
    <3>4. Depth(pipe, <<h, f>>) = Len(pipe.slots[h].queue[f]) BY Zenon DEF Depth
    <3> QED BY <3>2, <3>3, <3>4, SMT, Z3
  <2> QED BY <2>3, <2>5, Zenon
<1> QED BY <1>1, NodeOwns, AlwaysCounted, PTL

\* bind() makes no task from a null handle, and a slot whose handle get_metrics() finds to
\* be null is broken.
LEMMA CheckedKept ==
  ASSUME Inv, Checked, [Next]_vars
  PROVE  Checked'
<1> USE DEF At, nodeUnchanged
<1>1. call.at \in {"found", "resolve"} => call.req.slot \in DOMAIN slot_map
  BY Zenon DEF Inv, Ownership, CallKnows
<1>2. call.at \in {"found", "resolve"} /\ Slot.handle = NoHandle => Slot.broken
  BY <1>1, Zenon DEF Inv, Ownership, Unfinished, CallAt, Handle, Slot
<1>3. CASE UNCHANGED <<call, slot_map>> BY <1>3, Zenon DEF Checked, Slot
<1>4. CASE call'.at # "panic" BY <1>4, Zenon DEF Checked
<1>5. ASSUME NEW req \in Requests, Begin(req) PROVE Checked'
  <2>1. call'.at # "panic" BY <1>5, Zenon DEF Begin
  <2> QED BY <1>4, <2>1, Zenon
<1>6. CASE GetMetrics
  <2>1. call.at = "found" /\ call.req.op = "get_metrics" /\ slot_map' = slot_map
    BY <1>6, Zenon DEF GetMetrics
  <2>2. CASE Slot.handle = NoHandle
    <3>1. call'.req = call.req BY <1>6, SMT, Z3 DEF GetMetrics
    <3>2. Slot.broken BY <1>2, <2>1, <2>2, Zenon
    <3> QED BY <2>1, <3>1, <3>2, Zenon DEF Checked, Slot
  <2>3. CASE Slot.handle # NoHandle
    <3>1. call' = At("query_slot") \/ call' = At("return") BY <1>6, <2>3, Zenon DEF GetMetrics
    <3>2. call'.at # "panic" BY <3>1, SMT, Z3
    <3> QED BY <1>4, <3>2, Zenon
  <2> QED BY <2>2, <2>3, Zenon
<1>7. CASE Resolve
  <2>1. ~Slot.broken BY <1>7, Zenon DEF Resolve, Inv, Ownership, CallKnows
  <2>2. Slot.handle # NoHandle BY <1>2, <1>7, <2>1, Zenon DEF Resolve
  <2>3. call' = At("add_endpoint") \/ call' = At("cleanup") BY <1>7, <2>2, Zenon DEF Resolve, BreakSlot
  <2>4. call'.at # "panic" BY <2>3, SMT, Z3
  <2> QED BY <1>4, <2>4, Zenon
<1>8. ASSUME NEW outcome \in SlotOutcomes, EndCreateSlot(outcome) PROVE Checked'
  <2>1. call' = At("found") \/ call' = At("return") BY <1>8, Zenon DEF EndCreateSlot
  <2>2. call'.at # "panic" BY <2>1, SMT, Z3
  <2> QED BY <1>4, <2>2, Zenon
<1>9. CASE \/ Return \/ Configure \/ Bind \/ AddPort \/ Unlink \/ CleanupHandle \/ CleanupDone
           \/ Destroy \/ EndAddEndpoint \/ EndDeleteSlot \/ EndQuerySlot
  <2>1. call'.at # "panic"
    BY <1>9, SMTT(30), Z3
    DEF Return, CallIdle, Configure, Bind, AddPort, Unlink, CleanupHandle, CleanupDone, Destroy,
        EndAddEndpoint, EndDeleteSlot, EndQuerySlot, BreakSlot
  <2> QED BY <1>4, <2>1, Zenon
<1>10. CASE RemovePort
  <2>1. call' = call /\ call.at = "cleanup" BY <1>10, Zenon DEF RemovePort
  <2> QED BY <1>4, <2>1, Zenon
<1>11. CASE TaskBegin BY <1>3, <1>11, Zenon DEF TaskBegin
<1>12. CASE ReaderStep
  BY <1>3, <1>12, Zenon
  DEF ReaderStep, SubframeBegin, PullEnd, SubframeEnd, ReclockBegin, PullPacket, RefreshSessions,
      ReclockSlot, readerUnchanged
<1>13. CASE (\E port \in ports, packet \in Packets : WriteBegin(port, packet)) \/ WriteEnd
  BY <1>3, <1>13, Zenon DEF WriteBegin, WriteEnd, netUnchanged
<1>14. CASE UNCHANGED vars BY <1>3, <1>14, Zenon DEF vars
<1> QED
  BY <1>5, <1>6, <1>7, <1>8, <1>9, <1>10, <1>11, <1>12, <1>13, <1>14, ZenonT(30) DEF Next, UserStep

\* No call but get_metrics() of a broken slot makes a task from a null handle, whichever
\* calls failed before, and neither counter of ReceiverState goes below zero, whatever the
\* two threads that change them do.
THEOREM OnlyQueriesPanic ==
  ASSUME ~TaskInReclock
  PROVE  Spec => []OnlyQueryPanics
<1>1. Init => Checked BY SMT, Z3 DEF Init, CallIdle, Checked
<1>2. Inv /\ Checked /\ [Next]_vars => Checked' BY CheckedKept, Zenon
<1>3. Inv /\ Counted /\ Checked => OnlyQueryPanics
  <2> SUFFICES ASSUME Inv, Counted, Checked PROVE OnlyQueryPanics BY Zenon
  <2>1. pipe \in PipelineType BY Zenon DEF Inv, NodeTypes
  <2>2. pipe.sessions = Cardinality(pipe.mixer) BY Zenon DEF Inv, Mixed
  <2>3. Cardinality(pipe.mixer) \in Nat BY <2>1, MixerFinite, FS_CardinalityType, Zenon
  <2>4. Cardinality(Queued(pipe)) \in Nat BY FS_CardinalityType, Zenon DEF Counted
  <2>5. Cardinality(Queued(pipe)) + (IF net.at = "push" THEN 1 ELSE 0) <= pipe.pending
    BY Zenon DEF Counted
  <2>6. pipe.pending \in Int BY <2>1, Zenon DEF PipelineType
  <2>7. pipe.pending >= 0 BY <2>4, <2>5, <2>6, SMT, Z3
  <2>8. pipe.sessions >= 0 BY <2>2, <2>3, SMT, Z3
  <2> QED BY <2>7, <2>8, Zenon DEF OnlyQueryPanics, Checked
<1> QED BY <1>1, <1>2, <1>3, NodeOwns, AlwaysCounted, PTL DEF Spec

=============================================================================
