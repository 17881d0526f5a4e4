------------------------- MODULE ActiveWindowProofs -------------------------
(* Proofs about ActiveWindow, for every length of the day.                  *)
EXTENDS ActiveWindow, FiniteSetTheorems, TLAPS

\* A non-empty set of naturals has a least element.  (The strict-subset order
\* on finite sets is well-founded; x < m is the same as 0..x being a strict
\* subset of 0..m.)
LEMMA LeastElement ==
    ASSUME NEW S \in SUBSET Nat, S # {}
    PROVE  \E m \in S : \A x \in S : m <= x
<1> DEFINE T == {0..m : m \in S}
<1>1. /\ T \subseteq FiniteSubsetsOf(Nat)
      /\ T # {}
  <2>1. ASSUME NEW m \in S PROVE 0..m \in FiniteSubsetsOf(Nat)
    <3>1. m \in Int /\ 0 \in Int
      OBVIOUS
    <3>2. IsFiniteSet(0..m)
      BY <3>1, FS_Interval
    <3>3. 0..m \in SUBSET Nat
      BY <3>1
    <3> QED BY <3>2, <3>3 DEF FiniteSubsetsOf
  <2> QED BY <2>1
<1>2. IsWellFoundedOn(StrictSubsetOrdering(Nat), FiniteSubsetsOf(Nat))
  BY FS_StrictSubsetOrderingWellFounded
<1>3. PICK U \in T : \A V \in T : <<V, U>> \notin StrictSubsetOrdering(Nat)
  <2> HIDE DEF T
  <2> QED BY <1>1, <1>2, WFMin
<1>4. PICK m \in S : U = 0..m
  BY <1>3
<1>5. ASSUME NEW x \in S, x < m PROVE FALSE
  <2>1. 0..x \in T
    OBVIOUS
  <2>2. 0..x \subseteq 0..m /\ 0..x # 0..m
    <3>1. m \in 0..m /\ m \notin 0..x
      BY <1>5
    <3> QED BY <1>5, <3>1
  <2>3. <<0..x, 0..m>> \in StrictSubsetOrdering(Nat)
    BY <2>2 DEF StrictSubsetOrdering
  <2> QED BY <1>3, <1>4, <2>1, <2>3
<1> QED BY <1>5

\* The status of one window is the same from t until just before the clock
\* shows one of its boundaries again.
LEMMA WindowConstant ==
    ASSUME NEW w \in Window, NEW t \in Time, NEW d \in Nat,
           \A b \in Boundaries(w) : d < SecondsUntil(b, t)
    PROVE  Contains(w, (t + d) % Day) <=> Contains(w, t)
<1> DEFINE e == (w.end + 1) % Day
<1>1. w.start \in 0..(Day - 1) /\ w.end \in 0..(Day - 1) /\ t \in 0..(Day - 1) /\ Day \in Nat \ {0}
  BY DayAssumption DEF Window, Time
<1>2. d < SecondsUntil(w.start, t) /\ d < SecondsUntil(e, t)
  BY DEF Boundaries
<1>3. e = IF w.end + 1 = Day THEN 0 ELSE w.end + 1
  BY <1>1
<1>4. d < Day
  BY <1>1, <1>2 DEF SecondsUntil
<1>5. (t + d) % Day = IF t + d < Day THEN t + d ELSE t + d - Day
  BY <1>1, <1>4
<1> HIDE DEF e
<1> QED BY <1>1, <1>2, <1>3, <1>4, <1>5 DEF Contains, SecondsUntil

\* secondsUntilBoundary is a positive number of seconds, at most a day, and no
\* boundary of a window comes sooner.
LEMMA SecondsUntilBoundaryIsLeast ==
    ASSUME NEW ws \in SUBSET Window, NEW t \in Time
    PROVE  /\ SecondsUntilBoundary(ws, t) \in 1..Day
           /\ \A w \in ws : \A b \in Boundaries(w) :
                 SecondsUntilBoundary(ws, t) <= SecondsUntil(b, t)
<1> DEFINE D == Distances(ws, t)
<1>1. ASSUME NEW w \in ws, NEW b \in Boundaries(w)
      PROVE  SecondsUntil(b, t) \in 1..Day
  <2>1. b \in 0..(Day - 1)
    BY DayAssumption DEF Boundaries, Window, Time
  <2> QED BY <2>1, DayAssumption DEF SecondsUntil, Time
<1>2. D \subseteq 1..Day /\ Day \in D
  BY <1>1, DayAssumption DEF Distances
<1>3. D \in SUBSET Nat /\ D # {}
  BY <1>2, DayAssumption
<1>4. \E m \in D : \A d \in D : m <= d
  <2> HIDE DEF D
  <2> QED BY <1>3, LeastElement
<1>5. /\ SecondsUntilBoundary(ws, t) \in D
      /\ \A d \in D : SecondsUntilBoundary(ws, t) <= d
  BY <1>4 DEF SecondsUntilBoundary
<1>6. ASSUME NEW w \in ws, NEW b \in Boundaries(w)
      PROVE  SecondsUntil(b, t) \in D
  BY DEF Distances
<1> HIDE DEF D
<1> QED BY <1>2, <1>5, <1>6

\* From t until the boundary that scheduleActiveWindowLocked computes the
\* window status does not change, for every set of valid windows: the
\* scheduler may sleep that long without missing a transition.
THEOREM StatusConstantUntilBoundary ==
    ASSUME NEW ws \in SUBSET Window, NEW t \in Time,
           NEW d \in 0..(SecondsUntilBoundary(ws, t) - 1)
    PROVE  IsWithin(ws, (t + d) % Day) <=> IsWithin(ws, t)
<1>1. ASSUME NEW w \in ws
      PROVE  Contains(w, (t + d) % Day) <=> Contains(w, t)
  <2>1. d \in Nat /\ \A b \in Boundaries(w) : d < SecondsUntil(b, t)
    <3>1. SecondsUntilBoundary(ws, t) \in Int /\ d \in Nat /\ d < SecondsUntilBoundary(ws, t)
      BY SecondsUntilBoundaryIsLeast, DayAssumption
    <3>2. ASSUME NEW b \in Boundaries(w)
          PROVE  SecondsUntil(b, t) \in Int /\ SecondsUntilBoundary(ws, t) <= SecondsUntil(b, t)
      <4>1. b \in Int /\ t \in Int /\ Day \in Int
        BY DayAssumption DEF Boundaries, Window, Time
      <4> QED BY <4>1, SecondsUntilBoundaryIsLeast DEF SecondsUntil
    <3> QED BY <3>1, <3>2
  <2>2. w \in Window
    OBVIOUS
  <2> QED BY <2>1, <2>2, WindowConstant
<1> QED BY <1>1 DEF IsWithin

-----------------------------------------------------------------------------
(* Types.                                                                   *)

LEMMA JudgeTypes == Judge \in Callback \cup {"judged"}
BY DEF Judge, Callback

LEMMA StatusIsBoolean ==
    ASSUME NEW ws, NEW t
    PROVE  IsWithin(ws, t) \in BOOLEAN
BY DEF IsWithin

LEMMA ScheduleTypes ==
    ASSUME TypeOK, Schedule
    PROVE  /\ handle' \in BOOLEAN
           /\ scheduler' \in {"none", "waiting"}
           /\ remaining' \in 0..Day
           /\ overtaken' \in BOOLEAN
<1>1. windows \in SUBSET Window /\ now \in Time
  BY WindowsAssumption DEF TypeOK
<1>2. SecondsUntilBoundary(windows, now) \in 1..Day
  BY <1>1, SecondsUntilBoundaryIsLeast
<1>3. remaining' \in 0..Day
  BY <1>2, DayAssumption DEF Schedule
<1>4. handle' \in BOOLEAN /\ scheduler' \in {"none", "waiting"}
  BY DEF Schedule, TypeOK
<1>5. overtaken' \in BOOLEAN
  BY DEF Schedule
<1> QED BY <1>3, <1>4, <1>5

LEMMA ToldTypes ==
    ASSUME TypeOK, NEW thread
    PROVE  Told(thread) \in Callback \cup {"nothing"}
BY DEF Told, TypeOK

LEMMA NextKeepsTypes ==
    ASSUME TypeOK, [Next]_vars
    PROVE  TypeOK'
<1> USE DEF TypeOK
<1>0. 0 \in 0..Day
  BY DayAssumption
<1>1. CASE Start
  BY <1>1, JudgeTypes, StatusIsBoolean DEF Start
<1>2. CASE StartSchedules
  BY <1>2, ScheduleTypes, ToldTypes DEF StartSchedules
<1>3. CASE StartJoins
  BY <1>3, ToldTypes DEF StartJoins, Join
<1>4. CASE StartJoined
  BY <1>4, ScheduleTypes DEF StartJoined
<1>5. CASE StartOverwrites
  BY <1>5 DEF StartOverwrites
<1>6. CASE Boundary
  BY <1>6, JudgeTypes, StatusIsBoolean DEF Boundary
<1>7. CASE BoundaryTooLate
  BY <1>7 DEF BoundaryTooLate
<1>8. CASE SchedulerSchedules
  BY <1>8, ScheduleTypes, ToldTypes DEF SchedulerSchedules
<1>9. CASE Stop
  BY <1>0, <1>9 DEF Stop, Cancel
<1>10. CASE StopJoins
  BY <1>10 DEF StopJoins, Join
<1>11. CASE StopJoined
  BY <1>11 DEF StopJoined
<1>12. CASE Close
  BY <1>0, <1>12 DEF Close, Cancel
<1>13. CASE CloseJoins
  BY <1>13 DEF CloseJoins, Join
<1>14. CASE CloseJoined
  BY <1>14 DEF CloseJoined
<1>15. CASE SetActiveWindows
  BY <1>15 DEF SetActiveWindows
<1>16. CASE Tick
  <2>1. now' \in Time
    BY <1>16, DayAssumption DEF Tick, Time
  <2>2. remaining' \in 0..Day
    BY <1>16, DayAssumption DEF Tick
  <2> QED BY <1>16, <2>1, <2>2 DEF Tick
<1>17. CASE UNCHANGED vars
  BY <1>17 DEF vars
<1> QED BY <1>1, <1>2, <1>3, <1>4, <1>5, <1>6, <1>7, <1>8, <1>9, <1>10, <1>11, <1>12,
           <1>13, <1>14, <1>15, <1>16, <1>17 DEF Next

\* Every variable has its type, however late threads wake and however long
\* callbacks take: the scheduler never waits for longer than a day, nor for a
\* negative time (scheduleActiveWindowLocked).
THEOREM WindowTypeCorrect == Spec => []TypeOK
<1>1. 0 \in 0..Day
  BY DayAssumption
<1>2. Init => TypeOK
  BY <1>1 DEF Init, TypeOK
<1> QED BY <1>2, NextKeepsTypes, PTL DEF Spec

-----------------------------------------------------------------------------
(* The status the scheduler keeps.                                          *)

\* In every second left of the scheduler's sleep the status is right, or in
\* every one of them it is wrong.
SleepsThrough ==
    \A d \in 0..(remaining - 1) :
        (within = IsWithin(windows, (now + d) % Day)) <=> ~overtaken

\* TypeOK and what a sleeping scheduler relies on: that the windows stay as
\* they are while a session runs.
IInv ==
    /\ TypeOK
    /\ caller = "closing" => ~started
    /\ started /\ caller \in {"none", "stopping"} /\ scheduler = "waiting" => SleepsThrough

\* Scheduling compares the status with the clock once, and the comparison
\* holds for the whole sleep.
LEMMA ScheduleSleepsThrough ==
    ASSUME TypeOK, Schedule, UNCHANGED <<windows, within, now>>, scheduler' = "waiting"
    PROVE  SleepsThrough'
<1>1. windows \in SUBSET Window /\ now \in Time
  BY WindowsAssumption DEF TypeOK
<1>2. remaining' = SecondsUntilBoundary(windows, now)
  BY DEF Schedule
<1>3. \A d \in 0..(SecondsUntilBoundary(windows, now) - 1) :
         IsWithin(windows, (now + d) % Day) <=> IsWithin(windows, now)
  BY <1>1, StatusConstantUntilBoundary
<1>4. ASSUME NEW d \in 0..(remaining' - 1)
      PROVE  (within' = IsWithin(windows', (now' + d) % Day)) <=> ~overtaken'
  <2>1. IsWithin(windows, (now + d) % Day) = IsWithin(windows, now)
    BY <1>2, <1>3, <1>4, StatusIsBoolean
  <2>2. overtaken' = (within # IsWithin(windows, now))
    BY DEF Schedule
  <2>3. (within = IsWithin(windows, now)) <=> ~overtaken'
    BY <2>2
  <2> QED BY <2>1, <2>3
<1> QED BY <1>4 DEF SleepsThrough

\* A second later one second less of the sleep is left.
LEMMA TickSleepsThrough ==
    ASSUME TypeOK, SleepsThrough, Tick, scheduler = "waiting"
    PROVE  SleepsThrough'
<1>1. UNCHANGED <<windows, within, overtaken>>
  BY DEF Tick
<1>2. ASSUME NEW d \in 0..(remaining' - 1)
      PROVE  (within' = IsWithin(windows', (now' + d) % Day)) <=> ~overtaken'
  <2>1. remaining \in 0..Day /\ now \in 0..(Day - 1) /\ Day \in Nat \ {0}
    BY DayAssumption DEF TypeOK, Time
  <2>2. remaining > 0 /\ remaining' = remaining - 1 /\ now' = (now + 1) % Day
    BY <1>2, <2>1 DEF Tick
  <2>3. d + 1 \in 0..(remaining - 1) /\ d \in 0..(Day - 2)
    BY <1>2, <2>1, <2>2
  <2>4. (((now + 1) % Day) + d) % Day = (now + (d + 1)) % Day
    <3>1. (now + 1) % Day = IF now + 1 < Day THEN now + 1 ELSE 0
      BY <2>1
    <3>2. (now + (d + 1)) % Day = IF now + d + 1 < Day THEN now + d + 1 ELSE now + d + 1 - Day
      BY <2>1, <2>3
    <3>3. CASE now + 1 < Day
      BY <2>1, <2>3, <3>1, <3>3
    <3>4. CASE ~(now + 1 < Day)
      BY <2>1, <2>3, <3>1, <3>2, <3>4
    <3> QED BY <3>3, <3>4
  <2>5. (within = IsWithin(windows, (now + (d + 1)) % Day)) <=> ~overtaken
    BY <2>3 DEF SleepsThrough
  <2> QED BY <1>1, <2>2, <2>4, <2>5
<1> QED BY <1>2 DEF SleepsThrough

LEMMA NextKeepsIInv ==
    ASSUME IInv, [Next]_vars
    PROVE  IInv'
<1>1. TypeOK /\ TypeOK'
  BY NextKeepsTypes DEF IInv
<1>2. CASE Start
  BY <1>1, <1>2, JudgeTypes DEF Start, Callback, IInv
<1>3. CASE StartSchedules
  BY <1>1, <1>3, ScheduleSleepsThrough DEF StartSchedules, IInv
<1>4. CASE StartJoins
  BY <1>1, <1>4 DEF StartJoins, Join, IInv
<1>5. CASE StartJoined
  BY <1>1, <1>5, ScheduleSleepsThrough DEF StartJoined, IInv
<1>6. CASE StartOverwrites
  BY <1>1, <1>6 DEF StartOverwrites, IInv
<1>7. CASE Boundary
  BY <1>1, <1>7, JudgeTypes DEF Boundary, Callback, IInv
<1>8. CASE BoundaryTooLate
  BY <1>1, <1>8 DEF BoundaryTooLate, IInv
<1>9. CASE SchedulerSchedules
  BY <1>1, <1>9, ScheduleSleepsThrough DEF SchedulerSchedules, IInv
<1>10. CASE Stop
  BY <1>1, <1>10 DEF Stop, Cancel, IInv
<1>11. CASE StopJoins
  BY <1>1, <1>11 DEF StopJoins, Join, Callback, IInv
<1>12. CASE StopJoined
  BY <1>1, <1>12 DEF StopJoined, IInv
<1>13. CASE Close
  BY <1>1, <1>13 DEF Close, Cancel, IInv
<1>14. CASE CloseJoins
  BY <1>1, <1>14 DEF CloseJoins, Join, IInv
<1>15. CASE CloseJoined
  BY <1>1, <1>15 DEF CloseJoined, IInv
<1>16. CASE SetActiveWindows
  BY <1>1, <1>16 DEF SetActiveWindows, IInv
<1>17. CASE Tick
  <2>1. UNCHANGED <<started, caller, scheduler>>
    BY <1>17 DEF Tick
  <2> QED BY <1>1, <1>17, <2>1, TickSleepsThrough DEF IInv
<1>18. CASE UNCHANGED vars
  BY <1>1, <1>18 DEF vars, IInv, SleepsThrough
<1> QED BY <1>2, <1>3, <1>4, <1>5, <1>6, <1>7, <1>8, <1>9, <1>10, <1>11, <1>12, <1>13,
           <1>14, <1>15, <1>16, <1>17, <1>18 DEF Next

\* The status is right in every second in which the scheduler of a session
\* sleeps, unless a window began or ended between its two looks at the clock:
\* for every length of the day, every choice of windows, and however late
\* threads wake and however long callbacks take.
THEOREM StatusCorrect == Spec => []StatusFollowsClock
<1>1. Init => IInv
  <2>1. 0 \in 0..Day
    BY DayAssumption
  <2> QED BY <2>1 DEF Init, IInv, TypeOK
<1>2. IInv /\ [Next]_vars => IInv'
  BY NextKeepsIInv
<1>3. IInv => StatusFollowsClock
  <2> SUFFICES ASSUME IInv, Sleeping
               PROVE  within = IsWithin(windows, now) <=> ~overtaken
    BY DEF StatusFollowsClock
  <2>1. now \in Time /\ remaining \in 0..Day /\ remaining > 0
    BY DEF IInv, TypeOK, Sleeping
  <2>2. 0 \in 0..(remaining - 1) /\ (now + 0) % Day = now
    BY <2>1, DayAssumption DEF Time
  <2>3. SleepsThrough
    BY DEF IInv, Sleeping
  <2>4. (within = IsWithin(windows, (now + 0) % Day)) <=> ~overtaken
    BY <2>2, <2>3 DEF SleepsThrough
  <2> QED BY <2>2, <2>4
<1> QED BY <1>1, <1>2, <1>3, PTL DEF Spec

-----------------------------------------------------------------------------
(* The client's picture.                                                    *)

\* In a session that inherited no scheduler, start() has the sensor's window
\* work to itself until it schedules; from then on the scheduler alone has.
OwnScheduler ==
    /\ caller \in Callback \cup {"judged"} => scheduler = "none" /\ ~handle
    /\ caller \in Callback \cup {"judged", "none", "stopping"}

\* What the client was last told, or is being told, is the status.
ClientInformed ==
    /\ caller \in Callback => (caller = "entered" <=> within)
    /\ scheduler \in Callback => (scheduler = "entered" <=> within)
    /\ caller \notin Callback /\ scheduler \notin Callback => (told = "entered" <=> within)

\* A call that runs alone without a handle has no scheduler beside it, which
\* is why a session may find one only as a joinable thread.
KInv ==
    /\ within \in BOOLEAN /\ handle \in BOOLEAN
    /\ caller = "none" /\ ~handle => scheduler = "none"
    /\ caller = "closing" => ~started
    /\ caller \in Callback \cup {"judged", "joining", "stopping"} => started
    /\ started /\ ~inherited => OwnScheduler /\ ClientInformed

LEMMA NextKeepsKInv ==
    ASSUME KInv, [Next]_vars
    PROVE  KInv'
<1> USE DEF KInv, Callback
<1>1. CASE Start
  <2>1. within' = IsWithin(windows, now) /\ within' \in BOOLEAN
    BY <1>1, StatusIsBoolean DEF Start
  <2>2. inherited' = FALSE => handle = FALSE /\ scheduler = "none"
    BY <1>1 DEF Start
  <2>3. caller' = Judge /\ Judge \in Callback \cup {"judged"} /\ told' = "nothing"
    BY <1>1, JudgeTypes DEF Start
  <2>4. /\ Judge = "entered" => within'
        /\ Judge = "exited" => ~within'
        /\ Judge = "judged" /\ ~handle => ~within'
    BY <2>1 DEF Judge
  <2> QED BY <1>1, <2>1, <2>2, <2>3, <2>4 DEF Start, OwnScheduler, ClientInformed
<1>2. CASE StartSchedules
  BY <1>2 DEF StartSchedules, Schedule, Told, OwnScheduler, ClientInformed
<1>3. CASE StartJoins
  BY <1>3 DEF StartJoins, Join, OwnScheduler
<1>4. CASE StartJoined
  BY <1>4 DEF StartJoined, Schedule, OwnScheduler
<1>5. CASE StartOverwrites
  BY <1>5 DEF StartOverwrites, OwnScheduler
<1>6. CASE Boundary
  <2>1. within' = IsWithin(windows, now) /\ within' \in BOOLEAN
    BY <1>6, StatusIsBoolean DEF Boundary
  <2>2. scheduler' = Judge /\ Judge \in Callback \cup {"judged"}
    BY <1>6, JudgeTypes DEF Boundary
  <2>3. /\ Judge = "entered" => within'
        /\ Judge = "exited" => ~within'
        /\ Judge = "judged" => within' = within
    BY <2>1 DEF Judge
  <2> QED BY <1>6, <2>1, <2>2, <2>3 DEF Boundary, OwnScheduler, ClientInformed
<1>7. CASE BoundaryTooLate
  BY <1>7 DEF BoundaryTooLate
<1>8. CASE SchedulerSchedules
  BY <1>8 DEF SchedulerSchedules, Schedule, Told, OwnScheduler, ClientInformed
<1>9. CASE Stop
  BY <1>9 DEF Stop, Cancel
<1>10. CASE StopJoins
  BY <1>10 DEF StopJoins, Join, OwnScheduler, ClientInformed
<1>11. CASE StopJoined
  BY <1>11 DEF StopJoined, Joined
<1>12. CASE Close
  BY <1>12 DEF Close, Cancel
<1>13. CASE CloseJoins
  BY <1>13 DEF CloseJoins, Join
<1>14. CASE CloseJoined
  BY <1>14 DEF CloseJoined, Joined
<1>15. CASE SetActiveWindows
  BY <1>15 DEF SetActiveWindows
<1>16. CASE Tick
  BY <1>16 DEF Tick, OwnScheduler, ClientInformed
<1>17. CASE UNCHANGED vars
  BY <1>17 DEF vars, OwnScheduler, ClientInformed
<1> QED BY <1>1, <1>2, <1>3, <1>4, <1>5, <1>6, <1>7, <1>8, <1>9, <1>10, <1>11, <1>12,
           <1>13, <1>14, <1>15, <1>16, <1>17 DEF Next

\* Between callbacks the client was last told that a window was entered
\* exactly when the sensor takes motion for active, in every session that
\* found no scheduler of the one before: for every day, every choice of
\* windows, stop() and close() at any point of the scheduler, and however late
\* threads wake and however long callbacks take.
THEOREM ClientKnows == Spec => []ClientKnowsStatus
<1>1. Init => KInv
  BY DEF Init, KInv, Callback
<1>2. KInv /\ [Next]_vars => KInv'
  BY NextKeepsKInv
<1>3. KInv => ClientKnowsStatus
  BY DEF KInv, ClientInformed, ClientKnowsStatus, Callback
<1> QED BY <1>1, <1>2, <1>3, PTL DEF Spec
=============================================================================
