---------------------------- MODULE ActiveWindow ----------------------------
(***************************************************************************)
(* Active windows of a motion sensor against the local clock: the          *)
(* arithmetic of isWithinActiveWindowLocked and                            *)
(* scheduleActiveWindowLocked, and the loop in which a scheduler thread    *)
(* waits until the next boundary, updates m_isWithinActiveWindow, tells    *)
(* the client and schedules again (src/src/aidl/vcomponent_MotionSensor.cpp).*)
(*                                                                         *)
(* Two threads take part: the client's call (or the lifecycle thread, when  *)
(* a delayed session activates) and the scheduler thread.  One call runs at *)
(* a time, from outside callbacks; more callers, deaths and the other       *)
(* timers are the subject of MotionSensor.  The clock may advance at every  *)
(* step: between the two looks at it, in a callback, and after a wait is    *)
(* over.                                                                    *)
(***************************************************************************)
EXTENDS Integers, FiniteSets

CONSTANTS
    Day,        \* secondsPerDay
    WindowSets  \* sets of windows clients may configure

Time == 0..(Day - 1)

\* A TimeWindow that isValidWindow accepts
Window == [start : Time, end : Time]

ASSUME DayAssumption == Day \in Nat \ {0}

ASSUME WindowsAssumption == WindowSets \subseteq SUBSET Window

-----------------------------------------------------------------------------
(* isWithinActiveWindowLocked                                               *)

\* Is second t of the day inside window w?
Contains(w, t) ==
    \/ w.start = 0 /\ w.end = 0
    \/ w.start < w.end /\ w.start <= t /\ t <= w.end
    \/ w.start > w.end /\ (w.start <= t \/ t <= w.end)

IsWithin(ws, t) == ws = {} \/ \E w \in ws : Contains(w, t)

-----------------------------------------------------------------------------
(* scheduleActiveWindowLocked                                               *)

\* Mutant: a window that ends at w.end is taken to be over in that second.
BoundariesAtEnd(w) == {w.start, w.end}

\* The seconds at which the status of window w may change: its first second
\* and the one after its last
Boundaries(w) == {w.start, (w.end + 1) % Day}

\* Mutant: a boundary that already passed today is not moved to tomorrow.
SecondsUntilToday(b, t) == b - t

\* Seconds from t to the next time the clock shows b, never 0
SecondsUntil(b, t) == IF b - t <= 0 THEN b - t + Day ELSE b - t

Distances(ws, t) == {Day} \cup UNION {{SecondsUntil(b, t) : b \in Boundaries(w)} : w \in ws}

\* secondsUntilBoundary
SecondsUntilBoundary(ws, t) ==
    CHOOSE m \in Distances(ws, t) : \A d \in Distances(ws, t) : m <= d

-----------------------------------------------------------------------------
VARIABLES
    windows,    \* m_activeWindows
    started,    \* is m_state STARTED?
    within,     \* m_isWithinActiveWindow
    handle,     \* is m_activeWindowSchedulerThread joinable?
    caller,     \* where the call is: "none"; in updateActiveWindowLocked
                \* ("judged", or in a callback); "joining" the scheduler from
                \* there, "stopping" from stop(), "closing" from close();
                \* "terminated" by std::terminate
    scheduler,  \* where the scheduler thread is: "none", "waiting", "judged"
                \* or in a callback
    remaining,  \* seconds until its wait ends
    told,       \* last callback of the session: "entered", "exited" or "nothing"
    now,        \* the local time of day
    inherited,  \* history: the session began with a joinable scheduler
    overtaken   \* history: the status was out of date when the wait was computed

vars == <<windows, started, within, handle, caller, scheduler, remaining, told,
          now, inherited, overtaken>>

\* onActiveWindowEntered and onActiveWindowExited, with the mutex released
Callback == {"entered", "exited"}

\* A thread that keeps the mutex from its look at the clock for the status
\* (line 756) to the one for the schedule (line 779)
HoldsMutex(thread) == thread = "judged"

Init ==
    /\ windows \in WindowSets
    /\ started = FALSE
    /\ within = TRUE
    /\ handle = FALSE
    /\ caller = "none"
    /\ scheduler = "none"
    /\ remaining = 0
    /\ told = "nothing"
    /\ now \in Time
    /\ inherited = FALSE
    /\ overtaken = FALSE

\* Mutant: a session that starts inside a window is not announced.
JudgeQuietly ==
    LET active == IsWithin(windows, now)
    IN  IF active = within THEN "judged"
        ELSE IF active THEN "entered" ELSE "exited"

\* updateActiveWindowLocked up to its callback: the client is told of a
\* change, and of a session inside a window that has no scheduler yet
Judge ==
    LET active == IsWithin(windows, now)
    IN  IF active = within /\ (handle \/ ~active) THEN "judged"
        ELSE IF active THEN "entered" ELSE "exited"

\* What the client was told when the callback of a thread is over
Told(thread) == IF thread \in Callback THEN thread ELSE told

\* scheduleActiveWindowLocked after its cancel: without a session or without
\* windows there is nothing to wait for
Schedule ==
    LET armed == started /\ windows # {}
    IN  /\ handle' = armed
        /\ scheduler' = IF armed THEN "waiting" ELSE "none"
        /\ remaining' = IF armed THEN SecondsUntilBoundary(windows, now) ELSE 0
        /\ overtaken' = (within # IsWithin(windows, now))

\* cancelActiveWindowLocked with a scheduler that waits or is over: joined
Cancel ==
    /\ scheduler \notin Callback
    /\ handle' = FALSE
    /\ scheduler' = "none"
    /\ remaining' = 0

\* cancelActiveWindowLocked with a scheduler in its callback: the call waits
\* with the mutex released, and the handle is empty
Join(call) ==
    /\ scheduler \in Callback
    /\ handle' = FALSE
    /\ caller' = call
    /\ UNCHANGED <<scheduler, remaining>>

\* The scheduler that was joined is over; a handle belongs to its successor
Joined == handle \/ scheduler = "none"

-----------------------------------------------------------------------------
\* The sensor becomes STARTED and looks at the clock for its status
Start ==
    /\ caller = "none"
    /\ ~started
    /\ started' = TRUE
    /\ within' = IsWithin(windows, now)
    /\ caller' = Judge
    /\ told' = "nothing"
    /\ inherited' = handle
    /\ UNCHANGED <<windows, handle, scheduler, remaining, now, overtaken>>

\* It cancels a scheduler of an earlier session and schedules its own
StartSchedules ==
    /\ caller \in Callback \cup {"judged"}
    /\ ~HoldsMutex(scheduler)
    /\ scheduler \notin Callback
    /\ Schedule
    /\ caller' = "none"
    /\ told' = Told(caller)
    /\ UNCHANGED <<windows, started, within, now, inherited>>

\* That scheduler is in a callback
StartJoins ==
    /\ caller \in Callback \cup {"judged"}
    /\ Join("joining")
    /\ told' = Told(caller)
    /\ UNCHANGED <<windows, started, within, now, inherited, overtaken>>

\* It is over without a successor
StartJoined ==
    /\ caller = "joining"
    /\ Joined
    /\ ~handle
    /\ Schedule
    /\ caller' = "none"
    /\ UNCHANGED <<windows, started, within, told, now, inherited>>

\* It left a successor: the assignment at line 808 is to a joinable thread
StartOverwrites ==
    /\ caller = "joining"
    /\ Joined
    /\ ~HoldsMutex(scheduler)
    /\ handle
    /\ windows # {}
    /\ caller' = "terminated"
    /\ UNCHANGED <<windows, started, within, handle, scheduler, remaining, told,
                   now, inherited, overtaken>>

\* The wait of the scheduler thread is over: it brings the status up to date
Boundary ==
    /\ scheduler = "waiting"
    /\ remaining = 0
    /\ ~HoldsMutex(caller)
    /\ started
    /\ within' = IsWithin(windows, now)
    /\ scheduler' = Judge
    /\ UNCHANGED <<windows, started, handle, caller, remaining, told, now,
                   inherited, overtaken>>

\* The wait is over after the session: the thread ends, still joinable
BoundaryTooLate ==
    /\ scheduler = "waiting"
    /\ remaining = 0
    /\ ~HoldsMutex(caller)
    /\ ~started
    /\ scheduler' = "none"
    /\ UNCHANGED <<windows, started, within, handle, caller, remaining, told, now,
                   inherited, overtaken>>

\* The scheduler thread detaches itself and schedules its successor, whether
\* or not somebody is joining it
SchedulerSchedules ==
    /\ scheduler \in Callback \cup {"judged"}
    /\ ~HoldsMutex(caller)
    /\ Schedule
    /\ told' = Told(scheduler)
    /\ UNCHANGED <<windows, started, within, caller, now, inherited>>

\* stop(), or the automatic stop
Stop ==
    /\ caller = "none"
    /\ started
    /\ ~HoldsMutex(scheduler)
    /\ Cancel
    /\ started' = FALSE
    /\ UNCHANGED <<windows, within, caller, told, now, inherited, overtaken>>

StopJoins ==
    /\ caller = "none"
    /\ started
    /\ Join("stopping")
    /\ UNCHANGED <<windows, started, within, told, now, inherited, overtaken>>

\* The scheduler is over; nobody cancels the successor it left
StopJoined ==
    /\ caller = "stopping"
    /\ Joined
    /\ ~HoldsMutex(scheduler)
    /\ started' = FALSE
    /\ caller' = "none"
    /\ UNCHANGED <<windows, within, handle, scheduler, remaining, told, now,
                   inherited, overtaken>>

\* releaseControllerLocked in close(), or a stop() that meets an automatic stop
Close ==
    /\ caller = "none"
    /\ ~started
    /\ handle
    /\ Cancel
    /\ UNCHANGED <<windows, started, within, caller, told, now, inherited, overtaken>>

CloseJoins ==
    /\ caller = "none"
    /\ ~started
    /\ Join("closing")
    /\ UNCHANGED <<windows, started, within, told, now, inherited, overtaken>>

CloseJoined ==
    /\ caller = "closing"
    /\ Joined
    /\ caller' = "none"
    /\ UNCHANGED <<windows, started, within, handle, scheduler, remaining, told,
                   now, inherited, overtaken>>

\* setActiveWindows and clearActiveWindows
SetActiveWindows ==
    /\ caller = "none"
    /\ ~started
    /\ windows' \in WindowSets
    /\ UNCHANGED <<started, within, handle, caller, scheduler, remaining, told, now,
                   inherited, overtaken>>

\* A second passes, whatever the threads are at.
Tick ==
    /\ now' = (now + 1) % Day
    /\ remaining' = IF scheduler = "waiting" /\ remaining > 0 THEN remaining - 1 ELSE remaining
    /\ UNCHANGED <<windows, started, within, handle, caller, scheduler, told,
                   inherited, overtaken>>

Next ==
    \/ Start \/ StartSchedules \/ StartJoins \/ StartJoined \/ StartOverwrites
    \/ Boundary \/ BoundaryTooLate \/ SchedulerSchedules
    \/ Stop \/ StopJoins \/ StopJoined
    \/ Close \/ CloseJoins \/ CloseJoined
    \/ SetActiveWindows
    \/ Tick

Spec == Init /\ [][Next]_vars

-----------------------------------------------------------------------------
\* Every variable has its type.
TypeOK ==
    /\ windows \in WindowSets
    /\ started \in BOOLEAN
    /\ within \in BOOLEAN
    /\ handle \in BOOLEAN
    /\ caller \in Callback \cup {"none", "judged", "joining", "stopping", "closing",
                                "terminated"}
    /\ scheduler \in Callback \cup {"none", "waiting", "judged"}
    /\ remaining \in 0..Day
    /\ told \in Callback \cup {"nothing"}
    /\ now \in Time
    /\ inherited \in BOOLEAN
    /\ overtaken \in BOOLEAN

\* The scheduler of a session sleeps
Sleeping ==
    /\ started /\ caller \in {"none", "stopping"}
    /\ scheduler = "waiting" /\ remaining > 0

\* While the scheduler of a session sleeps, the status it left is right in
\* every second of its sleep, except when a window began or ended between the
\* two looks at the clock: then it is wrong in every one of them.  No window
\* begins or ends before the thread is due.
StatusFollowsClock ==
    Sleeping => (within = IsWithin(windows, now) <=> ~overtaken)

\* The client's picture is the sensor's: between callbacks of a session that
\* found no scheduler left from the one before, it was last told that a window
\* was entered exactly when the sensor delivers motion, also when the session
\* starts with the status of the one before.
ClientKnowsStatus ==
    /\ started /\ ~inherited
    /\ caller \in {"none", "stopping"}
    /\ scheduler \notin Callback
    => (told = "entered" <=> within)
=============================================================================
