---------------------------- MODULE MotionSensor ----------------------------
(***************************************************************************)
(* One motion sensor of the service: the class MotionSensor, the lifecycle *)
(* calls of its MotionSensorController, its three timer threads and its    *)
(* death recipient (src/src/aidl/vcomponent_MotionSensor.cpp and           *)
(* vcomponent_MotionSensorController.cpp).                                 *)
(*                                                                         *)
(* All of that state is guarded by one mutex, but the code gives the mutex *)
(* up in the middle of an operation in two places: while a client callback *)
(* runs and while a timer thread is joined.  So an operation is not one    *)
(* step.  Here it is a program, a sequence of operations of the code under *)
(* the mutex, kept in todo[t]: the thread holding the mutex runs the head  *)
(* of its program, and an operation that unlocks parks the thread with the *)
(* rest of the program still to run.  Every interleaving the unlocks allow *)
(* is thereby a behaviour of the model.                                    *)
(***************************************************************************)
EXTENDS Integers, Sequences, FiniteSets

CONSTANTS
    ClientThreads,  \* binder threads that serve clients' calls
    DeathThreads,   \* binder threads that deliver death notifications
    InjectThreads,  \* control-plane threads that inject physical motion
    Listeners,      \* event listeners clients may register
    Configs,        \* start configurations clients may pass to start()
    WindowSets,     \* whether clients may configure no windows, some, or both
    Nobody,         \* no thread
    MaxOpens,       \* bound: successful open() calls
    MaxStarts,      \* bound: accepted start() calls
    MaxInjects,     \* bound: injectMotionEvent() calls
    MaxBoundaries,  \* bound: active-window boundaries the clock reaches
    MaxGen,         \* bound: value of a timer generation counter
    Reentrant       \* may a client call back from inside onStateChanged?

Kind == {"lifecycle", "noMotion", "window"}

State == {"STOPPED", "STARTING", "STARTED", "STOPPING"}

\* What the code tells apart of a StartConfig: its mode and which of its
\* durations are positive.
StartConfig == [mode : {"MOTION", "NO_MOTION"}, noMotion : BOOLEAN,
                activeStart : BOOLEAN, activeStop : BOOLEAN]

\* A timer thread is named by its kind and by the generation it was created
\* with, which no other thread of that kind has.
TimerThreads == Kind \X (1..MaxGen)

PoolThreads == ClientThreads \cup DeathThreads \cup InjectThreads

Thread == PoolThreads \cup TimerThreads

ASSUME ThreadAssumption ==
    /\ PoolThreads \cap TimerThreads = {}
    /\ Nobody \notin Thread

ASSUME ConfigAssumption == Configs \subseteq StartConfig

ASSUME WindowAssumption == WindowSets \subseteq BOOLEAN

ASSUME BoundAssumption ==
    /\ {MaxOpens, MaxStarts, MaxInjects, MaxBoundaries, MaxGen} \subseteq Nat
    /\ Reentrant \in BOOLEAN

VARIABLES
    mutex,        \* the thread that holds m_mutex, or Nobody
    at,           \* at[t]: where thread t is
    todo,         \* todo[t]: the operations t still has to run
    target,       \* target[t]: the thread t is joining
    audience,     \* audience[t]: listeners of the snapshot t has yet to call
    delivered,    \* delivered[t]: did a listener of the snapshot accept?
    state,        \* m_state
    owner,        \* the open() whose controller, listener and binder are set, or 0
    startConfig,  \* m_startConfig
    lastEvent,    \* m_lastEventInfo: the time stamp of the event, or 0
    hasWindows,   \* is m_activeWindows non-empty?
    within,       \* m_isWithinActiveWindow
    listeners,    \* m_eventListeners
    handle,       \* handle[k]: the thread m_...Thread owns, or Nobody
    cancelled,    \* cancelled[k]: m_...Cancelled
    gen,          \* gen[k]: m_...Generation
    opens,        \* number of open() calls that succeeded
    starts,       \* number of start() calls that were accepted
    stamps,       \* number of event time stamps taken: the clock of events
    resetAt,      \* value of stamps when start() last reset m_lastEventInfo
    boundaries,   \* number of window boundaries reached
    obituaries,   \* opens whose client died while linked, not yet reported
    dead          \* opens whose client died

threadVars == <<mutex, at, todo, target, audience, delivered>>
sensorVars == <<state, owner, startConfig, lastEvent, hasWindows, within, listeners>>
timerVars  == <<handle, cancelled, gen>>
worldVars  == <<opens, starts, stamps, resetAt, boundaries, obituaries, dead>>
vars == <<threadVars, sensorVars, timerVars, worldVars>>

-----------------------------------------------------------------------------
(* The operations a program is made of.                                     *)

Change(s)     == [do |-> "change", to |-> s]
Cancel(k)     == [do |-> "cancel", timer |-> k]
Invalidate(k) == [do |-> "invalidate", timer |-> k]
Inject(n)     == [do |-> "inject", stamp |-> n]
Record(n)     == [do |-> "record", stamp |-> n]
ArmLifecycle(g, delayed, stops) ==
    [do |-> "armLifecycle", timer |-> g, delayed |-> delayed, stops |-> stops]
Simple(name)  == [do |-> name]

SimpleNames == {"armNoMotion", "armWindow", "update", "wait", "activate", "check",
                "autoStop", "expire", "boundary", "goDown", "release", "return"}

Op ==      [do : {"change"}, to : State]
      \cup [do : {"cancel", "invalidate"}, timer : Kind]
      \cup [do : {"inject", "record"}, stamp : Nat]
      \cup [do : {"armLifecycle"}, timer : 1..MaxGen, delayed : BOOLEAN, stops : BOOLEAN]
      \cup [do : SimpleNames]

\* startNoMotionTimerLocked
StartNoMotionTimer == <<Cancel("noMotion"), Simple("armNoMotion")>>

\* Mutant: the scheduler is armed first and the cancel then hits the new one.
ScheduleActiveWindowSwapped == <<Simple("armWindow"), Cancel("window")>>

\* scheduleActiveWindowLocked
ScheduleActiveWindow == <<Cancel("window"), Simple("armWindow")>>

\* Mutant: nothing cancels the previous lifecycle thread first.
StartLifecycleTimerNoCancel(g, delayed, stops) == <<ArmLifecycle(g, delayed, stops)>>

\* Mutant: the timer is armed first and the cancel then hits the new one.
StartLifecycleTimerSwapped(g, delayed, stops) ==
    <<ArmLifecycle(g, delayed, stops), Cancel("lifecycle")>>

\* startLifecycleTimerLocked
StartLifecycleTimer(g, delayed, stops) ==
    <<Cancel("lifecycle"), ArmLifecycle(g, delayed, stops)>>

\* invalidateLifecycleTimersLocked, followed by the cancelActiveWindowLocked
\* that every caller of it makes next
InvalidateTimers == <<Invalidate("lifecycle"), Invalidate("noMotion"), Cancel("window")>>

\* releaseControllerLocked
ReleaseController == InvalidateTimers \o <<Simple("release")>>

\* the two changes that end a session
GoDown == <<Change("STOPPING"), Change("STOPPED")>>

\* what makes a session active, in start() and in the lifecycle thread
Activate == <<Change("STARTED"), Simple("update")>> \o StartNoMotionTimer

\* start() after its checks; g is its lifecycleGeneration
StartProgram(cfg, g) ==
    <<Change("STARTING")>> \o
        (IF cfg.activeStart
         THEN StartLifecycleTimer(g, TRUE, cfg.activeStop)
         ELSE Activate \o (IF cfg.activeStop
                           THEN StartLifecycleTimer(g, FALSE, TRUE)
                           ELSE <<>>))

\* Mutant: stop() leaves the timers alone.
StopProgramKeepsTimers == GoDown

\* stop() after its checks
StopProgram == InvalidateTimers \o GoDown

\* Mutant: the death of the owner stops the sensor and does not close it.
BinderDiedProgramNoRelease == InvalidateTimers \o <<Simple("goDown")>>

\* binderDied after its checks
BinderDiedProgram == InvalidateTimers \o <<Simple("goDown")>> \o ReleaseController

\* The three thread functions.
LifecycleProgram(delayed, stops) ==
    (IF delayed THEN <<Simple("wait"), Simple("activate")>> ELSE <<Simple("check")>>) \o
    (IF stops THEN <<Simple("wait"), Simple("autoStop")>> ELSE <<>>)

NoMotionProgram == <<Simple("wait"), Simple("expire")>>

WindowProgram == <<Simple("wait"), Simple("boundary")>>

-----------------------------------------------------------------------------
Init ==
    /\ mutex = Nobody
    /\ at = [t \in Thread |-> "idle"]
    /\ todo = [t \in Thread |-> <<>>]
    /\ target = [t \in Thread |-> Nobody]
    /\ audience = [t \in Thread |-> {}]
    /\ delivered = [t \in Thread |-> FALSE]
    /\ state = "STOPPED"
    /\ owner = 0
    /\ startConfig = [mode |-> "MOTION", noMotion |-> FALSE,
                      activeStart |-> FALSE, activeStop |-> FALSE]
    /\ lastEvent = 0
    /\ hasWindows \in WindowSets
    /\ within = TRUE
    /\ listeners = {}
    /\ handle = [k \in Kind |-> Nobody]
    /\ cancelled = [k \in Kind |-> FALSE]
    /\ gen = [k \in Kind |-> 0]
    /\ opens = 0
    /\ starts = 0
    /\ stamps = 0
    /\ resetAt = 0
    /\ boundaries = 0
    /\ obituaries = {}
    /\ dead = {}

-----------------------------------------------------------------------------
(* How a thread moves through its program.                                  *)

Unlocked == mutex = Nobody

Terminated == \E t \in Thread : at[t] = "terminated"

\* t holds the mutex and its next operation is called name
Runs(t, name) ==
    /\ at[t] = "run"
    /\ todo[t] # <<>>
    /\ Head(todo[t]).do = name

\* t keeps the mutex and goes on with program; when nothing is left it
\* unlocks and is done
Continue(t, program) ==
    /\ todo' = [todo EXCEPT ![t] = program]
    /\ at' = [at EXCEPT ![t] = IF program = <<>> THEN "idle" ELSE "run"]
    /\ mutex' = IF program = <<>> THEN Nobody ELSE t
    /\ UNCHANGED target

\* t gives the mutex up at place pc and will go on with program
Leave(t, pc, program) ==
    /\ todo' = [todo EXCEPT ![t] = program]
    /\ at' = [at EXCEPT ![t] = pc]
    /\ mutex' = Nobody

\* A callback of the controller's listener with the mutex released, if there
\* is a listener (changeStateLocked, notifyActiveWindowLocked).
CallOut(t, program) ==
    IF owner = 0
    THEN Continue(t, program)
    ELSE Leave(t, "callback", program) /\ UNCHANGED target

\* Mutant: the flag that ends the wait is not set.
CancelThreadSilent(t, k, program) ==
    /\ handle' = [handle EXCEPT ![k] = Nobody]
    /\ IF handle[k] \in {Nobody, t}
       THEN Continue(t, program)
       ELSE /\ Leave(t, "join", program)
            /\ target' = [target EXCEPT ![t] = handle[k]]
    /\ UNCHANGED cancelled

\* Mutant: every cancelled thread is detached, none is joined.
CancelThreadDetached(t, k, program) ==
    /\ cancelled' = [cancelled EXCEPT ![k] = TRUE]
    /\ handle' = [handle EXCEPT ![k] = Nobody]
    /\ Continue(t, program)

\* Mutant: a thread that cancels itself joins itself.
CancelThreadSelfJoin(t, k, program) ==
    /\ cancelled' = [cancelled EXCEPT ![k] = TRUE]
    /\ handle' = [handle EXCEPT ![k] = Nobody]
    /\ IF handle[k] = Nobody
       THEN Continue(t, program)
       ELSE /\ Leave(t, "join", program)
            /\ target' = [target EXCEPT ![t] = handle[k]]

\* Stop the thread of kind k and wait for it with the mutex released
\* (cancelLifecycleTimerLocked, cancelNoMotionTimerLocked and
\* cancelActiveWindowLocked).  A thread that cancels itself detaches.
CancelThread(t, k, program) ==
    /\ cancelled' = [cancelled EXCEPT ![k] = TRUE]
    /\ handle' = [handle EXCEPT ![k] = Nobody]
    /\ IF handle[k] \in {Nobody, t}
       THEN Continue(t, program)
       ELSE /\ Leave(t, "join", program)
            /\ target' = [target EXCEPT ![t] = handle[k]]

\* Mutant: the thread is kept in the handle of the window scheduler.
SpawnWrongHandle(t, k, g, pc, program, rest) ==
    /\ cancelled' = [cancelled EXCEPT ![k] = FALSE]
    /\ gen' = [gen EXCEPT ![k] = IF k = "lifecycle" THEN @ ELSE g]
    /\ handle' = [handle EXCEPT !["window"] = <<k, g>>]
    /\ todo' = [todo EXCEPT ![t] = rest, ![<<k, g>>] = program]
    /\ at' = [at EXCEPT ![t] = IF rest = <<>> THEN "idle" ELSE "run", ![<<k, g>>] = pc]
    /\ mutex' = IF rest = <<>> THEN Nobody ELSE t
    /\ UNCHANGED target

\* Give handle k the new thread <<k, g>>, which will run program, and go on
\* with rest.  Assigning to a std::thread that still owns a thread calls
\* std::terminate: t stops for good, with the mutex.
Spawn(t, k, g, pc, program, rest) ==
    /\ cancelled' = [cancelled EXCEPT ![k] = FALSE]
    /\ gen' = [gen EXCEPT ![k] = IF k = "lifecycle" THEN @ ELSE g]
    /\ IF handle[k] # Nobody
       THEN at' = [at EXCEPT ![t] = "terminated"] /\ UNCHANGED <<handle, mutex, todo>>
       ELSE /\ handle' = [handle EXCEPT ![k] = <<k, g>>]
            /\ todo' = [todo EXCEPT ![t] = rest, ![<<k, g>>] = program]
            /\ at' = [at EXCEPT ![t] = IF rest = <<>> THEN "idle" ELSE "run",
                                ![<<k, g>>] = pc]
            /\ mutex' = IF rest = <<>> THEN Nobody ELSE t
    /\ UNCHANGED target

\* The thread that may serve a call now: an idle binder thread, or a thread
\* in a callback from which the client calls back (binder runs a nested call
\* on the thread that waits for the reply).
MayCall(t) ==
    \/ t \in ClientThreads /\ at[t] = "idle"
    \/ Reentrant /\ at[t] = "callback"

\* t takes the mutex for a call whose operations are program
Enter(t, program) ==
    /\ Unlocked
    /\ mutex' = t
    /\ at' = [at EXCEPT ![t] = "run"]
    /\ todo' = [todo EXCEPT ![t] =
            IF at[t] = "callback" THEN program \o <<Simple("return")>> \o @ ELSE program]
    /\ UNCHANGED target

-----------------------------------------------------------------------------
(* Clients' calls.  A call that the code rejects changes nothing and is not *)
(* a step, so every call below comes from the owner of the moment; several  *)
(* threads of the owner may call at once.  A dead client calls no more.     *)

\* MotionSensor::open: one critical section
Open(t) ==
    /\ MayCall(t)
    /\ Unlocked
    /\ owner = 0
    /\ opens < MaxOpens
    /\ opens' = opens + 1
    /\ owner' = opens + 1
    /\ UNCHANGED <<threadVars, state, startConfig, lastEvent, hasWindows, within,
                   listeners, timerVars, starts, stamps, resetAt, boundaries, obituaries,
                   dead>>

\* MotionSensorController::start
Start(t, cfg) ==
    /\ MayCall(t)
    /\ owner # 0 /\ owner \notin dead
    /\ state = "STOPPED"
    /\ starts < MaxStarts
    /\ gen["lifecycle"] < MaxGen
    /\ starts' = starts + 1
    /\ startConfig' = cfg
    /\ lastEvent' = 0
    /\ resetAt' = stamps
    /\ gen' = [gen EXCEPT !["lifecycle"] = @ + 1]
    /\ Enter(t, StartProgram(cfg, gen["lifecycle"] + 1))
    /\ UNCHANGED <<audience, delivered, state, owner, hasWindows, within, listeners,
                   handle, cancelled, opens, stamps, boundaries, obituaries, dead>>

\* Mutant: stop() does not look at the state.
StopUnchecked(t) ==
    /\ MayCall(t)
    /\ owner # 0 /\ owner \notin dead
    /\ Enter(t, StopProgram)
    /\ UNCHANGED <<audience, delivered, sensorVars, timerVars, worldVars>>

\* MotionSensorController::stop
Stop(t) ==
    /\ MayCall(t)
    /\ owner # 0 /\ owner \notin dead
    /\ state = "STARTED"
    /\ Enter(t, StopProgram)
    /\ UNCHANGED <<audience, delivered, sensorVars, timerVars, worldVars>>

\* Mutant: close() does not look at the state.
CloseUnchecked(t) ==
    /\ MayCall(t)
    /\ owner # 0 /\ owner \notin dead
    /\ Enter(t, ReleaseController)
    /\ UNCHANGED <<audience, delivered, sensorVars, timerVars, worldVars>>

\* MotionSensor::close
Close(t) ==
    /\ MayCall(t)
    /\ owner # 0 /\ owner \notin dead
    /\ state = "STOPPED"
    /\ Enter(t, ReleaseController)
    /\ UNCHANGED <<audience, delivered, sensorVars, timerVars, worldVars>>

\* MotionSensorController::setActiveWindows and clearActiveWindows: one
\* critical section each
SetActiveWindows(t) ==
    /\ MayCall(t)
    /\ Unlocked
    /\ owner # 0 /\ owner \notin dead
    /\ state = "STOPPED"
    /\ hasWindows' \in WindowSets
    /\ UNCHANGED <<threadVars, state, owner, startConfig, lastEvent, within, listeners,
                   timerVars, worldVars>>

\* MotionSensor::registerEventListener: a listener is registered once
RegisterEventListener(l) ==
    /\ Unlocked
    /\ l \notin listeners
    /\ listeners' = listeners \cup {l}
    /\ UNCHANGED <<threadVars, state, owner, startConfig, lastEvent, hasWindows, within,
                   timerVars, worldVars>>

\* MotionSensor::unregisterEventListener
UnregisterEventListener(l) ==
    /\ Unlocked
    /\ l \in listeners
    /\ listeners' = listeners \ {l}
    /\ UNCHANGED <<threadVars, state, owner, startConfig, lastEvent, hasWindows, within,
                   timerVars, worldVars>>

\* MotionSensor::injectMotionEvent up to the lock: the event is time-stamped
\* before the mutex is taken
InjectMotionEvent(t) ==
    /\ ~Terminated
    /\ t \in InjectThreads
    /\ at[t] = "idle"
    /\ stamps < MaxInjects
    /\ stamps' = stamps + 1
    /\ at' = [at EXCEPT ![t] = "begin"]
    /\ todo' = [todo EXCEPT ![t] = <<Inject(stamps + 1)>>]
    /\ UNCHANGED <<mutex, target, audience, delivered, sensorVars, timerVars, opens,
                   starts, resetAt, boundaries, obituaries, dead>>

-----------------------------------------------------------------------------
(* Death of clients.                                                        *)

\* The process that holds the current session dies; its death recipient is
\* linked, so the driver will report the death.
ClientDies ==
    /\ DeathThreads # {}
    /\ owner # 0 /\ owner \notin dead
    /\ dead' = dead \cup {owner}
    /\ obituaries' = obituaries \cup {owner}
    /\ UNCHANGED <<threadVars, sensorVars, timerVars, opens, starts, stamps, resetAt, boundaries>>

\* MotionSensor::binderDied for session h.  The weak reference may no longer
\* be promotable once the sensor has dropped its own reference to h.
BinderDied(t, h) ==
    /\ t \in DeathThreads
    /\ h \in obituaries
    /\ at[t] = "idle"
    /\ Unlocked
    /\ obituaries' = obituaries \ {h}
    /\ \E promoted \in BOOLEAN :
          /\ owner = h => promoted
          /\ IF owner = 0 \/ (promoted /\ owner # h)
             THEN UNCHANGED <<mutex, at, todo, target>>
             ELSE Enter(t, BinderDiedProgram)
    /\ UNCHANGED <<audience, delivered, sensorVars, timerVars, opens, starts, stamps, resetAt,
                   boundaries, dead>>

-----------------------------------------------------------------------------
(* The operations, each run by the thread t that holds the mutex.           *)

\* changeStateLocked
ChangeState(t) ==
    /\ Runs(t, "change")
    /\ LET new == Head(todo[t]).to
       IN  IF state = new
           THEN Continue(t, Tail(todo[t])) /\ UNCHANGED state
           ELSE state' = new /\ CallOut(t, Tail(todo[t]))
    /\ UNCHANGED <<audience, delivered, owner, startConfig, lastEvent, hasWindows, within,
                   listeners, timerVars, worldVars>>

\* cancelLifecycleTimerLocked, cancelNoMotionTimerLocked, cancelActiveWindowLocked
CancelTimer(t) ==
    /\ Runs(t, "cancel")
    /\ CancelThread(t, Head(todo[t]).timer, Tail(todo[t]))
    /\ UNCHANGED <<audience, delivered, sensorVars, gen, worldVars>>

\* Half of invalidateLifecycleTimersLocked: a new generation, then the cancel
InvalidateTimer(t) ==
    /\ Runs(t, "invalidate")
    /\ LET k == Head(todo[t]).timer
       IN  /\ gen[k] < MaxGen
           /\ gen' = [gen EXCEPT ![k] = @ + 1]
           /\ CancelThread(t, k, Tail(todo[t]))
    /\ UNCHANGED <<audience, delivered, sensorVars, worldVars>>

\* The rest of startLifecycleTimerLocked
ArmLifecycleTimer(t) ==
    /\ Runs(t, "armLifecycle")
    /\ LET op == Head(todo[t])
       IN  Spawn(t, "lifecycle", op.timer, "begin",
                 LifecycleProgram(op.delayed, op.stops), Tail(todo[t]))
    /\ UNCHANGED <<audience, delivered, sensorVars, worldVars>>

\* The rest of startNoMotionTimerLocked
ArmNoMotionTimer(t) ==
    /\ Runs(t, "armNoMotion")
    /\ IF state = "STARTED" /\ startConfig.mode = "NO_MOTION" /\ startConfig.noMotion
       THEN /\ gen["noMotion"] < MaxGen
            /\ Spawn(t, "noMotion", gen["noMotion"] + 1, "begin", NoMotionProgram,
                     Tail(todo[t]))
       ELSE Continue(t, Tail(todo[t])) /\ UNCHANGED timerVars
    /\ UNCHANGED <<audience, delivered, sensorVars, worldVars>>

\* The rest of scheduleActiveWindowLocked
ArmWindowScheduler(t) ==
    /\ Runs(t, "armWindow")
    /\ IF state = "STARTED" /\ hasWindows
       THEN /\ gen["window"] < MaxGen
            /\ Spawn(t, "window", gen["window"] + 1, "begin", WindowProgram, Tail(todo[t]))
       ELSE Continue(t, Tail(todo[t])) /\ UNCHANGED timerVars
    /\ UNCHANGED <<audience, delivered, sensorVars, worldVars>>

\* Mutant: a sensor without windows has no window status to bring up to date.
UpdateActiveWindowSkipped(t) ==
    /\ Runs(t, "update")
    /\ IF state # "STARTED" \/ ~hasWindows
       THEN Continue(t, Tail(todo[t])) /\ UNCHANGED within
       ELSE \E active \in BOOLEAN :
              LET program == ScheduleActiveWindow \o Tail(todo[t])
              IN  /\ within' = active
                  /\ IF active # within \/ (active /\ handle["window"] = Nobody)
                     THEN CallOut(t, program)
                     ELSE Continue(t, program)
    /\ UNCHANGED <<audience, delivered, state, owner, startConfig, lastEvent, hasWindows,
                   listeners, timerVars, worldVars>>

\* updateActiveWindowLocked with notifyActiveWindowLocked.  Where the local
\* time falls is a choice, unless there are no windows.
UpdateActiveWindow(t) ==
    /\ Runs(t, "update")
    /\ IF state # "STARTED"
       THEN Continue(t, Tail(todo[t])) /\ UNCHANGED within
       ELSE \E active \in IF hasWindows THEN BOOLEAN ELSE {TRUE} :
              LET program == ScheduleActiveWindow \o Tail(todo[t])
              IN  /\ within' = active
                  /\ IF active # within \/ (active /\ handle["window"] = Nobody)
                     THEN CallOut(t, program)
                     ELSE Continue(t, program)
    /\ UNCHANGED <<audience, delivered, state, owner, startConfig, lastEvent, hasWindows,
                   listeners, timerVars, worldVars>>

\* injectMotionEvent under the mutex
InjectLocked(t) ==
    /\ Runs(t, "inject")
    /\ IF state # "STARTED" \/ ~within
       THEN Continue(t, <<>>) /\ UNCHANGED audience
       ELSE IF startConfig.mode = "NO_MOTION"
       THEN Continue(t, StartNoMotionTimer) /\ UNCHANGED audience
       ELSE /\ audience' = [audience EXCEPT ![t] = listeners]
            /\ Leave(t, "deliver", <<Record(Head(todo[t]).stamp)>>)
            /\ UNCHANGED target
    /\ UNCHANGED <<delivered, sensorVars, timerVars, worldVars>>

\* binderDied, the branch on the state after the timers are cancelled
EndSessionOfTheDead(t) ==
    /\ Runs(t, "goDown")
    /\ Continue(t, (IF state \in {"STARTING", "STARTED"} THEN GoDown
                    ELSE <<Change("STOPPED")>>) \o Tail(todo[t]))
    /\ UNCHANGED <<audience, delivered, sensorVars, timerVars, worldVars>>

\* releaseControllerLocked, after the timers are cancelled: unlinkToDeath and
\* the owner's binder, controller and listener dropped
Release(t) ==
    /\ Runs(t, "release")
    /\ owner' = 0
    /\ Continue(t, Tail(todo[t]))
    /\ UNCHANGED <<audience, delivered, state, startConfig, lastEvent, hasWindows, within,
                   listeners, timerVars, worldVars>>

\* A nested call returns into the callback it was made from
ReturnToCallback(t) ==
    /\ Runs(t, "return")
    /\ Leave(t, "callback", Tail(todo[t]))
    /\ UNCHANGED <<target, audience, delivered, sensorVars, timerVars, worldVars>>

-----------------------------------------------------------------------------
(* The timer threads.                                                       *)

\* Mutant: every timer thread looks at its flag alone.
WaitOverFlagOnly(k, g) == cancelled[k]

\* Mutant: a timer thread looks at its generation alone.
WaitOverGenOnly(k, g) == k # "lifecycle" /\ gen[k] # g

\* The predicate of the wait_for of timer thread <<k, g>>: the lifecycle
\* thread looks at the flag alone, the others at their generation too.
WaitOver(k, g) == cancelled[k] \/ (k # "lifecycle" /\ gen[k] # g)

\* wait_for gives the mutex up
BeginWait(k, g) ==
    /\ Runs(<<k, g>>, "wait")
    /\ Leave(<<k, g>>, "wait", Tail(todo[<<k, g>>]))
    /\ UNCHANGED <<target, audience, delivered, sensorVars, timerVars, worldVars>>

\* wait_for finds its predicate true: the thread function returns
WaitCancelled(k, g) ==
    /\ at[<<k, g>>] = "wait"
    /\ Unlocked
    /\ WaitOver(k, g)
    /\ at' = [at EXCEPT ![<<k, g>>] = "idle"]
    /\ todo' = [todo EXCEPT ![<<k, g>>] = <<>>]
    /\ UNCHANGED <<mutex, target, audience, delivered, sensorVars, timerVars, worldVars>>

\* The duration elapses with the predicate false
WaitTimesOut(k, g) ==
    /\ at[<<k, g>>] = "wait"
    /\ Unlocked
    /\ ~WaitOver(k, g)
    /\ IF k = "window"
       THEN boundaries < MaxBoundaries /\ boundaries' = boundaries + 1
       ELSE UNCHANGED boundaries
    /\ mutex' = <<k, g>>
    /\ at' = [at EXCEPT ![<<k, g>>] = "run"]
    /\ UNCHANGED <<todo, target, audience, delivered, sensorVars, timerVars, opens, starts,
                   stamps, resetAt, obituaries, dead>>

\* The lifecycle thread is out of date, or was cancelled
Superseded(g) == cancelled["lifecycle"] \/ gen["lifecycle"] # g

\* The lifecycle thread after the activation delay
ActivateAfterDelay(k, g) ==
    LET t == <<k, g>>
    IN  /\ Runs(t, "activate")
        /\ Continue(t, IF Superseded(g) THEN <<>>
                       ELSE IF state = "STARTING" THEN Activate \o Tail(todo[t])
                       ELSE Tail(todo[t]))
        /\ UNCHANGED <<audience, delivered, sensorVars, timerVars, worldVars>>

\* The lifecycle thread of a session that was started without a delay
CheckBeforeWait(k, g) ==
    LET t == <<k, g>>
    IN  /\ Runs(t, "check")
        /\ Continue(t, IF Superseded(g) THEN <<>> ELSE Tail(todo[t]))
        /\ UNCHANGED <<audience, delivered, sensorVars, timerVars, worldVars>>

\* The lifecycle thread after activeStopSeconds
AutoStop(k, g) ==
    LET t == <<k, g>>
    IN  /\ Runs(t, "autoStop")
        /\ Continue(t, IF Superseded(g) \/ state # "STARTED" THEN <<>>
                       ELSE <<Cancel("noMotion"), Cancel("window")>> \o GoDown)
        /\ UNCHANGED <<audience, delivered, sensorVars, timerVars, worldVars>>

\* The no-motion thread after noMotionSeconds: it time-stamps the event and
\* takes the snapshot of the listeners
NoMotionExpires(k, g) ==
    LET t == <<k, g>>
    IN  /\ Runs(t, "expire")
        /\ IF state = "STARTED" /\ startConfig.mode = "NO_MOTION" /\ within
           THEN /\ stamps' = stamps + 1
                /\ audience' = [audience EXCEPT ![t] = listeners]
                /\ Leave(t, "deliver", <<Record(stamps + 1)>>)
                /\ UNCHANGED target
           ELSE Continue(t, <<>>) /\ UNCHANGED <<stamps, audience>>
        /\ UNCHANGED <<delivered, sensorVars, timerVars, opens, starts, resetAt,
                       boundaries, obituaries, dead>>

\* The window thread at the boundary it waited for
BoundaryReached(k, g) ==
    LET t == <<k, g>>
    IN  /\ Runs(t, "boundary")
        /\ Continue(t, IF gen["window"] # g \/ state # "STARTED" THEN <<>>
                       ELSE <<Simple("update")>>)
        /\ UNCHANGED <<audience, delivered, sensorVars, timerVars, worldVars>>

-----------------------------------------------------------------------------
(* Steps without the mutex.                                                 *)

\* A thread takes the mutex at its start, after a callback or after a join
TakeMutex(t) ==
    /\ at[t] \in {"begin", "callback", "join"}
    /\ at[t] = "join" => at[target[t]] = "idle"
    /\ Unlocked
    /\ target' = [target EXCEPT ![t] = Nobody]
    /\ IF todo[t] = <<>>
       THEN at' = [at EXCEPT ![t] = "idle"] /\ UNCHANGED mutex
       ELSE at' = [at EXCEPT ![t] = "run"] /\ mutex' = t
    /\ UNCHANGED <<todo, audience, delivered, sensorVars, timerVars, worldVars>>

\* onEvent of one listener of the snapshot, which may fail
OnEvent(t, l) ==
    /\ ~Terminated
    /\ at[t] = "deliver"
    /\ l \in audience[t]
    /\ audience' = [audience EXCEPT ![t] = @ \ {l}]
    /\ \E ok \in BOOLEAN : delivered' = [delivered EXCEPT ![t] = @ \/ ok]
    /\ UNCHANGED <<mutex, at, todo, target, sensorVars, timerVars, worldVars>>

\* The snapshot is done: an event some listener took becomes m_lastEventInfo
RecordEvent(t) ==
    /\ ~Terminated
    /\ at[t] = "deliver"
    /\ audience[t] = {}
    /\ IF delivered[t]
       THEN Unlocked /\ lastEvent' = Head(todo[t]).stamp
       ELSE UNCHANGED lastEvent
    /\ delivered' = [delivered EXCEPT ![t] = FALSE]
    /\ at' = [at EXCEPT ![t] = "idle"]
    /\ todo' = [todo EXCEPT ![t] = <<>>]
    /\ UNCHANGED <<mutex, target, audience, state, owner, startConfig, hasWindows, within,
                   listeners, timerVars, worldVars>>

-----------------------------------------------------------------------------
ClientCall ==
    \/ \E t \in Thread : Open(t) \/ Stop(t) \/ Close(t) \/ SetActiveWindows(t)
    \/ \E t \in Thread, cfg \in Configs : Start(t, cfg)
    \/ \E l \in Listeners : RegisterEventListener(l) \/ UnregisterEventListener(l)
    \/ \E t \in InjectThreads : InjectMotionEvent(t)

DeathNotice == \E t \in DeathThreads, h \in 1..MaxOpens : BinderDied(t, h)

\* What thread t does on its own once it is in a call or running
Step(t) ==
    \/ ChangeState(t) \/ CancelTimer(t) \/ InvalidateTimer(t)
    \/ ArmLifecycleTimer(t) \/ ArmNoMotionTimer(t) \/ ArmWindowScheduler(t)
    \/ UpdateActiveWindow(t) \/ InjectLocked(t) \/ EndSessionOfTheDead(t) \/ Release(t)
    \/ ReturnToCallback(t) \/ TakeMutex(t) \/ RecordEvent(t)
    \/ \E l \in Listeners : OnEvent(t, l)

\* What the timer thread <<k, g>> does besides
TimerStep(k, g) ==
    \/ BeginWait(k, g) \/ WaitCancelled(k, g) \/ WaitTimesOut(k, g)
    \/ ActivateAfterDelay(k, g) \/ CheckBeforeWait(k, g) \/ AutoStop(k, g)
    \/ NoMotionExpires(k, g) \/ BoundaryReached(k, g)

\* Nothing is left to do: every thread is idle or a timer waits, or the
\* process was terminated.  A thread that is stuck anywhere else deadlocks.
Rest ==
    /\ Terminated \/ (Unlocked /\ \A t \in Thread : at[t] \in {"idle", "wait"})
    /\ UNCHANGED vars

Next ==
    \/ ClientCall
    \/ ClientDies \/ DeathNotice
    \/ \E t \in Thread : Step(t)
    \/ \E k \in Kind, g \in 1..MaxGen : TimerStep(k, g)
    \/ Rest

\* Every thread that can run eventually runs: the scheduler is fair, calls out
\* of the process return, wait_for ends once its duration has passed, and the
\* driver delivers the death notifications it owes.  Clients owe nothing.
Fairness ==
    /\ \A t \in PoolThreads : WF_vars(Step(t))
    /\ \A k \in Kind, g \in 1..MaxGen : WF_vars(Step(<<k, g>>) \/ TimerStep(k, g))
    /\ WF_vars(DeathNotice)

Spec == Init /\ [][Next]_vars

FairSpec == Spec /\ Fairness
=============================================================================
