# Verification of the motion sensor vComponent

This project models the Binder service of the repository in TLA+, checks the
models with TLC on small instances and proves theorems about them with TLAPS.
Paths below are relative to the repository; `MotionSensor.cpp`,
`MotionSensorController.cpp` and so on stand for
`src/aidl/vcomponent_MotionSensor.cpp`, ...

## 1. The system

| Component | State | Operations | Interacts with |
|---|---|---|---|
| Motion sensor (`MotionSensor`) | `m_state`, owner (controller, listener, binder), start configuration, last event, listeners, windows and window status, and for each of three timer threads a `std::thread`, a cancelled flag and a generation | `open`, `close`, `registerEventListener`, `unregisterEventListener`, `injectMotionEvent`, `binderDied`, the helpers `...Locked`, the three thread functions, the destructor | calls clients' listeners, is called by clients, driver and control plane |
| Controller (`MotionSensorController`) | none of its own: it works on the sensor's (settings, start configuration, last event), under the sensor's mutex | `start`, `stop`, `setActiveWindows`, `clearActiveWindows`, `setSensitivity`, `setAutonomousDuringDeepSleep`, their getters, `getStartConfig`, `getLastEventInfo` | created by `open` |
| Active windows (part of `MotionSensor`) | `m_activeWindows`, `m_isWithinActiveWindow`, scheduler thread | status at a time of day, seconds until the next boundary, update and schedule | wall clock, window callbacks |
| Control plane | instance, manager, port (globals) | start, stop, `onControlPlaneMessage` | UT control plane, manager, `injectMotionEvent` |
| Manager | the sensors of the configuration | constructor, `getMotionSensorIds`, `getMotionSensor` | service, control plane, clients |
| HFP configuration | none | load and validate YAML | manager |
| Service | none | `main`: arguments, load, start control plane, publish, join the thread pool | all |
| Listener stubs, logger, build | none | log | - |

One mutex guards a sensor, so most calls look atomic. They are not. The code
gives the mutex up in the middle of an operation in two places:

* around every callback of the controller's listener (`changeStateLocked`,
  `notifyActiveWindowLocked`);
* around every `join` of a timer thread (`cancelLifecycleTimerLocked`,
  `cancelNoMotionTimerLocked`, `cancelActiveWindowLocked`).

`start()` may do so seven times, and every other thread may do anything at
each of them. What is hard here follows from that: operations of two callers
that interleave, timers started while they are cancelled, generations and flags
that tell an old timer from a new one, joins that wait for each other, an owner
who dies in the middle of a call, and a session that ends while an event of it
is being delivered. Nothing is persisted, so there is no recovery of data.

What makes each component correct:

* **Sensor and controller**: a running sensor has an owner; ownership ends on a
  stopped sensor; the state follows STOPPED, STARTING, STARTED, STOPPING,
  STOPPED; a session keeps the timers it depends on and loses all of them at
  its end; no `std::thread` is overwritten; joins are short and end; events
  belong to the session they are reported in; STARTING ends; a dead client's
  sensor becomes free; destroying a sensor ends its threads. Settings stay
  within the capabilities and belong to the owner, and a session reports only
  on itself and on motions that were under way when it began.
* **Active windows**: the status is right in every second between two
  boundaries, unless a boundary came while it was being computed, and the client
  knows it.
* **Control plane**: a motion command is injected exactly once, into the sensor
  it names, however it is written; the worker never outlives the manager.
* **Manager, configuration, service**: the sensors of the file are served
  together or not at all, as the arguments ask; a failure at start-up leaves
  nothing running.

`PROJECT.json` lists the hazards at their lines and the properties that cover them.

## 2. The modules

| Module | What it is |
|---|---|
| `MotionSensor` | one sensor: calls, three timer threads, injected motion, death of clients, every unlock of the mutex |
| `OneShotTimer` | abstract: a timer that can be armed, cancelled and armed again |
| `SensorLifecycle` | abstract: the life cycle a client sees, with its progress |
| `MotionSensorProperties` | the sensor's type invariant, invariants, liveness properties and the two refinement mappings |
| `MotionSensorProofs` | theorems about it for any number of threads, with proofs |
| `OneClientProofs` | theorems about a client that makes one call at a time: the programs of the session's threads go with the state; owner and joins |
| `SessionEventsProofs` | the inactivity thread and its events belong to a session; what any event is that a session ends up with, injected ones included |
| `LifecycleProofs` | on top of both: what a session at rest has and what is left of it, and the steps of `SensorLifecycle` |
| `TimerRefinementProofs` | the sensor's timers implement `OneShotTimer`: proof |
| `MCMotionSensor` | values of its constants for TLC |
| `Controller` | composes `MotionSensor` with the settings and with all calls of controllers, current and stale, and states their properties |
| `ControllerProofs` | theorems about it, with proofs |
| `MCController` | values of its constants for TLC |
| `SensorDestructor` | composes `MotionSensor` with its destructor |
| `MCSensorDestructor` | values of its constants for TLC |
| `ActiveWindow` | windows against the clock, second by second, and their properties |
| `ActiveWindowProofs` | theorems about it, with proofs |
| `MCActiveWindow` | values of its constants for TLC |
| `ControlPlane` | what `onControlPlaneMessage` reads out of a message |
| `Service` | the process: `main` with its arguments, configuration, manager, control plane and its worker |
| `ServiceProperties` | its type invariant and invariants |
| `ServiceProofs` | theorems about it, with proofs |
| `MCService` | values of its constants for TLC |

### MotionSensor

An operation of the code is a *program*, a sequence of operations under the
mutex (`StartProgram`, `StopProgram`, `ReleaseController`,
`BinderDiedProgram`, ...). `todo[t]` is what thread `t` has left of its program
and `at[t]` where it is: `idle`, `run` (with the mutex), `callback`, `join`,
`wait` (in a `wait_for`), `deliver` (calling event listeners), `begin` (about
to take the mutex) or `terminated` (it called `std::terminate`). The thread with
the mutex runs the head of its program; `CallOut` and `CancelThread` are the two
places that park it and free the mutex. Branches of the code that read state
after an unlock (`goDown`, `armNoMotion`, `armWindow`, `update`, `autoStop`, ...)
are operations of their own, so they read the state of that later moment.

| Model | Code |
|---|---|
| `Open`, `Close`, `RegisterEventListener`, `UnregisterEventListener` | the calls of that name in `MotionSensor.cpp` |
| `Start`, `Stop`, `SetActiveWindows` | `start`, `stop`, `setActiveWindows` and `clearActiveWindows` in `MotionSensorController.cpp` |
| `InjectMotionEvent`, `InjectLocked`, `OnEvent`, `RecordEvent` | `injectMotionEvent`: time stamp, critical section, calls of the listeners, second critical section |
| `BinderDied`, `EndSessionOfTheDead` | `binderDied` |
| `ChangeState` | `changeStateLocked` with its callback |
| `CancelTimer`, `InvalidateTimer` | `cancel...Locked`, `invalidateLifecycleTimersLocked` |
| `ArmLifecycleTimer`, `ArmNoMotionTimer`, `ArmWindowScheduler` | what follows the cancel in `start...TimerLocked` and `scheduleActiveWindowLocked` |
| `BeginWait`, `WaitCancelled`, `WaitTimesOut` | `wait_for` with its predicate (`WaitOver`) |
| `ActivateAfterDelay`, `CheckBeforeWait`, `AutoStop` | the lifecycle thread |
| `NoMotionExpires`, `BoundaryReached` | the inactivity thread, the window scheduler |
| `TakeMutex`, `Release`, `ReturnToCallback` | `lock.lock()`, the end of `releaseControllerLocked`, the end of a nested call |

A timer thread is named `<<kind, generation>>`; the code gives a generation to
one thread of a kind only. Assigning to a handle that owns a thread is
`std::terminate` (`Spawn`). Time is abstracted to "the wait may end"; durations
only count as zero or positive. Listeners are external: a callback may take any
time, an event listener may fail, and with `Reentrant = TRUE` the client calls
the sensor from inside a callback. The code expects that:
`cancelLifecycleTimerLocked` detaches a lifecycle thread that cancels itself
(lines 568-572), which happens in no other way.

`resetAt` is a history variable (the value of `stamps` at the last `start`),
and `opens`, `starts`, `stamps`, `boundaries` also count towards the bounds.

### What the sensor implements

`OneShotTimer` has no threads, flags or mutex: an arming has a number, at most
one number is live, arming takes a cancel first, and only a live number fires.
`MotionSensorProperties` maps the sensor to it twice, for the inactivity timer
and for the window scheduler: the number is the generation, `live` is the thread
its flag and generation let fire (`LiveTimer`), `asleep` and `awake` are the threads
in and outside of `wait_for`. `ImplementsTimers` is the conjunction. The lifecycle
thread is no such timer (its wait does not look at the generation).

`SensorLifecycle` is what a client with one call at a time relies on: one owner,
the four states in their order, `close` of a stopped sensor only, and the progress
the sensor owes without a call (STARTING ends, STOPPING ends in STOPPED, a session
with `activeStopSeconds` ends). The mapping takes `session` to the owner and `limited`
to the start configuration. `FollowsLifecycle` says that the sensor takes no
other steps than these, and is proved; `CompletesLifecycle` is the progress, stated as
leads-to properties, not as fairness of the abstract actions, because TLC cannot
evaluate `ENABLED` under a substitution.

### Controller

Every `open` hands out a controller; `Controller` names it by the number of the
opening, and a client may use that of any opening so far. `SensorStep` is any
step of `MotionSensor`; the calls on settings are the other steps, and
`SetWindows` and `ClearWindows` replace `SetActiveWindows`. They are one critical
section each, in any state the threads of the sensor leave the mutex free.

| `Controller` | Code (`MotionSensorController.cpp`) |
|---|---|
| `MayConfigure`, `MayReadSession` | the checks of owner and state under the mutex |
| `SetSensitivity`, `SetAutonomousDuringDeepSleep`, `SetWindows`, `ClearWindows` | the setters |
| `GetSensitivity`, `IsAutonomousDuringDeepSleepEnabled`, `GetActiveWindows` | the getters, allowed in every state |
| `GetStartConfig`, `GetLastEventInfo` | the calls about the running session |

`known` (what the owner was told since its `open`), `starter` (who called `start`
last), `asked` (the configuration it passed), `underWay` (the stamps of the events
that threads were still injecting or delivering at that `start`) and `answer` (the
answer of the last step) are history variables.

### SensorDestructor

`BeginDestruction` is the critical section of `~MotionSensor`, `EndDestruction` its
joins. It begins when no call is in progress (the last reference was dropped)
and the timer threads are anywhere.

### ActiveWindow

A day of `Day` seconds, the windows, the status `within`, whether the handle of the
scheduler owns a thread (`handle`), where the call in progress (`caller`) and the
scheduler thread (`scheduler`) are, the seconds of its wait (`remaining`) and the
clock. `Tick` may happen at every step: between the two looks at the clock, in a
callback, and while a thread is due. How late a thread is and how long a callback
takes have no bound.

| `ActiveWindow` | Code (`MotionSensor.cpp`) |
|---|---|
| `Contains`, `IsWithin` | `isWithinActiveWindowLocked` |
| `SecondsUntil`, `Boundaries`, `SecondsUntilBoundary`, `Schedule` | `scheduleActiveWindowLocked`, lines 767-808 |
| `Judge`, `Told` | `updateActiveWindowLocked` and its callback |
| `Cancel`, `Join`, `Joined` | `cancelActiveWindowLocked`: a scheduler that waits is joined at once, one in its callback makes the caller wait with the mutex free |
| `Start`, `StartSchedules`, `StartJoins`, `StartJoined`, `StartOverwrites` | a session becomes STARTED; line 808 is reached with a free handle or with a joinable one (`std::terminate`) |
| `Boundary`, `BoundaryTooLate`, `SchedulerSchedules` | the thread of lines 809-826: it is due, it finds no session, it schedules its successor, also while it is being joined |
| `Stop...`, `Close...` | `stop()` and the automatic stop, `releaseControllerLocked` |
| `SetActiveWindows` | `setActiveWindows`, `clearActiveWindows` |

One call runs at a time, from outside callbacks; more callers, deaths and the other
timers are left to `MotionSensor`, where the window status at a boundary is a free
choice. `inherited` (the session began with a scheduler left from the one before)
and `overtaken` (a window began or ended between the two looks at the clock) are
history variables.

### ControlPlane and Service

`ControlPlane` has no state: a `Message` is a record of the two places each
field can be in (below `IMotionSensor`, or plain), and `Present`, `Filtered`,
`FirstString`, `FirstId`, `SensorId` are the functions the handler applies to it.
Texts are the few values the handler tells apart; a sensor id keeps its width
(`AsInt32`, with `Half` for 2^31). Whether the library reports the key
`IMotionSensor`, which has no text of its own, is a free choice per message.

| `Service` | Code |
|---|---|
| `ReadOption`, `RejectArguments`, `OpenFile` | the loop over the arguments of `main`; `Suits` is what it accepts after `--hfp` and `--port` |
| `ReadSensor`, `RejectEmptyFile`, `ValidEntry` | `parseMotionSensorConfig`, `getMotionSensorInfo` |
| `MakeManager`, `Lookup` | the constructor and `getMotionSensor` in `MotionSensorManager.cpp` |
| `InitFails`, `RegisterCallbacks`, `StopControlPlane` | `start...` and `stopMotionSensorControlPlane` |
| `PublishService`, `LeaveThreadPool`, `Exited` | the rest of `main` |
| `HandleKey`, `InjectReturns` | `onControlPlaneMessage`, up to and after `injectMotionEvent` |
| `Receive`, `TakeMessage`, `FinishMessage` | the UT control plane (external) |

An `Argument` is what the code tells apart of a text: the option it is, the path
it is once trimmed, the number it is. So the value of `--hfp` may look like an
option, as in the code.

`main` is one thread, the control plane's worker the other. What `main` does
before `UT_ControlPlane_Start` nobody sees, so `startMotionSensorControlPlane` is one
step with its outcomes. The library is modelled from how the code uses it: it
calls back once for each registered key a message has, in any order, and
`UT_ControlPlane_Stop` waits for the worker, which finishes its message
(`MotionSensorControlPlane.cpp:465-466`, "Stops worker threads"). What a call of
`injectMotionEvent` does is the subject of `MotionSensor`; here it takes time and
returns.

## 3. The runs

Bounds: `MaxOpens`, `MaxStarts`, `MaxInjects`, `MaxBoundaries` bound how often
an action happens, in its guard. `MaxGen` bounds the generations and is chosen so
large that no step of a passing run is refused for it: none takes a generation
beyond it. Every run checks for deadlock except `destructor`, where a
destroyed sensor takes no step, and `stop_in_callback`, which is about one. A second opening, a second session or a
second injected motion is what it takes for something of the first to reach into
it; a third repeats that with the same states. Symmetry over client threads is
used in one run of safety properties.

| Run | Expect | What it shows |
|---|---|---|
| `lifecycle` | pass | MOTION mode, one client thread, two openings, two sessions, all four combinations of delay and automatic stop, an injected motion: owner, timers and joins are right, and the sensor implements `SensorLifecycle`, progress included |
| `timers` | pass | NO_MOTION sessions with and without windows, one client thread: the timers implement `OneShotTimer`, do not outlive their session, and events belong to it |
| `concurrent` | pass | two client threads that also call from callbacks, two injected motions: live timers are owned, joins are prompt, the timers implement `OneShotTimer` |
| `death` | pass | the client dies at any point, and calls from no callback: joins end, the sensor is released |
| `controller` | pass | the controllers of two openings around two MOTION sessions of two configurations, a motion injected at any time, sensitivity control or deep-sleep autonomy, windows that are refused: settings are within the capabilities and what their owner knows, a session tells of its own configuration and of no event but those stamped since its start or under way then |
| `windows` | pass | all sets of up to two windows on a four-second day, with the clock advancing at any step and calls that meet the scheduler anywhere, in its callbacks too: status, client and clock agree, with the exceptions the properties name |
| `service` | pass | `main`, the worker, command lines with options doubled, missing and malformed, seven files (empty, several sensors with equal and negative ids, an invalid one behind a valid one), two of 27 messages, every failure of the start-up: arguments are honoured, commands are injected once, the worker has a manager, nothing is left behind |
| `death_during_start` | violation of `SessionHasOwner` | `start()` resumes after the owner's death was handled and leaves the sensor STARTED without owner |
| `inject_restarts_timer` | violation of `NeverTerminates` | an injected motion and another call both pass the cancel of the inactivity timer, and the second assignment to the `std::thread` ends the process |
| `lost_activation` | violation of `StartingEnds` | a `start()` without delay but with an automatic stop is held up in its STARTED or window callback while another thread stops that session and starts a delayed one; it resumes and cancels the timer of the new session, which stays STARTING |
| `stop_in_callback` | violation of `JoinsEnd` | the automatic stop joins the window scheduler, which is in its callback; the client calls `stop()` from there, which joins the lifecycle thread: both wait for ever |
| `destructor` | violation of `DestructorClean` | the sensor is destroyed while its lifecycle thread is in the window callback; the thread resumes and arms a window scheduler nobody joins |

The violations are disagreements with what the repository says of itself; the
findings in `PROJECT.json` quote the lines.

Every pass run is a statement under its assumptions, and they matter. Outside
them these properties fail in the model, for reasons one can follow in the code:

* `SessionHasOwner`, `FollowsLifecycle`, `StoppedMeansQuiet` and
  `PromptLifecycleJoin` hold for a client that makes one call at a time; two
  threads of a client, calls from callbacks or the death of the client break
  each of them.
* `FollowsLifecycle` also fails for one client thread in NO_MOTION mode with an
  automatic stop: while the lifecycle thread joins the inactivity thread
  (line 550), `stop()` ends the session, and the lifecycle thread goes on with
  STOPPED to STOPPING.
* `StoppedMeansQuiet` also fails for one client thread with windows: `stop()`
  joins a scheduler that is in its callback; the scheduler then still sees
  STARTED and arms a successor that nobody cancels. If that one is in its callback
  when the next session wants to schedule, it leaves a joinable handle, and line 808
  is `std::terminate` (`StartOverwrites`).
* `ClientKnowsStatus` leaves out the sessions that such a successor reaches
  (`inherited`). There it fails: line 758 announces a session inside a window
  only if the handle is empty, so a client that was told nothing believes it
  is outside.
* `JoinsEnd` holds if callbacks do not call back; run `stop_in_callback` shows the
  deadlock otherwise. It takes a listener whose callbacks are synchronous.
* `StatusFollowsClock` says when the status is right, and also when it is not: the
  time is looked up for the status (line 756) and, after the callback if there is
  one, for the schedule (line 779). If a window begins or ends between the two, the
  status is wrong until the scheduler wakes, whose boundary is the one after, up to
  a day later. How long the callback takes does not matter, only whether that
  second begins in it; without a callback the two looks are microseconds apart.
* `ReadsOwnSession` names the one kind of event a session may report besides its
  own: stamped before its start, but still being injected or delivered then. An
  injected motion that is delivered while the sensor is stopped and started again
  does write its event into the new session, also into that of a new owner
  (lines 450-456). Inactivity events have no such exception, because `stop()` waits
  for their thread: in run `timers` `LastEventOfSession` holds as it stands.

`ArmedTimerIsOwned`, `PromptJoin`, `ImplementsTimers`,
`SettingsWithinCapabilities` and `OwnerKnowsSettings` have no such exception: they
are proved for every value of the constants.
Windows that are accepted are left to the proofs of the last two: in a run, their
schedulers would multiply the states of run `controller` beyond its time.

`service` uses `Half = 4`, so that ids wrap; two messages (`MaxQueue`,
`MaxReceived`) are one in work and one waiting, which is all `Stop` can meet.

### Fairness

`FairSpec` assumes weak fairness of each thread's own steps (the operating
system runs every thread that can run; `wait_for` ends by its duration;
callbacks and event listeners return) and of the delivery of death
notifications by the driver. Clients owe no call. A thread waiting for the mutex
is not owed it under contention (weak fairness only), and the properties checked
do not need it. The other modules claim safety only.

## 4. What is proved

`MotionSensorProofs`, from the assumptions the module states about its constants
(`ThreadAssumption`, `ConfigAssumption`, `WindowAssumption`,
`BoundAssumption`): any number of client, death and control-plane threads,
any configurations, any bounds, reentrant or not.

* `TypeCorrect`: `TypeOK`. It is strengthened to `Types` by
  `DeliveryIsRecorded` (a thread in a delivery has the event still to record),
  without which the type of `lastEvent` is not inductive. Lemmas say what each
  move of a thread (`Continue`, `Leave`, `CallOut`, `Enter`, `CancelThread`,
  `Spawn`) does to the types, and each action is one step on top of them.
* `TimerInvariant`: `TimerInv`, the conjunction of
  `FreshGenerations` (a generation not given out has no thread),
  `LiveTimerIsOwned` (a thread that is neither cancelled nor out of date is the
  one its handle owns), `HandlesAreOld` and `TargetsAreOver` (a thread being
  joined is cancelled or out of date). The argument: a cancel empties the
  handle and sets the flag in one critical section; only a new thread clears
  the flag, and it takes a generation that no thread, handle or join refers
  to, so everything older is out of date in the same step. Every other action
  is a `QuietStep`.
* `ArmedTimersAreOwned` and `JoinsArePrompt` follow: the two properties of run
  `concurrent`. The lifecycle thread is left out on purpose: its predicate does
  not look at the generation, and the property is false for it
  (`PromptLifecycleJoin` with two client threads).

`TimerRefinementProofs`, from the same assumptions:

* `TimersImplemented`: `Spec => ImplementsTimers`. Every step of the sensor is, for
  each of the two kinds, an action of `OneShotTimer` or a stutter. Lemmas sort the
  steps by what they are to a timer (`StutterOfTimer`, `Move`, `CancelOfTimer`,
  `SpawnOfTimer`); the invariant behind it is `TimerInv`: that a new thread finds
  nothing live, and has a number never used before, is `FreshGenerations` and
  `LiveTimerIsOwned`.

`ControllerProofs`, for any capabilities, windows, clients and threads, with
deaths and reentrant calls, except for the last item:

* `SettingsAreSupported`: `SettingsWithinCapabilities`, and `OwnersKnow`:
  `OwnerKnowsSettings`. Both rest on `SettingSteps`, which says that a step either
  leaves the settings alone or is an accepted call of the owner. `RangeAssumption`
  (the file has no empty range) is what makes the constructor's value legal.
* `ControllerImplementsSensor`: `ControllerSpec => Spec`, the sensor with all
  controller calls is the sensor of `MotionSensor`, if windows may be set and
  cleared there (`WindowSets = BOOLEAN`). So what is proved of `Spec` holds with
  the calls of stale controllers as well; `ControllerKeepsTimers` says so of
  `ImplementsTimers`.
* `OwnersReadTheirSessions` (`SingleClient`, see below): `ReadsOwnSession`, injected
  motions included. `OwnStamps`: every stamp in the sensor is later than `resetAt` or
  one of `underWay`. `StarterIsOwner`: a sensor that is not stopped belongs to the
  controller that started it, which is where the one client is needed.

`ActiveWindowProofs`, for every length of the day and all finite sets of windows:

* `StatusConstantUntilBoundary`: between now and the computed boundary the
  status of no window changes. Each window is constant until its own two
  boundaries, and the computed distance is the least of all
  (`SecondsUntilBoundaryIsLeast`).
* `StatusCorrect`: `StatusFollowsClock`, without an assumption about callbacks or the
  scheduler. The inductive invariant says that while the scheduler sleeps, the status
  is that of each of the next `remaining` seconds, or the opposite of each if it was
  overtaken.
* `ClientKnows`: `ClientKnowsStatus`. It needs where each thread may be when the
  handle is empty, and that a successor is only left by a scheduler that is
  being joined. `WindowTypeCorrect`: `TypeOK`.

`ServiceProofs`, for all command lines, all files, all messages and every width of an integer:

* `OneCallActs` and `SomeCallActs`: of the callbacks for a message at most one gets
  past the filter, and one does for every motion command.
* `ServiceInvariant`: `ServiceInv`, the types and `ReadPrefix` (what is read is the
  valid beginning of the file), `WholeFile`, `PlaneState` (the globals of the control
  plane are all set exactly between its start and its end in `main`) and
  `MessageState` (nothing is injected before the one call that acts, its sensor
  after it). `MessageState` is what makes `InjectedOnce` inductive.
* `CommandsInjectOnce`, `ManagerStays`, `NothingIsLeft`, `FileIsServedWhole` and
  `ServiceTypeCorrect` follow: all invariants of run `service`. `LookupFinds` needs a
  least element of a set of indices, which comes from the library's
  well-foundedness of `<`.
* `ArgumentsAreHonoured`: `ArgumentsHonoured`. `ArgumentsInv` says the same of the
  arguments read so far: `index` is odd, everything before it was understood, and
  `path` and `port` are what was given last before it (`OptionRead`).

`SessionEventsProofs`, for any clients, threads, deaths, callbacks and injected motions:

* `LastEventsOfSession`: `LastEventOfSession`, from a session start at which nothing is under
  way (`NothingUnderWayAtStart`, an assumption about behaviours: each `start` finds
  no event being injected or delivered). All events since then are later than
  `resetAt`, because every stamp a thread has in its program, holds for recording or
  has recorded is a later one (`StampedFrom`); `UnderWay` collects exactly these places
  (`UnderWayIsAll`).

### A client that makes one call at a time

`OneClientProofs`, `SessionEventsProofs` and `LifecycleProofs` are about the
properties of runs `lifecycle` and `timers`, which the code keeps only for a
client whose calls do not overlap. Each theorem names what it assumes of the
constants. None of these assumptions is there for the proof's sake: TLC finds a
counterexample to the theorem's property when it is dropped, for the reason given.

| Assumption | Meaning | What breaks the property without it |
|---|---|---|
| `SingleClient` | one thread of the client calls, from no callback, and its process does not die in a session; any number of control-plane threads, sessions, openings and configurations | runs `lost_activation` and `death_during_start` |
| `NoInjection` | no motion is injected | an injected motion restarts the inactivity timer (run `inject_restarts_timer`) and is itself joined by nobody |
| `MotionOnly` | sessions report motion, not inactivity | the automatic stop gives up the mutex to join the inactivity thread (section 3) |
| `SessionArmsAlone` | `NoInjection` or `MotionOnly` | as `NoInjection` |
| `NoWindows` | no client sets windows | a scheduler in its callback arms a successor for a session that is being stopped (section 3) |

All of the interleaving that is left stays in: the calls with the lifecycle
thread, the callbacks of both, the joins, window schedulers and injected motions.

* `OneClientInvariant` (`SingleClient`): `OneClientInv`. The program of every thread
  of the session is a suffix of one of the code's, and `LifecyclePhase` and
  `ClientPhase` say in which state each suffix may be left: while `start()` runs no
  lifecycle thread has work, `stop()` has joined it before it changes the state,
  and only `stop()` on its way to that join runs beside it.
  `LifecycleWithinReach` (every lifecycle thread is in the handle, or the client
  joins it) and `LifecycleJoins` (no new one exists meanwhile) make this inductive:
  without them a join could end with another thread at work. Programs are built by
  `Then`, and lemmas (`StopParts`, `ActivationParts`, ...) give the head and the tail
  of each, so that no step of a proof counts positions of a sequence.
* `SessionsHaveOwners`: `SessionHasOwner`, by `FreeSensorsAreOver`.
  `LifecycleJoinsArePrompt`: `PromptLifecycleJoin`, which is half of `LifecycleJoins`.
* `NoMotionInvariant` (and `NoInjection`): the inactivity thread is in its handle or
  being joined, and whoever winds the session up has it behind (`WindingUp`).
  `NoEventsAfterStop`: `NoEventAfterStop`. `InactivityEventsOfSession` is what follows
  for events: without injected motions the last event of a session is later than
  `resetAt`.
* `NoWindowsPermitMotion` (`SingleClient`): `NoWindowsPermit`. `UpdateOwed`: an active
  session whose window status may be old has a thread with an `update` next.
* `SettledSessionsAreArmed` (`SingleClient`, so with windows, injected motions and
  both modes): `TimersArmed`. "At rest" is not inductive; what is, is who owes the
  timer. `LifecycleOwed`: a session that awaits its activation or its automatic stop
  has a client still in its call, or a lifecycle thread with work left that its
  generation and its flag let go on (`InCharge`); this needs `ProgramsFit`, that
  programs were made for the start configuration and the generation of this
  session. `WindowOwed`: an active session with windows has a program that will
  schedule the boundary (`Schedules`) or end the session, or a scheduler that the
  handle owns, not cancelled and not out of date (`Watches`). At rest
  the programs are gone, and the threads that are left are in their wait
  (`SessionWaits`, `WindowPrograms`).
* `StoppedSensorsAreQuiet` and `HandlesAreFreeWhenArmed` (and `NoWindows`,
  `SessionArmsAlone`): `StoppedMeansQuiet` and `NeverTerminates`. The second rests on
  `HandleFree`: from the cancel of a timer to the start of the next one no other
  thread gives the handle a thread.
* `LifecycleFollowed` (and `NoWindows`, `MotionOnly`): `FollowsLifecycle`, each step of
  the sensor is an action of `SensorLifecycle` or a stutter. Its invariant is
  `StopsInOrder` (`StopsDoNotMeet`): of the automatic stop and a `stop()` that races
  with it, one at most has the session to end, because the automatic stop keeps the
  mutex when it has nothing to join.

So every invariant of the passing runs is a theorem, under the assumptions above
where the code needs them. Only model-checked: all liveness properties,
`CompletesLifecycle` among them, and deadlock freedom (liveness under fairness and
`ENABLED` are out of the prover's reach). `OneShotTimer` has no liveness: when a
timer fires is up to the clock.

## 5. What is not modelled

* `linkToDeath` that fails (a client dead before `open` links): never reported
  by the driver, so its sensor stays open.
* `State::ERROR`: no line of the repository sets it, so the branches of
  `close` and `binderDied` for it are dead.
* `localtime_r` that fails, and a wall clock that is set or changes for
  daylight saving time.
* `getState`, `getCapabilities` and `getMotionSensorIds`: they read what other
  properties are about and change nothing.
* Calls that are rejected (null pointers, invalid durations, no owner, wrong
  state): they change nothing.
* A call that reaches a destroyed sensor: a controller has a plain pointer to its
  sensor, and sensors live until `main` returns. `SensorDestructor` starts when no
  call is in progress.
* The order of overlapping deliveries: with two events under way
  `m_lastEventInfo` ends as the one recorded last, which may be the older one. The
  model has both orders; the repository does not say which is right.
* The default path of the configuration. It is a constant of the model, so no
  run tells that `README.md:86` names `vcomponent_configurations/hfp-sensor.yaml`
  and `vcomponent_MotionSensorService.h:31` `hfp-sensor-motion.yaml`.
* Properties of windows with equal endpoints. The model has them: as
  `isWithinActiveWindowLocked` accepts them for 0 only (line 734), a window such as
  10:00-10:00 permits nothing, while `vcomponent_MotionSensor.h:162-163` says that
  it permits monitoring around the clock.
* Two sensors with one id: nothing forbids such a file, the first one is called.
* That `UT_ControlPlane_Stop` returns: the library is not part of the repository.
* The YAML text and its parser, and a port the control plane rejects, which
  `main` never passes. Listener stubs, logger and build: no state.
* Sensor ids that are no number: the handler's reading of them is modelled, but
  the repository does not say what they should mean, so no property judges it.

## 6. Plan

1. Done: `MotionSensor` with its properties and proofs; `ActiveWindow` with its
   proofs; `ControlPlane` and `Service`, arguments included, with theirs.
2. Done: `OneShotTimer` and `SensorLifecycle`, the refinements as properties of
   runs `lifecycle`, `timers` and `concurrent`, the first one proved.
3. Done: `Controller` (settings, stale controllers) with proofs; `SensorDestructor`.
4. Done: the invariants of runs `lifecycle`, `timers` and `controller` and the safety
   part of `SensorLifecycle`, for a client that makes one call at a time.
5. Proofs with more threads: `NoWindowsPermit` for any number of them (an `update`
   follows every change to STARTED, whoever makes it); `FollowsLifecycle` with
   windows for sessions without an automatic stop.
6. `Service` composed with sensors that are stopped, closed or destroyed while the
   worker calls them.
