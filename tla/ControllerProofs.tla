-------------------------- MODULE ControllerProofs --------------------------
(* Theorems about the settings of a motion sensor: for any number of        *)
(* clients, threads, openings and settings, with deaths, timers and calls   *)
(* from inside callbacks.                                                   *)
EXTENDS Controller, TimerRefinementProofs, SessionEventsProofs

\* Only the calls of the owner that the sensor accepts change settings.
LEMMA SettingSteps ==
    ASSUME SettingsWithinCapabilities, [ControllerNext]_controllerVars
    PROVE  \/ /\ UNCHANGED <<capabilities, settings, hasWindows>>
              /\ \/ known' = known
                 \/ known' = <<>>
                 \/ \E f \in DOMAIN settings : Learn(f, settings[f])
           \/ \E f \in DOMAIN settings : \E v :
                 /\ settings' = [settings EXCEPT ![f] = v]
                 /\ Learn(f, v)
                 /\ UNCHANGED capabilities
                 /\ \/ /\ f = "sensitivity"
                       /\ v \in capabilities.minSensitivity..capabilities.maxSensitivity
                       /\ UNCHANGED hasWindows
                    \/ f = "autonomous" /\ v \in BOOLEAN /\ capabilities.autonomy
                       /\ UNCHANGED hasWindows
                    \/ f = "windows" /\ v \subseteq ValidWindows /\ hasWindows' = (v # {})
<1> DEFINE Read == /\ UNCHANGED <<capabilities, settings, hasWindows>>
                   /\ \E f \in DOMAIN settings : Learn(f, settings[f])
           Quiet == /\ UNCHANGED <<capabilities, settings, hasWindows>>
                    /\ known' = known \/ known' = <<>>
           Write(f, v) == /\ settings' = [settings EXCEPT ![f] = v]
                          /\ Learn(f, v)
                          /\ UNCHANGED capabilities
<1>1. DOMAIN settings = {"sensitivity", "autonomous", "windows"}
  BY DEF SettingsWithinCapabilities
<1>2. CASE SensorStep
  <2>1. Quiet
    BY <1>2 DEF SensorStep
  <2> QED
    BY <2>1
<1>3. ASSUME NEW c \in 1..opens, SettingCall(c)
      PROVE  \/ Read
             \/ \E s : /\ Write("sensitivity", s)
                       /\ s \in capabilities.minSensitivity..capabilities.maxSensitivity
                       /\ UNCHANGED hasWindows
             \/ \E b \in BOOLEAN : /\ Write("autonomous", b) /\ capabilities.autonomy
                                   /\ UNCHANGED hasWindows
             \/ \E ws : /\ Write("windows", ws) /\ ws \subseteq ValidWindows
                        /\ hasWindows' = (ws # {})
  <2>1. ASSUME NEW t \in Thread, NEW s \in Sensitivities, SetSensitivity(t, c, s)
        PROVE  /\ Write("sensitivity", s)
               /\ s \in capabilities.minSensitivity..capabilities.maxSensitivity
               /\ UNCHANGED hasWindows
    BY <2>1 DEF SetSensitivity, MayConfigure, Configure, vars, sensorVars
  <2>2. ASSUME NEW t \in Thread, NEW b \in BOOLEAN, SetAutonomousDuringDeepSleep(t, c, b)
        PROVE  Write("autonomous", b) /\ capabilities.autonomy /\ UNCHANGED hasWindows
    BY <2>2 DEF SetAutonomousDuringDeepSleep, MayConfigure, Configure, vars, sensorVars
  <2>3. ASSUME NEW t \in Thread, NEW ws, ws \subseteq ValidWindows, ReplaceWindows(t, c, ws)
        PROVE  /\ Write("windows", ws) /\ ws \subseteq ValidWindows
               /\ hasWindows' = (ws # {})
    BY <2>3 DEF ReplaceWindows, MayConfigure, Configure
  <2>4. ASSUME NEW f \in DOMAIN settings, ReadSetting(c, f)
        PROVE  Read
    BY <2>4 DEF ReadSetting, vars, sensorVars
  <2>5. CASE \E t \in Thread, s \in Sensitivities : SetSensitivity(t, c, s)
    BY <2>5, <2>1
  <2>6. CASE \E t \in Thread, b \in BOOLEAN : SetAutonomousDuringDeepSleep(t, c, b)
    BY <2>6, <2>2
  <2>7. CASE \E t \in Thread, ws \in SUBSET Windows : SetWindows(t, c, ws)
    BY <2>7, <2>3 DEF SetWindows
  <2>8. CASE \E t \in Thread : ClearWindows(t, c)
    BY <2>8, <2>3 DEF ClearWindows
  <2>9. CASE GetSensitivity(c) \/ IsAutonomousDuringDeepSleepEnabled(c) \/ GetActiveWindows(c)
    BY <2>9, <2>4, <1>1 DEF GetSensitivity, IsAutonomousDuringDeepSleepEnabled,
                            GetActiveWindows
  <2> QED
    BY <1>3, <2>5, <2>6, <2>7, <2>8, <2>9 DEF SettingCall
<1>4. ASSUME NEW c \in 1..opens, SessionCall(c)
      PROVE  Quiet
  BY <1>4 DEF SessionCall, GetStartConfig, GetLastEventInfo, settingVars, vars, sensorVars
<1>5. CASE UNCHANGED controllerVars
  BY <1>5 DEF controllerVars, settingVars, vars, sensorVars
<1>6. CASE \E c \in 1..opens : SettingCall(c)
  BY <1>6, <1>3, <1>1
<1>7. CASE \E c \in 1..opens : SessionCall(c)
  BY <1>7, <1>4
<1> QED
  BY <1>2, <1>5, <1>6, <1>7 DEF ControllerNext

\* The settings of every sensor stay within its capabilities, whatever its
\* clients ask for (setSensitivity, setAutonomousDuringDeepSleep,
\* setActiveWindows, clearActiveWindows).
THEOREM SettingsAreSupported == ControllerSpec => []SettingsWithinCapabilities
<1>1. ControllerInit => SettingsWithinCapabilities
  <2> SUFFICES ASSUME ControllerInit PROVE SettingsWithinCapabilities
    OBVIOUS
  <2>1. capabilities.minSensitivity \in
            capabilities.minSensitivity..capabilities.maxSensitivity
    BY CapabilitiesAssumption, RangeAssumption DEF ControllerInit
  <2> QED
    BY <2>1 DEF ControllerInit, SettingsWithinCapabilities
<1>2. SettingsWithinCapabilities /\ [ControllerNext]_controllerVars
          => SettingsWithinCapabilities'
  <2> SUFFICES ASSUME SettingsWithinCapabilities, [ControllerNext]_controllerVars
               PROVE  SettingsWithinCapabilities'
    OBVIOUS
  <2>1. CASE UNCHANGED <<capabilities, settings, hasWindows>>
    BY <2>1 DEF SettingsWithinCapabilities
  <2>2. ASSUME NEW f \in DOMAIN settings, NEW v,
               settings' = [settings EXCEPT ![f] = v],
               UNCHANGED capabilities,
               f = "sensitivity",
               v \in capabilities.minSensitivity..capabilities.maxSensitivity,
               UNCHANGED hasWindows
        PROVE  SettingsWithinCapabilities'
    BY <2>2 DEF SettingsWithinCapabilities
  <2>3. ASSUME NEW f \in DOMAIN settings, NEW v,
               settings' = [settings EXCEPT ![f] = v],
               UNCHANGED capabilities,
               f = "autonomous", v \in BOOLEAN, capabilities.autonomy,
               UNCHANGED hasWindows
        PROVE  SettingsWithinCapabilities'
    <3>1. v \in {FALSE, capabilities.autonomy}
      BY <2>3, CapabilitiesAssumption DEF SettingsWithinCapabilities
    <3> QED
      BY <2>3, <3>1 DEF SettingsWithinCapabilities
  <2>4. ASSUME NEW f \in DOMAIN settings, NEW v,
               settings' = [settings EXCEPT ![f] = v],
               UNCHANGED capabilities,
               f = "windows", v \subseteq ValidWindows, hasWindows' = (v # {})
        PROVE  SettingsWithinCapabilities'
    BY <2>4 DEF SettingsWithinCapabilities
  <2> QED
    BY SettingSteps, <2>1, <2>2, <2>3, <2>4
<1> QED
  BY <1>1, <1>2, PTL DEF ControllerSpec

\* What a client was told of its sensor's settings in its session is so,
\* whoever holds a controller of an earlier session.
THEOREM OwnersKnow == ControllerSpec => []OwnerKnowsSettings
<1>1. ControllerInit => OwnerKnowsSettings
  BY DEF ControllerInit, OwnerKnowsSettings
<1>2. /\ SettingsWithinCapabilities /\ OwnerKnowsSettings
      /\ [ControllerNext]_controllerVars
      => OwnerKnowsSettings'
  <2> SUFFICES ASSUME SettingsWithinCapabilities, OwnerKnowsSettings,
                      [ControllerNext]_controllerVars
               PROVE  OwnerKnowsSettings'
    OBVIOUS
  <2>1. settings = [g \in DOMAIN settings |-> settings[g]]
    BY DEF SettingsWithinCapabilities
  <2>2. CASE settings' = settings /\ (known' = known \/ known' = <<>>)
    BY <2>2 DEF OwnerKnowsSettings
  <2>3. ASSUME NEW f \in DOMAIN settings, settings' = settings, Learn(f, settings[f])
        PROVE  OwnerKnowsSettings'
    BY <2>3 DEF OwnerKnowsSettings, Learn
  <2>4. ASSUME NEW f \in DOMAIN settings, NEW v,
               settings' = [settings EXCEPT ![f] = v], Learn(f, v)
        PROVE  OwnerKnowsSettings'
    <3> SUFFICES ASSUME NEW g \in DOMAIN known' PROVE known'[g] = settings'[g]
      BY DEF OwnerKnowsSettings
    <3>1. CASE g = f
      BY <2>1, <2>4, <3>1 DEF Learn
    <3>2. CASE g # f
      BY <2>1, <2>4, <3>2 DEF Learn, OwnerKnowsSettings
    <3> QED
      BY <3>1, <3>2
  <2> QED
    BY SettingSteps, <2>2, <2>3, <2>4
<1> QED
  BY <1>1, <1>2, SettingsAreSupported, PTL DEF ControllerSpec

\* With its settings and getters the sensor is still the sensor of
\* MotionSensor: everything proved there holds of it.
THEOREM ControllerImplementsSensor ==
    ASSUME WindowSets = BOOLEAN
    PROVE  ControllerSpec => Spec
<1>1. ControllerInit => Init
  BY DEF ControllerInit
<1>2. [ControllerNext]_controllerVars => [Next]_vars
  <2> SUFFICES ASSUME ControllerNext PROVE [Next]_vars
    BY DEF controllerVars
  <2>1. CASE SensorStep
    BY <2>1 DEF SensorStep
  <2>2. ASSUME NEW c \in 1..opens, NEW t \in Thread, NEW ws, ReplaceWindows(t, c, ws)
        PROVE  Next
    <3>1. owner # 0
      BY <2>2 DEF ReplaceWindows, MayConfigure
    <3>2. SetActiveWindows(t)
      BY <2>2, <3>1 DEF ReplaceWindows, MayConfigure, SetActiveWindows
    <3> QED
      BY <3>2 DEF Next, ClientCall
  <2>3. ASSUME NEW c \in 1..opens, SettingCall(c)
        PROVE  [Next]_vars
    BY <2>3, <2>2 DEF SettingCall, SetSensitivity, SetAutonomousDuringDeepSleep, SetWindows,
                      ClearWindows, GetSensitivity, IsAutonomousDuringDeepSleepEnabled,
                      GetActiveWindows, ReadSetting
  <2>4. ASSUME NEW c \in 1..opens, SessionCall(c)
        PROVE  UNCHANGED vars
    BY <2>4 DEF SessionCall, GetStartConfig, GetLastEventInfo
  <2> QED
    BY <2>1, <2>3, <2>4 DEF ControllerNext
<1> QED
  BY <1>1, <1>2, PTL DEF ControllerSpec, Spec

\* In particular its timers keep their promise while settings change.
COROLLARY ControllerKeepsTimers ==
    ASSUME WindowSets = BOOLEAN
    PROVE  ControllerSpec => ImplementsTimers
BY ControllerImplementsSensor, TimersImplemented, PTL

-----------------------------------------------------------------------------
(* The answers about a session.                                             *)

\* What a client thread has left that is part of no session.
Aside(program) == program \in {<<>>, Close1, Close2, Close3, Close4}

\* No session is under way: the sensor is stopped, and its client is neither
\* starting it nor still stopping it.
BetweenSessions == state = "STOPPED" /\ \A c \in ClientThreads : Aside(todo[c])

\* While a session is under way its owner is the one who started it.
OwnerStartedIt == ~BetweenSessions => starter = owner /\ startConfig = asked

\* The stamps an event of the session may have: those taken since its start,
\* and those that were under way then
OwnStamps == {n \in Nat : n > resetAt} \cup underWay

\* Every event that is recorded or on its way has one of them.
EventsAreOwn ==
    /\ resetAt <= stamps
    /\ lastEvent # 0 => lastEvent \in OwnStamps
    /\ AllStampedFrom(OwnStamps)

LEMMA AsideOps ==
    ASSUME NEW program, Aside(program), program # <<>>
    PROVE  /\ Head(program).do \in {"cancel", "invalidate", "release"}
           /\ Aside(Tail(program))
<1>1. /\ Head(program) \in {Simple("release"), Cancel("window"), Invalidate("noMotion"),
                            Invalidate("lifecycle")}
      /\ Tail(program) \in {<<>>, Close1, Close2, Close3}
  BY CloseParts DEF Aside, Parts
<1>2. Head(program).do \in {"cancel", "invalidate", "release"}
  BY <1>1, OpValues
<1> QED BY <1>1, <1>2 DEF Aside

\* Only start() begins a session.
LEMMA SessionsBeginWithStart ==
    ASSUME SingleClient, Types, OneClientInv, BetweenSessions, [Next]_vars,
           ~(\E t \in Thread, cfg \in Configs : Start(t, cfg))
    PROVE  BetweenSessions'
<1> USE DEF Runs
<1>1. ASSUME state' = state, \A c \in ClientThreads : Aside(todo'[c]) PROVE BetweenSessions'
  BY <1>1 DEF BetweenSessions
<1>2. ASSUME NEW t \in Thread, Step(t), t \in ClientThreads PROVE BetweenSessions'
  <2>1. todo[t] # <<>> => /\ Head(todo[t]).do \in {"cancel", "invalidate", "release"}
                          /\ Aside(Tail(todo[t]))
    BY <1>2, AsideOps DEF BetweenSessions
  <2>2. state' = state /\ todo'[t] \in {todo[t], Tail(todo[t]), <<>>}
    <3>1. CASE CancelTimer(t) \/ InvalidateTimer(t)
      <4>1. todo' = [todo EXCEPT ![t] = Tail(todo[t])] /\ state' = state
        BY <3>1 DEF CancelTimer, InvalidateTimer, CancelThread, Continue, Leave, sensorVars
      <4> QED BY <4>1 DEF Types, ThreadsOK, ThreadsTypeOK
    <3>2. CASE Release(t)
      BY <3>2 DEF Release, Continue, Types, ThreadsOK, ThreadsTypeOK
    <3>3. CASE TakeMutex(t) \/ RecordEvent(t) \/ \E l \in Listeners : OnEvent(t, l)
      BY <3>3 DEF TakeMutex, RecordEvent, OnEvent, sensorVars, Types, ThreadsOK, ThreadsTypeOK
    <3> QED BY <1>2, <2>1, <3>1, <3>2, <3>3 DEF Step, ChangeState, ArmLifecycleTimer,
         ArmNoMotionTimer, ArmWindowScheduler, UpdateActiveWindow, InjectLocked,
         EndSessionOfTheDead, ReturnToCallback
  <2>3. Aside(todo'[t])
    <3>1. todo[t] = <<>> => todo'[t] = <<>>
      BY <1>2 DEF Step, ChangeState, CancelTimer, InvalidateTimer, ArmLifecycleTimer,
         ArmNoMotionTimer, ArmWindowScheduler, UpdateActiveWindow, InjectLocked,
         EndSessionOfTheDead, Release, ReturnToCallback, TakeMutex, RecordEvent, OnEvent,
         Types, ThreadsOK, ThreadsTypeOK
    <3>2. Aside(todo[t]) /\ Aside(<<>>)
      BY <1>2 DEF BetweenSessions, Aside
    <3> QED BY <2>1, <2>2, <3>1, <3>2
  <2> QED BY <1>1, <1>2, <2>2, <2>3 DEF SingleClient
<1>3. ASSUME NEW t \in Thread, Step(t), t \notin ClientThreads PROVE BetweenSessions'
  <2>1. \A c \in ClientThreads : todo'[c] = todo[c]
    BY <1>3, StepLeavesPool DEF PoolThreads
  <2>2. ~ChangeState(t)
    <3>1. ASSUME ChangeState(t) PROVE t \in SessionThread
      <4>1. \A op \in NoMotionOp \cup WindowOp \cup InjectOp : op.do # "change"
        BY OpValues DEF NoMotionOp, WindowOp, InjectOp
      <4> QED BY <3>1, <4>1, OtherHead DEF ChangeState, OneClientInv
    <3>2. ASSUME NEW g \in 1..MaxGen, t = LifecycleThread(g), todo[t] # <<>> PROVE FALSE
      BY <3>2, OneLifecycleThread DEF BetweenSessions
    <3> QED BY <1>3, <3>1, <3>2 DEF SessionThread, ChangeState
  <2>3. state' = state
    BY <1>3, <2>2 DEF Step, CancelTimer, InvalidateTimer, ArmLifecycleTimer,
       ArmNoMotionTimer, ArmWindowScheduler, UpdateActiveWindow, InjectLocked,
       EndSessionOfTheDead, Release, ReturnToCallback, TakeMutex, RecordEvent, OnEvent,
       sensorVars
  <2> QED BY <1>1, <2>1, <2>3 DEF BetweenSessions
<1>4. ASSUME NEW k \in Kind, NEW g \in 1..MaxGen, TimerStep(k, g) PROVE BetweenSessions'
  <2>1. state' = state
    BY <1>4 DEF TimerStep, BeginWait, WaitCancelled, WaitTimesOut, ActivateAfterDelay,
         CheckBeforeWait, AutoStop, NoMotionExpires, BoundaryReached, sensorVars
  <2>2. \A c \in ClientThreads : todo'[c] = todo[c]
    BY <1>4, Roles, TimerStepLeavesPool DEF PoolThreads
  <2> QED BY <1>1, <2>1, <2>2 DEF BetweenSessions
<1>5. ASSUME UNCHANGED <<state, todo>> PROVE BetweenSessions'
  BY <1>5 DEF BetweenSessions
<1>6. ASSUME NEW t \in Thread, Open(t) \/ SetActiveWindows(t) PROVE BetweenSessions'
  BY <1>5, <1>6, CallMoves DEF Open, SetActiveWindows, OneClientInv
<1>7. ASSUME NEW t \in Thread, Close(t) PROVE BetweenSessions'
  <2>1. t \in ClientThreads /\ MovesOnly(t, Close4) /\ state' = state
    BY <1>7, CallMoves, StopUnfolds DEF Close, sensorVars, OneClientInv
  <2> QED BY <1>1, <2>1 DEF SingleClient, MovesOnly, Aside
<1>8. ASSUME NEW t \in InjectThreads, InjectMotionEvent(t) PROVE BetweenSessions'
  <2>1. state' = state /\ t \in Thread /\ MovesOnly(t, <<Inject(stamps + 1)>>)
    BY <1>8, Roles, CallMoves DEF InjectMotionEvent, sensorVars, OneClientInv
  <2> QED BY <1>1, <2>1, Roles DEF MovesOnly, BetweenSessions
<1>9. ASSUME NEW l \in Listeners, RegisterEventListener(l) \/ UnregisterEventListener(l)
      PROVE  BetweenSessions'
  BY <1>5, <1>9, ListenerCalls
<1>10. ASSUME NEW t \in Thread, Stop(t) PROVE FALSE
  BY <1>10 DEF Stop, BetweenSessions
<1>11. CASE ClientDies \/ DeathNotice
  BY <1>11 DEF ClientDies, DeathNotice, SingleClient
<1>12. CASE Rest \/ UNCHANGED vars
  BY <1>5, <1>12 DEF Rest, vars, threadVars, sensorVars
<1> QED BY <1>2, <1>3, <1>4, <1>6, <1>7, <1>8, <1>9, <1>10, <1>11, <1>12 DEF Next, ClientCall

\* The owner changes between sessions only, and the configuration at their
\* start only.
LEMMA OwnersOfSessions ==
    ASSUME SingleClient, Types, OneClientInv, FreeMeansOver, [Next]_vars,
           ~(\E t \in Thread, cfg \in Configs : Start(t, cfg))
    PROVE  /\ UNCHANGED <<starts, startConfig>>
           /\ owner' = owner \/ BetweenSessions'
<1>1. /\ UNCHANGED <<starts, startConfig>>
      /\ \/ owner' = owner
         \/ \E t \in Thread : Open(t) \/ Release(t)
  <2>1. ASSUME NEW t \in Thread, Open(t) PROVE UNCHANGED <<starts, startConfig>>
    BY <2>1 DEF Open
  <2>2. ASSUME NEW t \in Thread, Stop(t) \/ Close(t) \/ SetActiveWindows(t)
        PROVE  UNCHANGED <<starts, startConfig, owner>>
    BY <2>2 DEF Stop, Close, SetActiveWindows, sensorVars, worldVars
  <2>3. ASSUME NEW l \in Listeners, RegisterEventListener(l) \/ UnregisterEventListener(l)
        PROVE  UNCHANGED <<starts, startConfig, owner>>
    BY <2>3 DEF RegisterEventListener, UnregisterEventListener, worldVars
  <2>4. ASSUME NEW t \in InjectThreads, InjectMotionEvent(t)
        PROVE  UNCHANGED <<starts, startConfig, owner>>
    BY <2>4 DEF InjectMotionEvent, sensorVars
  <2>5. ASSUME ClientDies \/ DeathNotice PROVE UNCHANGED <<starts, startConfig, owner>>
    BY <2>5 DEF ClientDies, DeathNotice, BinderDied, sensorVars
  <2>6. ASSUME NEW t \in Thread, Step(t)
        PROVE  UNCHANGED <<starts, startConfig>> /\ (owner' = owner \/ Release(t))
    <3>1. ASSUME ChangeState(t) \/ CancelTimer(t) \/ InvalidateTimer(t)
                 \/ ArmLifecycleTimer(t) \/ ArmNoMotionTimer(t) \/ ArmWindowScheduler(t)
          PROVE  UNCHANGED <<starts, startConfig, owner>>
      BY <3>1 DEF ChangeState, CancelTimer, InvalidateTimer, ArmLifecycleTimer,
         ArmNoMotionTimer, ArmWindowScheduler, sensorVars, worldVars
    <3>2. ASSUME UpdateActiveWindow(t) \/ InjectLocked(t) \/ EndSessionOfTheDead(t)
                 \/ ReturnToCallback(t) \/ TakeMutex(t) \/ RecordEvent(t)
          PROVE  UNCHANGED <<starts, startConfig, owner>>
      BY <3>2 DEF UpdateActiveWindow, InjectLocked, EndSessionOfTheDead, ReturnToCallback,
         TakeMutex, RecordEvent, sensorVars, worldVars
    <3>3. ASSUME NEW l \in Listeners, OnEvent(t, l)
          PROVE  UNCHANGED <<starts, startConfig, owner>>
      BY <3>3 DEF OnEvent, sensorVars, worldVars
    <3>4. ASSUME Release(t) PROVE UNCHANGED <<starts, startConfig>>
      BY <3>4 DEF Release, worldVars
    <3> QED BY <2>6, <3>1, <3>2, <3>3, <3>4 DEF Step
  <2>7. ASSUME NEW k \in Kind, NEW g \in 1..MaxGen, TimerStep(k, g)
        PROVE  UNCHANGED <<starts, startConfig, owner>>
    <3>1. ASSUME BeginWait(k, g) \/ WaitCancelled(k, g) \/ WaitTimesOut(k, g)
                 \/ ActivateAfterDelay(k, g)
          PROVE  UNCHANGED <<starts, startConfig, owner>>
      BY <3>1 DEF BeginWait, WaitCancelled, WaitTimesOut, ActivateAfterDelay, sensorVars,
         worldVars
    <3>2. ASSUME CheckBeforeWait(k, g) \/ AutoStop(k, g) \/ NoMotionExpires(k, g)
                 \/ BoundaryReached(k, g)
          PROVE  UNCHANGED <<starts, startConfig, owner>>
      BY <3>2 DEF CheckBeforeWait, AutoStop, NoMotionExpires, BoundaryReached, sensorVars,
         worldVars
    <3> QED BY <2>7, <3>1, <3>2 DEF TimerStep
  <2>8. ASSUME UNCHANGED vars \/ Rest PROVE UNCHANGED <<starts, startConfig, owner>>
    BY <2>8 DEF Rest, vars, sensorVars, worldVars
  <2> QED BY <2>1, <2>2, <2>3, <2>4, <2>5, <2>6, <2>7, <2>8 DEF Next, ClientCall
<1>2. ASSUME NEW t \in Thread, Open(t) PROVE BetweenSessions'
  <2>1. BetweenSessions
    BY <1>2 DEF Open, FreeMeansOver, BetweenSessions, Aside
  <2> QED BY <2>1, SessionsBeginWithStart
<1>3. ASSUME NEW t \in Thread, Release(t) PROVE BetweenSessions'
  <2>1. todo[t] # <<>> /\ Head(todo[t]).do = "release" /\ Continue(t, Tail(todo[t]))
        /\ state' = state
    BY <1>3 DEF Release, Runs
  <2>2. t \in SessionThread
    <3>1. \A op \in NoMotionOp \cup WindowOp \cup InjectOp : op.do # "release"
      BY OpValues DEF NoMotionOp, WindowOp, InjectOp
    <3> QED BY <2>1, <3>1, OtherHead DEF OneClientInv
  <2>3. t \in ClientThreads
    BY <2>1, <2>2, LifecycleHead DEF SessionThread, OneClientInv, SessionInv, PlainOp
  <2>4. state = "STOPPED" /\ Tail(todo[t]) = <<>>
    BY <2>1, <2>3, ClientReleases DEF OneClientInv, SessionInv
  <2>5. todo'[t] = <<>>
    BY <2>1, <2>4, Moves DEF MovesOnly
  <2> QED BY <2>1, <2>3, <2>4, <2>5 DEF BetweenSessions, Aside, SingleClient
<1> QED BY <1>1, <1>2, <1>3

\* A step of the controllers that is none of the sensor leaves the session.
LEMMA SettingsLeaveSessions ==
    ASSUME NEW c \in 1..opens, SettingCall(c) \/ SessionCall(c)
    PROVE  UNCHANGED <<owner, state, todo, startConfig, lastEvent, resetAt, stamps, starter,
                       asked, underWay>>
BY DEF SettingCall, SessionCall, SetSensitivity, SetAutonomousDuringDeepSleep, SetWindows,
   ClearWindows, ReplaceWindows, Configure, GetSensitivity, GetActiveWindows,
   IsAutonomousDuringDeepSleepEnabled, ReadSetting, GetStartConfig, GetLastEventInfo, vars,
   threadVars, sensorVars, worldVars

LEMMA StarterIsOwner ==
    ASSUME SingleClient, Types, OneClientInv, FreeMeansOver, [Next]_vars, OwnerStartedIt,
           [ControllerNext]_controllerVars
    PROVE  OwnerStartedIt'
<1>1. ASSUME UNCHANGED <<owner, state, todo, startConfig, starter, asked>>
      PROVE  OwnerStartedIt'
  BY <1>1 DEF OwnerStartedIt, BetweenSessions
<1>2. ASSUME SensorStep, NEW t \in Thread, NEW cfg \in Configs, Start(t, cfg)
      PROVE  OwnerStartedIt'
  <2>1. owner' = owner /\ starts' # starts
    BY <1>2 DEF Start, Types, WorldTypeOK
  <2>2. starter' = owner /\ asked' = startConfig'
    BY <1>2, <2>1 DEF SensorStep
  <2> QED BY <2>1, <2>2 DEF OwnerStartedIt
<1>3. ASSUME SensorStep, ~(\E t \in Thread, cfg \in Configs : Start(t, cfg))
      PROVE  OwnerStartedIt'
  <2>1. UNCHANGED <<starts, startConfig>> /\ (owner' = owner \/ BetweenSessions')
    BY <1>3, OwnersOfSessions
  <2>2. starter' = starter /\ asked' = asked
    BY <1>3, <2>1 DEF SensorStep
  <2>3. BetweenSessions => BetweenSessions'
    BY <1>3, SessionsBeginWithStart
  <2> QED BY <2>1, <2>2, <2>3 DEF OwnerStartedIt
<1> QED BY <1>1, <1>2, <1>3, SettingsLeaveSessions
           DEF ControllerNext, controllerVars, vars, threadVars, sensorVars, historyVars

LEMMA EventsStayOwn ==
    ASSUME Types, [Next]_vars, EventsAreOwn, [ControllerNext]_controllerVars
    PROVE  EventsAreOwn'
<1>0. stamps \in Nat /\ resetAt \in Nat /\ lastEvent \in Nat
  BY DEF Types, WorldTypeOK, SensorTypeOK
<1>1. ASSUME UNCHANGED <<todo, lastEvent, resetAt, stamps, underWay>> PROVE EventsAreOwn'
  BY <1>1 DEF EventsAreOwn, OwnStamps, AllStampedFrom
<1>2. ASSUME SensorStep, NEW t \in Thread, NEW cfg \in Configs, Start(t, cfg)
      PROVE  EventsAreOwn'
  <2>1. lastEvent' = 0 /\ resetAt' = stamps /\ stamps' = stamps /\ starts' # starts
    BY <1>2 DEF Start, Types, WorldTypeOK
  <2>2. underWay' = UnderWay
    BY <1>2, <2>1 DEF SensorStep
  <2>3. PICK S : S = {n \in Nat : n > stamps} \cup UnderWay
    OBVIOUS
  <2>4. AllStampedFrom(S)
    <3>1. StampedFrom(UnderWay) \subseteq StampedFrom(S)
      BY <2>3 DEF StampedFrom
    <3> QED BY <3>1, UnderWayIsAll, SeqDef DEF AllStampedFrom
  <2>5. AllStampedFrom(S)'
    BY <2>3, <2>4, NextKeepsStamps
  <2>6. OwnStamps' = S
    BY <2>1, <2>2, <2>3 DEF OwnStamps
  <2> QED BY <1>0, <2>1, <2>5, <2>6 DEF EventsAreOwn, AllStampedFrom
<1>3. ASSUME SensorStep, ~(\E t \in Thread, cfg \in Configs : Start(t, cfg))
      PROVE  EventsAreOwn'
  <2>1. resetAt' = resetAt /\ starts' = starts /\ stamps' \in Nat /\ stamps' >= stamps
    BY <1>3, StampsGrow
  <2>2. underWay' = underWay
    BY <1>3, <2>1 DEF SensorStep
  <2>3. PICK S : S = OwnStamps
    OBVIOUS
  <2>4. \A n \in Nat : n > stamps => n \in S
    BY <1>0, <2>3 DEF OwnStamps, EventsAreOwn
  <2>5. AllStampedFrom(S)' /\ (lastEvent' \in {lastEvent, 0} \/ lastEvent' \in S)
    BY <2>3, <2>4, NextKeepsStamps DEF EventsAreOwn, AllStampedFrom
  <2>6. OwnStamps' = S
    BY <2>1, <2>2, <2>3 DEF OwnStamps
  <2>7. resetAt' <= stamps' /\ (lastEvent' # 0 => lastEvent' \in S)
    BY <1>0, <2>1, <2>3, <2>5 DEF EventsAreOwn
  <2> QED BY <2>5, <2>6, <2>7 DEF EventsAreOwn, AllStampedFrom
<1> QED BY <1>1, <1>2, <1>3, SettingsLeaveSessions
           DEF ControllerNext, controllerVars, vars, threadVars, sensorVars, worldVars,
               historyVars

\* getStartConfig and getLastEventInfo answer about the session that the
\* caller itself started: with the configuration it passed, and with an event
\* that was stamped since, or that a thread was still injecting or delivering
\* when it started the sensor, of whichever session.  Motions are injected at
\* any time; the owner makes one call at a time.
THEOREM OwnersReadTheirSessions ==
    ASSUME WindowSets = BOOLEAN, SingleClient
    PROVE  ControllerSpec => []ReadsOwnSession
<1>1. ControllerInit => OwnerStartedIt /\ EventsAreOwn /\ ReadsOwnSession
  <2> SUFFICES ASSUME ControllerInit
               PROVE  OwnerStartedIt /\ EventsAreOwn /\ ReadsOwnSession
    OBVIOUS
  <2>1. OwnerStartedIt
    BY Roles DEF ControllerInit, Init, OwnerStartedIt, BetweenSessions, Aside
  <2>2. AllStampedFrom(OwnStamps)
    BY StampedPrograms DEF ControllerInit, Init, AllStampedFrom
  <2>3. EventsAreOwn
    BY <2>2 DEF ControllerInit, Init, EventsAreOwn
  <2> QED BY <2>1, <2>3 DEF ControllerInit, ReadsOwnSession, NoAnswer
<1>2. /\ Types /\ OneClientInv /\ FreeMeansOver /\ [Next]_vars /\ OwnerStartedIt
      /\ [ControllerNext]_controllerVars
      => OwnerStartedIt'
  BY StarterIsOwner
<1>3. Types /\ [Next]_vars /\ EventsAreOwn /\ [ControllerNext]_controllerVars => EventsAreOwn'
  BY EventsStayOwn
<1>4. /\ OwnerStartedIt /\ EventsAreOwn /\ ReadsOwnSession
      /\ [ControllerNext]_controllerVars
      => ReadsOwnSession'
  <2> SUFFICES ASSUME OwnerStartedIt, EventsAreOwn, ReadsOwnSession,
                      [ControllerNext]_controllerVars
               PROVE  ReadsOwnSession'
    OBVIOUS
  <2>1. ASSUME answer' = NoAnswer PROVE ReadsOwnSession'
    BY <2>1 DEF ReadsOwnSession, NoAnswer
  <2>2. CASE SensorStep
    BY <2>1, <2>2 DEF SensorStep
  <2>3. CASE \E c \in 1..opens : SettingCall(c)
    BY <2>1, <2>3 DEF SettingCall, SetSensitivity, SetAutonomousDuringDeepSleep, SetWindows,
       ClearWindows, ReplaceWindows, Configure, GetSensitivity, GetActiveWindows,
       IsAutonomousDuringDeepSleepEnabled, ReadSetting
  <2>4. ASSUME NEW c \in 1..opens, GetStartConfig(c) PROVE ReadsOwnSession'
    <3>1. c = owner /\ state # "STOPPED" /\ starter' = starter /\ asked' = asked
      BY <2>4 DEF GetStartConfig, MayReadSession
    <3>2. starter = owner /\ startConfig = asked
      BY <3>1 DEF OwnerStartedIt, BetweenSessions
    <3>3. answer'.call = "getStartConfig" /\ answer'.by = c /\ answer'.config = startConfig
      BY <2>4 DEF GetStartConfig
    <3> QED BY <3>1, <3>2, <3>3 DEF ReadsOwnSession
  <2>5. ASSUME NEW c \in 1..opens, GetLastEventInfo(c) PROVE ReadsOwnSession'
    <3>1. /\ c = owner /\ state # "STOPPED"
          /\ starter' = starter /\ resetAt' = resetAt /\ underWay' = underWay
      BY <2>5 DEF GetLastEventInfo, MayReadSession, vars, worldVars
    <3>2. starter = owner
      BY <3>1 DEF OwnerStartedIt, BetweenSessions
    <3>3. answer'.call = "getLastEventInfo" /\ answer'.by = c /\ answer'.event = lastEvent
      BY <2>5 DEF GetLastEventInfo
    <3>4. lastEvent # 0 => lastEvent > resetAt \/ lastEvent \in underWay
      BY DEF EventsAreOwn, OwnStamps
    <3> QED BY <3>1, <3>2, <3>3, <3>4 DEF ReadsOwnSession
  <2>6. CASE UNCHANGED controllerVars
    BY <2>6 DEF ReadsOwnSession, controllerVars, historyVars, vars, worldVars
  <2> QED BY <2>2, <2>3, <2>4, <2>5, <2>6 DEF ControllerNext, SessionCall
<1>5. ControllerSpec => Spec
  BY ControllerImplementsSensor
<1>6. Spec => []Types /\ []OneClientInv /\ []FreeMeansOver /\ [][Next]_vars
  BY TypesInvariant, OneClientInvariant, FreeSensorsAreOver, PTL DEF Spec
<1> QED BY <1>1, <1>2, <1>3, <1>4, <1>5, <1>6, PTL DEF ControllerSpec

=============================================================================
