------------------------- MODULE MotionSensorProofs -------------------------
(***************************************************************************)
(* Theorems about one motion sensor, for every value of the constants of   *)
(* MotionSensor: any number of threads, listeners and configurations, any  *)
(* bounds, clients that call back from their callbacks or do not.          *)
(***************************************************************************)
EXTENDS MotionSensorProperties, SequenceTheorems, TLAPS

-----------------------------------------------------------------------------
(* Programs are sequences of operations.                                    *)

Program == Seq(Op)

LEMMA OpFields ==
    ASSUME NEW op \in Op
    PROVE  /\ op.do = "change" => op.to \in State
           /\ op.do \in {"cancel", "invalidate"} => op.timer \in Kind
           /\ op.do \in {"inject", "record"} => op.stamp \in Nat
           /\ op.do = "armLifecycle" => /\ op.timer \in 1..MaxGen
                                        /\ op.delayed \in BOOLEAN
                                        /\ op.stops \in BOOLEAN
BY DEF Op, SimpleNames

LEMMA OpTypes ==
    /\ \A s \in State : Change(s) \in Op
    /\ \A k \in Kind : Cancel(k) \in Op /\ Invalidate(k) \in Op
    /\ \A n \in Nat : Inject(n) \in Op /\ Record(n) \in Op
    /\ \A g \in 1..MaxGen, d \in BOOLEAN, s \in BOOLEAN : ArmLifecycle(g, d, s) \in Op
    /\ \A name \in SimpleNames : Simple(name) \in Op
BY DEF Op, Change, Cancel, Invalidate, Inject, Record, ArmLifecycle, Simple

LEMMA ProgramTypes ==
    /\ <<>> \in Program
    /\ \A a \in Op : <<a>> \in Program
    /\ \A a \in Op, b \in Op : <<a, b>> \in Program
    /\ \A a \in Op, b \in Op, c \in Op : <<a, b, c>> \in Program
    /\ \A p \in Program, q \in Program : p \o q \in Program
    /\ \A p \in Program : p # <<>> => Head(p) \in Op /\ Tail(p) \in Program
BY EmptySeq, ConcatProperties, HeadTailProperties DEF Program

LEMMA TimerProgramTypes ==
    /\ StartNoMotionTimer \in Program
    /\ ScheduleActiveWindow \in Program
    /\ InvalidateTimers \in Program
    /\ ReleaseController \in Program
    /\ GoDown \in Program
    /\ Activate \in Program
    /\ StopProgram \in Program
    /\ BinderDiedProgram \in Program
    /\ NoMotionProgram \in Program
    /\ WindowProgram \in Program
<1>1. StartNoMotionTimer \in Program /\ ScheduleActiveWindow \in Program
  BY OpTypes, ProgramTypes DEF StartNoMotionTimer, ScheduleActiveWindow, Kind, SimpleNames
<1>2. InvalidateTimers \in Program
  BY OpTypes, ProgramTypes DEF InvalidateTimers, Kind
<1>3. ReleaseController \in Program
  BY <1>2, OpTypes, ProgramTypes DEF ReleaseController, SimpleNames
<1>4. GoDown \in Program
  BY OpTypes, ProgramTypes DEF GoDown, State
<1>5. Activate \in Program
  BY <1>1, OpTypes, ProgramTypes DEF Activate, State, SimpleNames
<1>6. StopProgram \in Program
  BY <1>2, <1>4, ProgramTypes DEF StopProgram
<1>7. BinderDiedProgram \in Program
  BY <1>2, <1>3, OpTypes, ProgramTypes DEF BinderDiedProgram, SimpleNames
<1>8. NoMotionProgram \in Program /\ WindowProgram \in Program
  BY OpTypes, ProgramTypes DEF NoMotionProgram, WindowProgram, SimpleNames
<1> QED BY <1>1, <1>2, <1>3, <1>4, <1>5, <1>6, <1>7, <1>8

LEMMA StartProgramType ==
    ASSUME NEW cfg \in StartConfig, NEW g \in 1..MaxGen
    PROVE  StartProgram(cfg, g) \in Program
<1>1. \A d \in BOOLEAN, s \in BOOLEAN : StartLifecycleTimer(g, d, s) \in Program
  BY OpTypes, ProgramTypes DEF StartLifecycleTimer, Kind
<1>2. StartLifecycleTimer(g, TRUE, cfg.activeStop) \in Program
  BY <1>1 DEF StartConfig
<1>3. StartLifecycleTimer(g, FALSE, TRUE) \in Program
  BY <1>1
<1>4. <<Change("STARTING")>> \in Program
  BY OpTypes, ProgramTypes DEF State
<1> QED BY <1>2, <1>3, <1>4, TimerProgramTypes, ProgramTypes DEF StartProgram

LEMMA LifecycleProgramType ==
    \A d \in BOOLEAN, s \in BOOLEAN : LifecycleProgram(d, s) \in Program
BY OpTypes, ProgramTypes DEF LifecycleProgram, SimpleNames

-----------------------------------------------------------------------------
(* How the moves of a thread keep the types.                                *)

LEMMA TimerThreadsAreThreads ==
    /\ TimerThreads \subseteq Thread
    /\ PoolThreads \subseteq Thread
    /\ \A k \in Kind, g \in 1..MaxGen : <<k, g>> \in TimerThreads
    /\ \A t \in PoolThreads : t \notin TimerThreads
    /\ Nobody \notin Thread
BY ThreadAssumption DEF Thread, TimerThreads

\* A thread in the delivery of an event has the event still to record.
DeliveryIsRecorded ==
    \A t \in Thread : at[t] = "deliver" => todo[t] # <<>> /\ Head(todo[t]).do = "record"

ThreadsOK == ThreadsTypeOK /\ DeliveryIsRecorded

LEMMA ContinueType ==
    ASSUME ThreadsOK, NEW t \in Thread, NEW program \in Program, Continue(t, program)
    PROVE  ThreadsOK'
BY DEF ThreadsOK, DeliveryIsRecorded, ThreadsTypeOK, Continue, Program, Place

LEMMA LeaveType ==
    ASSUME ThreadsOK, NEW t \in Thread, NEW program \in Program,
           NEW pc \in Place \ {"deliver"}, Leave(t, pc, program),
           target' \in [Thread -> Thread \cup {Nobody}]
    PROVE  ThreadsOK'
BY DEF ThreadsOK, DeliveryIsRecorded, ThreadsTypeOK, Leave, Program

LEMMA CallOutType ==
    ASSUME ThreadsOK, NEW t \in Thread, NEW program \in Program, CallOut(t, program)
    PROVE  ThreadsOK'
<1>1. CASE owner = 0
  BY <1>1, ContinueType DEF CallOut
<1>2. CASE owner # 0
  <2>1. target' \in [Thread -> Thread \cup {Nobody}]
    BY <1>2 DEF CallOut, ThreadsOK, ThreadsTypeOK
  <2>2. "callback" \in Place \ {"deliver"}
    BY DEF Place
  <2> QED BY <1>2, <2>1, <2>2, LeaveType DEF CallOut
<1> QED BY <1>1, <1>2

\* A thread leaves to deliver an event which it records afterwards.
LEMMA DeliverType ==
    ASSUME ThreadsOK, NEW t \in Thread, NEW n \in Nat,
           Leave(t, "deliver", <<Record(n)>>), UNCHANGED target
    PROVE  ThreadsOK'
<1>1. <<Record(n)>> \in Program
  BY OpTypes, ProgramTypes
<1>2. Head(<<Record(n)>>).do = "record" /\ <<Record(n)>> # <<>>
  BY DEF Record
<1> QED BY <1>1, <1>2 DEF ThreadsOK, DeliveryIsRecorded, ThreadsTypeOK, Leave, Program, Place

LEMMA EnterType ==
    ASSUME ThreadsOK, NEW t \in Thread, NEW program \in Program, Enter(t, program)
    PROVE  ThreadsOK'
<1>1. program \o <<Simple("return")>> \o todo[t] \in Program
  BY OpTypes, ProgramTypes DEF ThreadsOK, ThreadsTypeOK, Program, SimpleNames
<1> QED
  BY <1>1 DEF ThreadsOK, DeliveryIsRecorded, ThreadsTypeOK, Enter, Program, Place

LEMMA CancelThreadType ==
    ASSUME ThreadsOK, TimersTypeOK, NEW t \in Thread, NEW k \in Kind,
           NEW program \in Program, CancelThread(t, k, program)
    PROVE  /\ ThreadsOK'
           /\ handle' = [handle EXCEPT ![k] = Nobody]
           /\ cancelled' = [cancelled EXCEPT ![k] = TRUE]
<1>1. CASE handle[k] \in {Nobody, t}
  BY <1>1, ContinueType DEF CancelThread
<1>2. CASE handle[k] \notin {Nobody, t}
  <2>1. handle[k] \in Thread
    BY <1>2, TimerThreadsAreThreads DEF TimersTypeOK
  <2>2. target' \in [Thread -> Thread \cup {Nobody}]
    BY <1>2, <2>1 DEF CancelThread, ThreadsOK, ThreadsTypeOK
  <2>3. "join" \in Place \ {"deliver"}
    BY DEF Place
  <2> QED BY <1>2, <2>2, <2>3, LeaveType DEF CancelThread
<1> QED BY <1>1, <1>2

LEMMA SpawnType ==
    ASSUME ThreadsOK, TimersTypeOK, NEW t \in Thread, NEW k \in Kind, NEW g \in 1..MaxGen,
           NEW program \in Program, NEW rest \in Program,
           Spawn(t, k, g, "begin", program, rest)
    PROVE  ThreadsOK' /\ TimersTypeOK'
<1>1. <<k, g>> \in TimerThreads /\ <<k, g>> \in Thread /\ <<k, g>>[1] = k
  BY TimerThreadsAreThreads
<1>2. ThreadsOK'
  BY <1>1 DEF ThreadsOK, DeliveryIsRecorded, ThreadsTypeOK, Spawn, Program, Place
<1>3. cancelled' \in [Kind -> BOOLEAN] /\ gen' \in [Kind -> 0..MaxGen]
  BY BoundAssumption DEF TimersTypeOK, Spawn
<1>4. /\ handle' \in [Kind -> TimerThreads \cup {Nobody}]
      /\ \A j \in Kind : handle'[j] # Nobody => handle'[j][1] = j
  BY <1>1 DEF TimersTypeOK, Spawn
<1> QED BY <1>2, <1>3, <1>4 DEF TimersTypeOK

-----------------------------------------------------------------------------
(* Type correctness.                                                        *)

Types == ThreadsOK /\ EventsTypeOK /\ SensorTypeOK /\ TimersTypeOK /\ WorldTypeOK

LEMMA Bounds == MaxOpens \in Nat /\ MaxGen \in Nat
BY BoundAssumption

LEMMA InitTypes == Init => Types
<1> SUFFICES ASSUME Init PROVE Types
  OBVIOUS
<1>1. ThreadsOK
  BY ProgramTypes DEF Init, ThreadsOK, ThreadsTypeOK, DeliveryIsRecorded, Place, Program
<1>2. EventsTypeOK
  BY DEF Init, EventsTypeOK
<1>3. SensorTypeOK
  BY WindowAssumption, BoundAssumption DEF Init, SensorTypeOK, State, StartConfig
<1>4. TimersTypeOK
  BY BoundAssumption DEF Init, TimersTypeOK
<1>5. WorldTypeOK
  BY DEF Init, WorldTypeOK
<1> QED BY <1>1, <1>2, <1>3, <1>4, <1>5 DEF Types

\* The operation at the head of the program of a thread that runs
LEMMA RunsType ==
    ASSUME ThreadsOK, NEW t \in Thread, NEW name, Runs(t, name)
    PROVE  Head(todo[t]) \in Op /\ Head(todo[t]).do = name /\ Tail(todo[t]) \in Program
BY ProgramTypes DEF ThreadsOK, ThreadsTypeOK, Runs, Program

LEMMA CallTypes ==
    ASSUME Types, ClientCall \/ ClientDies \/ DeathNotice
    PROVE  Types'
<1> USE DEF Types
<1>1. ASSUME NEW t \in Thread, Open(t) PROVE Types'
  <2>1. SensorTypeOK'
    BY <1>1, BoundAssumption DEF Open, SensorTypeOK, WorldTypeOK
  <2>2. WorldTypeOK'
    BY <1>1 DEF Open, WorldTypeOK
  <2> QED
    BY <1>1, <2>1, <2>2 DEF Open, ThreadsOK, ThreadsTypeOK, DeliveryIsRecorded, EventsTypeOK,
         TimersTypeOK, threadVars, timerVars
<1>2. ASSUME NEW t \in Thread, NEW cfg \in Configs, Start(t, cfg) PROVE Types'
  <2>1. gen["lifecycle"] + 1 \in 1..MaxGen /\ cfg \in StartConfig
    BY <1>2, BoundAssumption, ConfigAssumption DEF Start, TimersTypeOK, Kind
  <2>2. StartProgram(cfg, gen["lifecycle"] + 1) \in Program
    BY <2>1, StartProgramType
  <2>3. ThreadsOK'
    BY <1>2, <2>2, EnterType DEF Start
  <2>4. TimersTypeOK'
    <3>1. gen' \in [Kind -> 0..MaxGen]
      <4>1. gen' = [gen EXCEPT !["lifecycle"] = gen["lifecycle"] + 1]
        BY <1>2 DEF Start
      <4>2. gen["lifecycle"] + 1 \in 0..MaxGen
        BY <2>1
      <4>3. gen \in [Kind -> 0..MaxGen]
        BY DEF TimersTypeOK
      <4> QED BY <4>1, <4>2, <4>3, Zenon
    <3> QED BY <1>2, <3>1 DEF Start, TimersTypeOK
  <2>5. EventsTypeOK' /\ SensorTypeOK' /\ WorldTypeOK'
    BY <1>2, <2>1 DEF Start, EventsTypeOK, SensorTypeOK, WorldTypeOK
  <2> QED BY <2>3, <2>4, <2>5
<1>3. ASSUME NEW t \in Thread, Stop(t) \/ Close(t) PROVE Types'
  <2>1. ThreadsOK'
    BY <1>3, TimerProgramTypes, EnterType DEF Stop, Close
  <2>2. UNCHANGED <<audience, delivered, sensorVars, timerVars, worldVars>>
    BY <1>3 DEF Stop, Close
  <2> QED
    BY <2>1, <2>2 DEF EventsTypeOK, SensorTypeOK, TimersTypeOK, WorldTypeOK,
         sensorVars, timerVars, worldVars
<1>4. ASSUME NEW t \in Thread, SetActiveWindows(t) PROVE Types'
  BY <1>4, WindowAssumption DEF SetActiveWindows, ThreadsOK, ThreadsTypeOK,
       DeliveryIsRecorded, EventsTypeOK, SensorTypeOK, TimersTypeOK, WorldTypeOK,
       threadVars, timerVars, worldVars
<1>5. ASSUME NEW l \in Listeners, RegisterEventListener(l) \/ UnregisterEventListener(l)
      PROVE Types'
  BY <1>5 DEF RegisterEventListener, UnregisterEventListener, ThreadsOK, ThreadsTypeOK,
       DeliveryIsRecorded, EventsTypeOK, SensorTypeOK, TimersTypeOK, WorldTypeOK,
       threadVars, timerVars, worldVars
<1>6. ASSUME NEW t \in InjectThreads, InjectMotionEvent(t) PROVE Types'
  <2>1. t \in Thread /\ <<Inject(stamps + 1)>> \in Program
    BY OpTypes, ProgramTypes DEF Thread, PoolThreads, WorldTypeOK
  <2>2. ThreadsOK'
    BY <1>6, <2>1 DEF InjectMotionEvent, ThreadsOK, ThreadsTypeOK, DeliveryIsRecorded,
         Program, Place
  <2> QED
    BY <1>6, <2>2 DEF InjectMotionEvent, EventsTypeOK, SensorTypeOK, TimersTypeOK,
         WorldTypeOK, sensorVars, timerVars
<1>7. ASSUME ClientDies PROVE Types'
  <2>1. WorldTypeOK'
    <3>1. owner \in 1..MaxOpens
      BY <1>7, Bounds DEF ClientDies, SensorTypeOK
    <3> QED BY <1>7, <3>1 DEF ClientDies, WorldTypeOK
  <2>2. UNCHANGED <<threadVars, sensorVars, timerVars>>
    BY <1>7 DEF ClientDies
  <2> QED
    BY <2>1, <2>2 DEF ThreadsOK, ThreadsTypeOK, DeliveryIsRecorded, EventsTypeOK,
         SensorTypeOK, TimersTypeOK, threadVars, sensorVars, timerVars
<1>8. ASSUME NEW t \in DeathThreads, NEW h \in 1..MaxOpens, BinderDied(t, h) PROVE Types'
  <2>1. t \in Thread
    BY DEF Thread, PoolThreads
  <2>2. ThreadsOK'
    BY <1>8, <2>1, TimerProgramTypes, EnterType DEF BinderDied, ThreadsOK, ThreadsTypeOK,
         DeliveryIsRecorded
  <2> QED
    BY <1>8, <2>2 DEF BinderDied, EventsTypeOK, SensorTypeOK, TimersTypeOK, WorldTypeOK,
         sensorVars, timerVars
<1> QED BY <1>1, <1>2, <1>3, <1>4, <1>5, <1>6, <1>7, <1>8 DEF ClientCall, DeathNotice

LEMMA StepTypes ==
    ASSUME Types, NEW t \in Thread, Step(t)
    PROVE  Types'
<1> USE DEF Types
<1>1. CASE ChangeState(t)
  <2> DEFINE new == Head(todo[t]).to
  <2>1. new \in State /\ Tail(todo[t]) \in Program
    BY <1>1, RunsType, OpFields DEF ChangeState
  <2>2. ThreadsOK'
    BY <1>1, <2>1, ContinueType, CallOutType DEF ChangeState
  <2>3. SensorTypeOK'
    BY <1>1, <2>1 DEF ChangeState, SensorTypeOK
  <2> QED
    BY <1>1, <2>2, <2>3 DEF ChangeState, EventsTypeOK, TimersTypeOK, WorldTypeOK,
         timerVars, worldVars
<1>2. CASE CancelTimer(t)
  <2> DEFINE k == Head(todo[t]).timer
  <2>1. k \in Kind /\ Tail(todo[t]) \in Program
    BY <1>2, RunsType, OpFields DEF CancelTimer
  <2>2. CancelThread(t, k, Tail(todo[t]))
    BY <1>2 DEF CancelTimer
  <2>3. /\ ThreadsOK'
        /\ handle' = [handle EXCEPT ![k] = Nobody]
        /\ cancelled' = [cancelled EXCEPT ![k] = TRUE]
    BY <2>1, <2>2, CancelThreadType
  <2>4. TimersTypeOK'
    BY <1>2, <2>1, <2>3 DEF CancelTimer, TimersTypeOK
  <2> QED
    BY <1>2, <2>3, <2>4 DEF CancelTimer, EventsTypeOK, SensorTypeOK, WorldTypeOK,
         sensorVars, worldVars
<1>3. CASE InvalidateTimer(t)
  <2> DEFINE k == Head(todo[t]).timer
  <2>1. k \in Kind /\ Tail(todo[t]) \in Program
    BY <1>3, RunsType, OpFields DEF InvalidateTimer
  <2>2. CancelThread(t, k, Tail(todo[t]))
    BY <1>3 DEF InvalidateTimer
  <2>3. /\ ThreadsOK'
        /\ handle' = [handle EXCEPT ![k] = Nobody]
        /\ cancelled' = [cancelled EXCEPT ![k] = TRUE]
    BY <2>1, <2>2, CancelThreadType
  <2>4. gen' \in [Kind -> 0..MaxGen]
    BY <1>3, <2>1, Bounds DEF InvalidateTimer, TimersTypeOK
  <2>5. TimersTypeOK'
    BY <2>1, <2>3, <2>4 DEF TimersTypeOK
  <2> QED
    BY <1>3, <2>3, <2>5 DEF InvalidateTimer, EventsTypeOK, SensorTypeOK, WorldTypeOK,
         sensorVars, worldVars
<1>4. CASE ArmLifecycleTimer(t)
  <2> DEFINE op == Head(todo[t])
  <2>1. /\ op.timer \in 1..MaxGen
        /\ LifecycleProgram(op.delayed, op.stops) \in Program
        /\ Tail(todo[t]) \in Program
    BY <1>4, RunsType, OpFields, LifecycleProgramType DEF ArmLifecycleTimer
  <2>2. ThreadsOK' /\ TimersTypeOK'
    BY <1>4, <2>1, SpawnType DEF ArmLifecycleTimer, Kind
  <2> QED
    BY <1>4, <2>2 DEF ArmLifecycleTimer, EventsTypeOK, SensorTypeOK, WorldTypeOK,
         sensorVars, worldVars
<1>5. CASE ArmNoMotionTimer(t)
  <2>1. Tail(todo[t]) \in Program
    BY <1>5, RunsType DEF ArmNoMotionTimer
  <2>2. ThreadsOK' /\ TimersTypeOK'
    <3>1. CASE state = "STARTED" /\ startConfig.mode = "NO_MOTION" /\ startConfig.noMotion
      <4>1. gen["noMotion"] + 1 \in 1..MaxGen
        BY <1>5, <3>1, Bounds DEF ArmNoMotionTimer, TimersTypeOK, Kind
      <4> QED BY <1>5, <2>1, <3>1, <4>1, SpawnType, TimerProgramTypes
                 DEF ArmNoMotionTimer, Kind
    <3>2. CASE ~(state = "STARTED" /\ startConfig.mode = "NO_MOTION" /\ startConfig.noMotion)
      BY <1>5, <2>1, <3>2, ContinueType DEF ArmNoMotionTimer, TimersTypeOK, timerVars
    <3> QED BY <3>1, <3>2
  <2> QED
    BY <1>5, <2>2 DEF ArmNoMotionTimer, EventsTypeOK, SensorTypeOK, WorldTypeOK,
         sensorVars, worldVars
<1>6. CASE ArmWindowScheduler(t)
  <2>1. Tail(todo[t]) \in Program
    BY <1>6, RunsType DEF ArmWindowScheduler
  <2>2. ThreadsOK' /\ TimersTypeOK'
    <3>1. CASE state = "STARTED" /\ hasWindows
      <4>1. gen["window"] + 1 \in 1..MaxGen
        BY <1>6, <3>1, Bounds DEF ArmWindowScheduler, TimersTypeOK, Kind
      <4> QED BY <1>6, <2>1, <3>1, <4>1, SpawnType, TimerProgramTypes
                 DEF ArmWindowScheduler, Kind
    <3>2. CASE ~(state = "STARTED" /\ hasWindows)
      BY <1>6, <2>1, <3>2, ContinueType DEF ArmWindowScheduler, TimersTypeOK, timerVars
    <3> QED BY <3>1, <3>2
  <2> QED
    BY <1>6, <2>2 DEF ArmWindowScheduler, EventsTypeOK, SensorTypeOK, WorldTypeOK,
         sensorVars, worldVars
<1>7. CASE UpdateActiveWindow(t)
  <2>1. Tail(todo[t]) \in Program /\ ScheduleActiveWindow \o Tail(todo[t]) \in Program
    BY <1>7, RunsType, TimerProgramTypes, ProgramTypes DEF UpdateActiveWindow
  <2>2. ThreadsOK'
    BY <1>7, <2>1, ContinueType, CallOutType DEF UpdateActiveWindow
  <2>3. within' \in BOOLEAN
    BY <1>7 DEF UpdateActiveWindow, SensorTypeOK
  <2> QED
    BY <1>7, <2>2, <2>3 DEF UpdateActiveWindow, EventsTypeOK, SensorTypeOK, TimersTypeOK,
         WorldTypeOK, timerVars, worldVars
<1>8. CASE InjectLocked(t)
  <2>1. Head(todo[t]).stamp \in Nat
    BY <1>8, RunsType, OpFields DEF InjectLocked
  <2>2. ThreadsOK'
    BY <1>8, <2>1, ContinueType, DeliverType, TimerProgramTypes, ProgramTypes
       DEF InjectLocked
  <2>3. EventsTypeOK'
    BY <1>8 DEF InjectLocked, EventsTypeOK, SensorTypeOK
  <2> QED
    BY <1>8, <2>2, <2>3 DEF InjectLocked, SensorTypeOK, TimersTypeOK, WorldTypeOK,
         sensorVars, timerVars, worldVars
<1>9. CASE EndSessionOfTheDead(t)
  <2>1. (IF state \in {"STARTING", "STARTED"} THEN GoDown ELSE <<Change("STOPPED")>>)
            \o Tail(todo[t]) \in Program
    BY <1>9, RunsType, OpTypes, TimerProgramTypes, ProgramTypes
       DEF EndSessionOfTheDead, State
  <2>2. ThreadsOK'
    BY <1>9, <2>1, ContinueType DEF EndSessionOfTheDead
  <2> QED
    BY <1>9, <2>2 DEF EndSessionOfTheDead, EventsTypeOK, SensorTypeOK, TimersTypeOK,
         WorldTypeOK, sensorVars, timerVars, worldVars
<1>10. CASE Release(t)
  <2>1. ThreadsOK'
    BY <1>10, RunsType, ContinueType DEF Release
  <2>2. owner' \in 0..MaxOpens
    BY <1>10, Bounds DEF Release
  <2> QED
    BY <1>10, <2>1, <2>2 DEF Release, EventsTypeOK, SensorTypeOK, TimersTypeOK,
         WorldTypeOK, timerVars, worldVars
<1>11. CASE ReturnToCallback(t)
  <2>1. "callback" \in Place \ {"deliver"}
    BY DEF Place
  <2>2. ThreadsOK'
    BY <1>11, <2>1, RunsType, LeaveType DEF ReturnToCallback, ThreadsOK, ThreadsTypeOK
  <2> QED
    BY <1>11, <2>2 DEF ReturnToCallback, EventsTypeOK, SensorTypeOK, TimersTypeOK,
         WorldTypeOK, sensorVars, timerVars, worldVars
<1>12. CASE TakeMutex(t)
  <2>1. ThreadsOK'
    BY <1>12 DEF TakeMutex, ThreadsOK, ThreadsTypeOK, DeliveryIsRecorded, Place
  <2> QED
    BY <1>12, <2>1 DEF TakeMutex, EventsTypeOK, SensorTypeOK, TimersTypeOK,
         WorldTypeOK, sensorVars, timerVars, worldVars
<1>13. CASE RecordEvent(t)
  <2>1. Head(todo[t]).stamp \in Nat
    <3>1. todo[t] # <<>> /\ Head(todo[t]).do = "record"
      BY <1>13 DEF RecordEvent, ThreadsOK, DeliveryIsRecorded
    <3>2. Head(todo[t]) \in Op
      BY <3>1, ProgramTypes DEF ThreadsOK, ThreadsTypeOK, Program
    <3> QED BY <3>1, <3>2, OpFields
  <2>2. ThreadsOK'
    BY <1>13, ProgramTypes DEF RecordEvent, ThreadsOK, ThreadsTypeOK,
         DeliveryIsRecorded, Program, Place
  <2>3. EventsTypeOK'
    BY <1>13 DEF RecordEvent, EventsTypeOK
  <2>4. SensorTypeOK'
    BY <1>13, <2>1 DEF RecordEvent, SensorTypeOK
  <2> QED
    BY <1>13, <2>2, <2>3, <2>4 DEF RecordEvent, TimersTypeOK, WorldTypeOK,
         timerVars, worldVars
<1>14. ASSUME NEW l \in Listeners, OnEvent(t, l) PROVE Types'
  <2>1. EventsTypeOK'
    BY <1>14 DEF OnEvent, EventsTypeOK
  <2> QED
    BY <1>14, <2>1 DEF OnEvent, ThreadsOK, ThreadsTypeOK, DeliveryIsRecorded,
         SensorTypeOK, TimersTypeOK, WorldTypeOK, sensorVars, timerVars, worldVars
<1> QED
  BY <1>1, <1>2, <1>3, <1>4, <1>5, <1>6, <1>7, <1>8, <1>9, <1>10, <1>11, <1>12, <1>13,
     <1>14 DEF Step

LEMMA TimerStepTypes ==
    ASSUME Types, NEW k \in Kind, NEW g \in 1..MaxGen, TimerStep(k, g)
    PROVE  Types'
<1> DEFINE t == <<k, g>>
<1> USE DEF Types
<1>0. t \in Thread
  BY TimerThreadsAreThreads
<1>1. CASE BeginWait(k, g)
  <2>1. "wait" \in Place \ {"deliver"}
    BY DEF Place
  <2>2. ThreadsOK'
    BY <1>0, <1>1, <2>1, RunsType, LeaveType DEF BeginWait, ThreadsOK, ThreadsTypeOK
  <2> QED
    BY <1>1, <2>2 DEF BeginWait, EventsTypeOK, SensorTypeOK, TimersTypeOK, WorldTypeOK,
         sensorVars, timerVars, worldVars
<1>2. CASE WaitCancelled(k, g)
  <2>1. ThreadsOK'
    BY <1>0, <1>2, ProgramTypes DEF WaitCancelled, ThreadsOK, ThreadsTypeOK,
         DeliveryIsRecorded, Program, Place
  <2> QED
    BY <1>2, <2>1 DEF WaitCancelled, EventsTypeOK, SensorTypeOK, TimersTypeOK, WorldTypeOK,
         sensorVars, timerVars, worldVars
<1>3. CASE WaitTimesOut(k, g)
  <2>1. ThreadsOK'
    BY <1>0, <1>3 DEF WaitTimesOut, ThreadsOK, ThreadsTypeOK, DeliveryIsRecorded, Place
  <2>2. boundaries' \in Nat
    BY <1>3 DEF WaitTimesOut, WorldTypeOK
  <2> QED
    BY <1>3, <2>1, <2>2 DEF WaitTimesOut, EventsTypeOK, SensorTypeOK, TimersTypeOK,
         WorldTypeOK, sensorVars, timerVars
<1>4. CASE ActivateAfterDelay(k, g)
  <2>1. Tail(todo[t]) \in Program /\ Activate \o Tail(todo[t]) \in Program
    BY <1>0, <1>4, RunsType, TimerProgramTypes, ProgramTypes DEF ActivateAfterDelay
  <2>2. ThreadsOK'
    BY <1>0, <1>4, <2>1, ContinueType, ProgramTypes DEF ActivateAfterDelay
  <2> QED
    BY <1>4, <2>2 DEF ActivateAfterDelay, EventsTypeOK, SensorTypeOK, TimersTypeOK,
         WorldTypeOK, sensorVars, timerVars, worldVars
<1>5. CASE CheckBeforeWait(k, g)
  <2>1. ThreadsOK'
    BY <1>0, <1>5, RunsType, ContinueType, ProgramTypes DEF CheckBeforeWait
  <2> QED
    BY <1>5, <2>1 DEF CheckBeforeWait, EventsTypeOK, SensorTypeOK, TimersTypeOK,
         WorldTypeOK, sensorVars, timerVars, worldVars
<1>6. CASE AutoStop(k, g)
  <2>1. <<Cancel("noMotion"), Cancel("window")>> \o GoDown \in Program
    BY OpTypes, TimerProgramTypes, ProgramTypes DEF Kind
  <2>2. ThreadsOK'
    BY <1>0, <1>6, <2>1, ContinueType, ProgramTypes DEF AutoStop
  <2> QED
    BY <1>6, <2>2 DEF AutoStop, EventsTypeOK, SensorTypeOK, TimersTypeOK,
         WorldTypeOK, sensorVars, timerVars, worldVars
<1>7. CASE NoMotionExpires(k, g)
  <2>1. stamps + 1 \in Nat
    BY DEF WorldTypeOK
  <2>2. ThreadsOK'
    BY <1>0, <1>7, <2>1, DeliverType, ContinueType, ProgramTypes DEF NoMotionExpires
  <2>3. EventsTypeOK' /\ stamps' \in Nat
    BY <1>7, <2>1 DEF NoMotionExpires, EventsTypeOK, SensorTypeOK, WorldTypeOK
  <2> QED
    BY <1>7, <2>2, <2>3 DEF NoMotionExpires, SensorTypeOK, TimersTypeOK, WorldTypeOK,
         sensorVars, timerVars
<1>8. CASE BoundaryReached(k, g)
  <2>1. <<Simple("update")>> \in Program
    BY OpTypes, ProgramTypes DEF SimpleNames
  <2>2. ThreadsOK'
    BY <1>0, <1>8, <2>1, ContinueType, ProgramTypes DEF BoundaryReached
  <2> QED
    BY <1>8, <2>2 DEF BoundaryReached, EventsTypeOK, SensorTypeOK, TimersTypeOK,
         WorldTypeOK, sensorVars, timerVars, worldVars
<1> QED BY <1>1, <1>2, <1>3, <1>4, <1>5, <1>6, <1>7, <1>8 DEF TimerStep

LEMMA NextTypes == Types /\ [Next]_vars => Types'
<1> SUFFICES ASSUME Types, [Next]_vars PROVE Types'
  OBVIOUS
<1>1. CASE Rest \/ UNCHANGED vars
  BY <1>1 DEF Rest, vars, threadVars, sensorVars, timerVars, worldVars, Types, ThreadsOK,
       ThreadsTypeOK, DeliveryIsRecorded, EventsTypeOK, SensorTypeOK, TimersTypeOK,
       WorldTypeOK
<1> QED BY <1>1, CallTypes, StepTypes, TimerStepTypes DEF Next

\* Types is an invariant, and with it the type invariant the runs check.
THEOREM TypesInvariant == Spec => []Types
BY InitTypes, NextTypes, PTL DEF Spec

\* Every variable has its type in every reachable state, however many threads
\* the sensor serves: the programs its threads run are well formed, and a
\* handle owns a thread of its own kind.
THEOREM TypeCorrect == Spec => []TypeOK
<1>1. Types => TypeOK
  BY DEF Types, TypeOK, ThreadsOK
<1> QED BY <1>1, TypesInvariant, PTL

-----------------------------------------------------------------------------
(* The inactivity timers and window schedulers.                             *)

\* A generation that was not given out yet has no thread.
FreshGenerations ==
    \A k \in GenerationKind, g \in 1..MaxGen : at[<<k, g>>] # "idle" => g <= gen[k]

\* A thread that may still fire is the one its handle owns.
LiveTimerIsOwned ==
    \A k \in GenerationKind, g \in 1..MaxGen :
        at[<<k, g>>] # "idle" /\ ~WaitOver(k, g) => handle[k] = <<k, g>>

\* A handle owns a thread of a generation given out before.
HandlesAreOld ==
    \A k \in GenerationKind, g \in 1..MaxGen : handle[k] = <<k, g>> => g <= gen[k]

\* A thread that is joined can no longer fire, and no later generation is its own.
TargetsAreOver ==
    \A t \in Thread, k \in GenerationKind, g \in 1..MaxGen :
        target[t] = <<k, g>> => g <= gen[k] /\ WaitOver(k, g)

TimerInv == FreshGenerations /\ LiveTimerIsOwned /\ HandlesAreOld /\ TargetsAreOver

LEMMA GenerationKinds ==
    /\ GenerationKind \subseteq Kind
    /\ \A k \in GenerationKind : k # "lifecycle"
    /\ \A k \in GenerationKind, g \in 1..MaxGen : <<k, g>> \in TimerThreads
    /\ \A k \in GenerationKind, g \in 1..MaxGen : <<k, g>> \in Thread
    /\ \A k \in GenerationKind, g \in 1..MaxGen : <<k, g>> \notin PoolThreads
    /\ \A k \in GenerationKind, g \in 1..MaxGen : <<k, g>> # Nobody
BY TimerThreadsAreThreads DEF GenerationKind

LEMMA InitTimerInv == Init => TimerInv
<1> SUFFICES ASSUME Init PROVE TimerInv
  OBVIOUS
<1>1. \A k \in GenerationKind, g \in 1..MaxGen :
         /\ at[<<k, g>>] = "idle"
         /\ handle[k] # <<k, g>>
  BY GenerationKinds DEF Init
<1>2. \A t \in Thread, k \in GenerationKind, g \in 1..MaxGen : target[t] # <<k, g>>
  BY GenerationKinds DEF Init
<1> QED
  BY <1>1, <1>2 DEF TimerInv, FreshGenerations, LiveTimerIsOwned, HandlesAreOld,
       TargetsAreOver

\* No thread of a generation comes to life.
IdleStayIdle ==
    \A k \in GenerationKind, g \in 1..MaxGen :
        at[<<k, g>>] = "idle" => at'[<<k, g>>] = "idle"

\* A step that leaves the timers of the two kinds alone.
QuietStep ==
    /\ \A k \in GenerationKind :
          handle'[k] = handle[k] /\ cancelled'[k] = cancelled[k] /\ gen'[k] = gen[k]
    /\ IdleStayIdle
    /\ \A t \in Thread : target'[t] \in {target[t], Nobody}

LEMMA QuietStepKeeps ==
    ASSUME TimerInv, QuietStep
    PROVE  TimerInv'
<1> USE DEF TimerInv
<1>1. \A k \in GenerationKind, g \in 1..MaxGen : WaitOver(k, g)' = WaitOver(k, g)
  BY DEF QuietStep, WaitOver
<1>2. FreshGenerations'
  BY DEF FreshGenerations, QuietStep, IdleStayIdle
<1>3. LiveTimerIsOwned'
  BY <1>1 DEF LiveTimerIsOwned, QuietStep, IdleStayIdle
<1>4. HandlesAreOld'
  BY DEF HandlesAreOld, QuietStep
<1>5. TargetsAreOver'
  BY SMTT(30), <1>1, GenerationKinds DEF TargetsAreOver, QuietStep
<1> QED BY <1>2, <1>3, <1>4, <1>5

\* A thread that goes on, leaves or enters was not idle, or is no timer.
LEMMA MovesAreQuiet ==
    ASSUME Types, NEW t \in Thread, NEW program, at[t] # "idle" \/ t \in PoolThreads
    PROVE  /\ Continue(t, program) => IdleStayIdle /\ target' = target
           /\ \A pc : Leave(t, pc, program) => IdleStayIdle
           /\ CallOut(t, program) => IdleStayIdle /\ target' = target
           /\ Enter(t, program) => IdleStayIdle /\ target' = target
<1>1. at \in [Thread -> Place]
  BY DEF Types, ThreadsOK, ThreadsTypeOK
<1>2. \A k \in GenerationKind, g \in 1..MaxGen :
         <<k, g>> \in Thread /\ (at[<<k, g>>] = "idle" => <<k, g>> # t)
  BY GenerationKinds
<1>3. Continue(t, program) => IdleStayIdle /\ target' = target
  BY <1>1, <1>2 DEF Continue, IdleStayIdle
<1>4. \A pc : Leave(t, pc, program) => IdleStayIdle
  BY <1>1, <1>2 DEF Leave, IdleStayIdle
<1>5. CallOut(t, program) => IdleStayIdle /\ target' = target
  BY <1>3, <1>4 DEF CallOut
<1>6. Enter(t, program) => IdleStayIdle /\ target' = target
  BY <1>1, <1>2 DEF Enter, IdleStayIdle
<1> QED BY <1>3, <1>4, <1>5, <1>6

\* Cancelling a timer, with or without a new generation.
LEMMA CancelKeeps ==
    ASSUME Types, TimerInv, NEW t \in Thread, at[t] # "idle", NEW k \in Kind,
           NEW program \in Program, CancelThread(t, k, program),
           gen' = gen \/ gen' = [gen EXCEPT ![k] = @ + 1]
    PROVE  TimerInv'
<1> USE DEF TimerInv
<1>1. /\ handle' = [handle EXCEPT ![k] = Nobody]
      /\ cancelled' = [cancelled EXCEPT ![k] = TRUE]
  BY DEF CancelThread
<1>2. IdleStayIdle
  BY MovesAreQuiet DEF CancelThread
<1>3. \A u \in Thread : target'[u] = target[u] \/ target'[u] = handle[k]
  BY DEF CancelThread, Continue, Types, ThreadsOK, ThreadsTypeOK
<1>4. \A j \in GenerationKind : gen[j] \in Nat /\ gen'[j] \in Nat /\ gen[j] <= gen'[j]
  BY GenerationKinds, Bounds DEF Types, TimersTypeOK
<1>5. \A j \in GenerationKind : j # k => gen'[j] = gen[j] /\ cancelled'[j] = cancelled[j]
                                         /\ handle'[j] = handle[j]
  BY <1>1, GenerationKinds DEF Types, TimersTypeOK
<1>6. k \in GenerationKind => cancelled'[k] /\ handle'[k] = Nobody
  BY <1>1 DEF Types, TimersTypeOK
<1>7. \A j \in GenerationKind, g \in 1..MaxGen : WaitOver(j, g) => WaitOver(j, g)'
  BY <1>5, <1>6 DEF WaitOver
<1>8. FreshGenerations'
  BY <1>2, <1>4 DEF FreshGenerations, IdleStayIdle
<1>9. LiveTimerIsOwned'
  BY <1>2, <1>5, <1>6 DEF LiveTimerIsOwned, IdleStayIdle, WaitOver
<1>10. HandlesAreOld'
  BY <1>5, <1>6, GenerationKinds DEF HandlesAreOld
<1>11. TargetsAreOver'
  <2> SUFFICES ASSUME NEW u \in Thread, NEW j \in GenerationKind, NEW g \in 1..MaxGen,
                      target'[u] = <<j, g>>
               PROVE  g <= gen'[j] /\ WaitOver(j, g)'
    BY DEF TargetsAreOver
  <2>1. CASE target'[u] = target[u]
    BY <2>1, <1>4, <1>7 DEF TargetsAreOver
  <2>2. CASE target'[u] = handle[k]
    <3>1. handle[k] = <<j, g>> /\ handle[k] # Nobody
      BY <2>2, GenerationKinds
    <3>2. handle[k][1] = k
      BY <3>1 DEF Types, TimersTypeOK
    <3>3. j = k
      BY <3>1, <3>2
    <3> QED BY <3>1, <3>3, <1>4, <1>6 DEF HandlesAreOld, WaitOver
  <2> QED BY <2>1, <2>2, <1>3
<1> QED BY <1>8, <1>9, <1>10, <1>11

\* A new timer gets a generation that no thread, handle or join refers to.
LEMMA SpawnKeeps ==
    ASSUME Types, TimerInv, NEW t \in Thread, at[t] # "idle", NEW k \in GenerationKind,
           NEW program, NEW rest, gen[k] + 1 \in 1..MaxGen,
           Spawn(t, k, gen[k] + 1, "begin", program, rest)
    PROVE  TimerInv'
<1> USE DEF TimerInv
<1> DEFINE new == gen[k] + 1
<1>1. /\ gen \in [Kind -> 0..MaxGen] /\ cancelled \in [Kind -> BOOLEAN]
      /\ handle \in [Kind -> TimerThreads \cup {Nobody}]
      /\ at \in [Thread -> Place] /\ k \in Kind
  BY GenerationKinds DEF Types, TimersTypeOK, ThreadsOK, ThreadsTypeOK
<1>2. gen' = [gen EXCEPT ![k] = new] /\ cancelled' = [cancelled EXCEPT ![k] = FALSE]
  BY GenerationKinds DEF Spawn
<1>3. target' = target
  BY DEF Spawn
<1>4. \A j \in GenerationKind : j # k => gen'[j] = gen[j] /\ cancelled'[j] = cancelled[j]
  BY <1>1, <1>2, GenerationKinds
<1>5. gen'[k] = new /\ gen[k] \in Nat
  BY <1>1, <1>2
<1>6. \A j \in GenerationKind : gen[j] \in Nat /\ gen'[j] \in Nat /\ gen[j] <= gen'[j]
  BY <1>1, <1>4, <1>5, GenerationKinds, Bounds
<1>7. \A j \in GenerationKind, g \in 1..MaxGen :
         at[<<j, g>>] = "idle" => at'[<<j, g>>] = "idle" \/ (j = k /\ g = new)
  <2>1. \A j \in GenerationKind, g \in 1..MaxGen :
           /\ <<j, g>> \in Thread
           /\ at[<<j, g>>] = "idle" => <<j, g>> # t
           /\ <<j, g>> = <<k, new>> => j = k /\ g = new
    BY GenerationKinds
  <2> QED BY <1>1, <2>1 DEF Spawn
<1>8. \A j \in GenerationKind, g \in 1..MaxGen :
         g <= gen[j] /\ WaitOver(j, g) => WaitOver(j, g)'
  BY <1>4, <1>5, GenerationKinds DEF WaitOver
<1>9. FreshGenerations'
  BY <1>5, <1>6, <1>7 DEF FreshGenerations
<1>10. LiveTimerIsOwned'
  <2> SUFFICES ASSUME NEW j \in GenerationKind, NEW g \in 1..MaxGen,
                      at'[<<j, g>>] # "idle", ~WaitOver(j, g)'
               PROVE  handle'[j] = <<j, g>>
    BY DEF LiveTimerIsOwned
  <2>1. CASE j # k
    <3>1. handle'[j] = handle[j]
      BY <2>1, <1>1, GenerationKinds DEF Spawn
    <3>2. at[<<j, g>>] # "idle" /\ ~WaitOver(j, g)
      BY <2>1, <1>4, <1>7 DEF WaitOver
    <3> QED BY <3>1, <3>2 DEF LiveTimerIsOwned
  <2>2. CASE j = k
    <3>1. g = new
      BY <2>2, <1>5, GenerationKinds DEF WaitOver
    <3>2. at[<<k, new>>] = "idle"
      BY <1>5 DEF FreshGenerations
    <3>3. handle[k] = Nobody
      <4>1. SUFFICES ASSUME handle[k] # Nobody PROVE FALSE
        OBVIOUS
      <4>2. at' = [at EXCEPT ![t] = "terminated"]
        BY <4>1 DEF Spawn
      <4>3. at'[<<k, new>>] = "idle"
        BY <4>2, <3>2, <1>1
      <4> QED BY <4>3, <3>1, <2>2
    <3> QED BY <3>1, <3>3, <2>2, <1>1 DEF Spawn
  <2> QED BY <2>1, <2>2
<1>11. HandlesAreOld'
  <2>1. \A j \in GenerationKind :
           handle'[j] = handle[j] \/ (j = k /\ handle'[j] = <<k, new>>)
    BY <1>1, GenerationKinds DEF Spawn
  <2> QED BY <2>1, <1>5, <1>6 DEF HandlesAreOld
<1>12. TargetsAreOver'
  BY <1>3, <1>6, <1>8 DEF TargetsAreOver
<1> QED BY <1>9, <1>10, <1>11, <1>12

LEMMA CallsKeepTimers ==
    ASSUME Types, TimerInv, ClientCall \/ ClientDies \/ DeathNotice
    PROVE  TimerInv'
<1>0. \A t \in Thread : MayCall(t) => at[t] # "idle" \/ t \in PoolThreads
  BY DEF MayCall, PoolThreads
<1>1. ASSUME NEW t \in Thread, Open(t) \/ SetActiveWindows(t) PROVE TimerInv'
  <2>1. UNCHANGED <<threadVars, timerVars>>
    BY <1>1 DEF Open, SetActiveWindows
  <2> QED BY <2>1, QuietStepKeeps DEF QuietStep, IdleStayIdle, threadVars, timerVars
<1>2. ASSUME NEW t \in Thread, NEW cfg \in Configs, Start(t, cfg) PROVE TimerInv'
  <2>1. IdleStayIdle /\ target' = target
    BY <1>0, <1>2, MovesAreQuiet DEF Start
  <2>2. /\ UNCHANGED <<handle, cancelled>>
        /\ \A k \in GenerationKind : gen'[k] = gen[k]
    BY <1>2, GenerationKinds DEF Start, Types, TimersTypeOK
  <2> QED BY <2>1, <2>2, QuietStepKeeps DEF QuietStep
<1>3. ASSUME NEW t \in Thread, Stop(t) \/ Close(t) PROVE TimerInv'
  <2>1. IdleStayIdle /\ target' = target /\ UNCHANGED timerVars
    BY <1>0, <1>3, MovesAreQuiet DEF Stop, Close
  <2> QED BY <2>1, QuietStepKeeps DEF QuietStep, timerVars
<1>4. ASSUME NEW l \in Listeners, RegisterEventListener(l) \/ UnregisterEventListener(l)
      PROVE TimerInv'
  <2>1. UNCHANGED <<threadVars, timerVars>>
    BY <1>4 DEF RegisterEventListener, UnregisterEventListener
  <2> QED BY <2>1, QuietStepKeeps DEF QuietStep, IdleStayIdle, threadVars, timerVars
<1>5. ASSUME NEW t \in InjectThreads, InjectMotionEvent(t) PROVE TimerInv'
  <2>1. \A k \in GenerationKind, g \in 1..MaxGen : <<k, g>> # t
    BY GenerationKinds DEF PoolThreads
  <2>2. IdleStayIdle /\ target' = target /\ UNCHANGED timerVars
    BY <1>5, <2>1, GenerationKinds
       DEF InjectMotionEvent, IdleStayIdle, Types, ThreadsOK, ThreadsTypeOK
  <2> QED BY <2>2, QuietStepKeeps DEF QuietStep, timerVars
<1>6. ASSUME ClientDies PROVE TimerInv'
  <2>1. UNCHANGED <<threadVars, timerVars>>
    BY <1>6 DEF ClientDies
  <2> QED BY <2>1, QuietStepKeeps DEF QuietStep, IdleStayIdle, threadVars, timerVars
<1>7. ASSUME NEW t \in DeathThreads, NEW h \in 1..MaxOpens, BinderDied(t, h)
      PROVE TimerInv'
  <2>1. t \in Thread /\ t \in PoolThreads
    BY DEF Thread, PoolThreads
  <2>2. IdleStayIdle /\ target' = target /\ UNCHANGED timerVars
    BY <1>7, <2>1, MovesAreQuiet DEF BinderDied, IdleStayIdle
  <2> QED BY <2>2, QuietStepKeeps DEF QuietStep, timerVars
<1> QED BY <1>1, <1>2, <1>3, <1>4, <1>5, <1>6, <1>7 DEF ClientCall, DeathNotice

LEMMA StepsKeepTimers ==
    ASSUME Types, TimerInv, NEW t \in Thread, Step(t)
    PROVE  TimerInv'
<1> USE DEF Runs
<1>1. CASE ChangeState(t)
  <2>1. IdleStayIdle /\ target' = target /\ UNCHANGED timerVars
    BY <1>1, MovesAreQuiet DEF ChangeState
  <2> QED BY <2>1, QuietStepKeeps DEF QuietStep, timerVars
<1>2. CASE CancelTimer(t)
  <2>1. Head(todo[t]).timer \in Kind /\ Tail(todo[t]) \in Program
    BY <1>2, RunsType, OpFields DEF CancelTimer, Types
  <2> QED BY <1>2, <2>1, CancelKeeps DEF CancelTimer
<1>3. CASE InvalidateTimer(t)
  <2>1. Head(todo[t]).timer \in Kind /\ Tail(todo[t]) \in Program
    BY <1>3, RunsType, OpFields DEF InvalidateTimer, Types
  <2> QED BY <1>3, <2>1, CancelKeeps DEF InvalidateTimer
<1>4. CASE ArmLifecycleTimer(t)
  <2> DEFINE g == Head(todo[t]).timer
             program == LifecycleProgram(Head(todo[t]).delayed, Head(todo[t]).stops)
  <2>1. Spawn(t, "lifecycle", g, "begin", program, Tail(todo[t])) /\ at[t] # "idle"
    BY <1>4 DEF ArmLifecycleTimer
  <2>2. target' = target
    BY <2>1 DEF Spawn
  <2>3. \A k \in GenerationKind :
           handle'[k] = handle[k] /\ cancelled'[k] = cancelled[k] /\ gen'[k] = gen[k]
    BY <2>1, GenerationKinds DEF Spawn, Types, TimersTypeOK
  <2>4. IdleStayIdle
    <3>1. \A k \in GenerationKind, h \in 1..MaxGen :
             /\ <<k, h>> \in Thread
             /\ <<k, h>> # <<"lifecycle", g>>
             /\ at[<<k, h>>] = "idle" => <<k, h>> # t
      BY <2>1, GenerationKinds
    <3> QED BY <2>1, <3>1 DEF Spawn, IdleStayIdle, Types, ThreadsOK, ThreadsTypeOK
  <2> QED BY <2>2, <2>3, <2>4, QuietStepKeeps DEF QuietStep
<1>5. CASE ArmNoMotionTimer(t)
  <2>1. "noMotion" \in GenerationKind
    BY DEF GenerationKind, Kind
  <2>2. CASE state = "STARTED" /\ startConfig.mode = "NO_MOTION" /\ startConfig.noMotion
    <3>1. gen["noMotion"] + 1 \in 1..MaxGen
      BY <1>5, <2>2, Bounds DEF ArmNoMotionTimer, Types, TimersTypeOK, Kind
    <3> QED BY <1>5, <2>1, <2>2, <3>1, SpawnKeeps DEF ArmNoMotionTimer
  <2>3. CASE ~(state = "STARTED" /\ startConfig.mode = "NO_MOTION" /\ startConfig.noMotion)
    <3>1. IdleStayIdle /\ target' = target /\ UNCHANGED timerVars
      BY <1>5, <2>3, MovesAreQuiet DEF ArmNoMotionTimer
    <3> QED BY <3>1, QuietStepKeeps DEF QuietStep, timerVars
  <2> QED BY <2>2, <2>3
<1>6. CASE ArmWindowScheduler(t)
  <2>1. "window" \in GenerationKind
    BY DEF GenerationKind, Kind
  <2>2. CASE state = "STARTED" /\ hasWindows
    <3>1. gen["window"] + 1 \in 1..MaxGen
      BY <1>6, <2>2, Bounds DEF ArmWindowScheduler, Types, TimersTypeOK, Kind
    <3> QED BY <1>6, <2>1, <2>2, <3>1, SpawnKeeps DEF ArmWindowScheduler
  <2>3. CASE ~(state = "STARTED" /\ hasWindows)
    <3>1. IdleStayIdle /\ target' = target /\ UNCHANGED timerVars
      BY <1>6, <2>3, MovesAreQuiet DEF ArmWindowScheduler
    <3> QED BY <3>1, QuietStepKeeps DEF QuietStep, timerVars
  <2> QED BY <2>2, <2>3
<1>7. CASE UpdateActiveWindow(t) \/ InjectLocked(t) \/ EndSessionOfTheDead(t)
           \/ Release(t) \/ ReturnToCallback(t)
  <2>1. IdleStayIdle /\ target' = target /\ UNCHANGED timerVars
    BY <1>7, MovesAreQuiet DEF UpdateActiveWindow, InjectLocked, EndSessionOfTheDead,
         Release, ReturnToCallback
  <2> QED BY <2>1, QuietStepKeeps DEF QuietStep, timerVars
<1>8. CASE TakeMutex(t) \/ RecordEvent(t) \/ \E l \in Listeners : OnEvent(t, l)
  <2>1. IdleStayIdle /\ UNCHANGED timerVars
    BY <1>8, GenerationKinds DEF TakeMutex, RecordEvent, OnEvent, IdleStayIdle, Types,
         ThreadsOK, ThreadsTypeOK
  <2>2. \A u \in Thread : target'[u] \in {target[u], Nobody}
    BY <1>8 DEF TakeMutex, RecordEvent, OnEvent, Types, ThreadsOK, ThreadsTypeOK
  <2> QED BY <2>1, <2>2, QuietStepKeeps DEF QuietStep, timerVars
<1> QED BY <1>1, <1>2, <1>3, <1>4, <1>5, <1>6, <1>7, <1>8 DEF Step

LEMMA TimerStepsKeepTimers ==
    ASSUME Types, TimerInv, NEW k \in Kind, NEW g \in 1..MaxGen, TimerStep(k, g)
    PROVE  TimerInv'
<1> DEFINE t == <<k, g>>
<1>1. t \in Thread
  BY TimerThreadsAreThreads
<1>2. CASE WaitCancelled(k, g) \/ WaitTimesOut(k, g)
  <2>1. IdleStayIdle /\ target' = target /\ UNCHANGED timerVars
    BY <1>1, <1>2, GenerationKinds DEF WaitCancelled, WaitTimesOut, IdleStayIdle, Types,
         ThreadsOK, ThreadsTypeOK
  <2> QED BY <2>1, QuietStepKeeps DEF QuietStep, timerVars
<1>3. CASE BeginWait(k, g) \/ ActivateAfterDelay(k, g) \/ CheckBeforeWait(k, g)
           \/ AutoStop(k, g) \/ NoMotionExpires(k, g) \/ BoundaryReached(k, g)
  <2>1. IdleStayIdle /\ target' = target /\ UNCHANGED timerVars
    BY <1>1, <1>3, MovesAreQuiet DEF BeginWait, ActivateAfterDelay, CheckBeforeWait,
         AutoStop, NoMotionExpires, BoundaryReached, Runs
  <2> QED BY <2>1, QuietStepKeeps DEF QuietStep, timerVars
<1> QED BY <1>2, <1>3 DEF TimerStep

LEMMA NextKeepsTimers == Types /\ TimerInv /\ [Next]_vars => TimerInv'
<1> SUFFICES ASSUME Types, TimerInv, [Next]_vars PROVE TimerInv'
  OBVIOUS
<1>1. CASE Rest \/ UNCHANGED vars
  <2>1. UNCHANGED <<threadVars, timerVars>>
    BY <1>1 DEF Rest, vars
  <2> QED BY <2>1, QuietStepKeeps DEF QuietStep, IdleStayIdle, threadVars, timerVars
<1> QED BY <1>1, CallsKeepTimers, StepsKeepTimers, TimerStepsKeepTimers DEF Next

\* A cancel and the start of the next timer leave the handles, flags,
\* generations and joins in agreement, in every interleaving.
THEOREM TimerInvariant == Spec => []TimerInv
BY TypesInvariant, InitTimerInv, NextKeepsTimers, PTL DEF Spec

\* No inactivity timer and no window scheduler that can still fire is ever
\* without its handle, whatever is interleaved with the joins and callbacks
\* in which startNoMotionTimerLocked, updateActiveWindowLocked and the cancels
\* give the mutex up: each stays within reach of the next cancel.
THEOREM ArmedTimersAreOwned == Spec => []ArmedTimerIsOwned
<1>1. TimerInv => ArmedTimerIsOwned
  BY DEF TimerInv, LiveTimerIsOwned, ArmedTimerIsOwned
<1> QED BY <1>1, TimerInvariant, PTL

\* A join of an inactivity timer or of a window scheduler never waits for the
\* rest of its period, also when the flag was cleared for the next timer
\* before the old one woke: its generation is out of date by then.
THEOREM JoinsArePrompt == Spec => []PromptJoin
<1>1. TimerInv => PromptJoin
  BY DEF TimerInv, TargetsAreOver, PromptJoin, PromptJoinOf
<1> QED BY <1>1, TimerInvariant, PTL

-----------------------------------------------------------------------------
(* The mutex.                                                               *)

\* A thread that runs under the mutex is the one that holds it.
RunnersHoldMutex == \A t \in Thread : at[t] = "run" => mutex = t

LEMMA NextHoldsMutex ==
    ASSUME Types, RunnersHoldMutex, [Next]_vars
    PROVE  RunnersHoldMutex'
<1> USE DEF RunnersHoldMutex
<1>0. /\ at \in [Thread -> Place] /\ Nobody \notin Thread
      /\ \A k \in Kind, g \in 1..MaxGen : <<k, g>> \in Thread
  BY TimerThreadsAreThreads, ThreadAssumption DEF Types, ThreadsOK, ThreadsTypeOK
<1>1. ASSUME NEW t \in Thread, at[t] = "run", NEW program, Continue(t, program)
      PROVE  RunnersHoldMutex'
  BY <1>0, <1>1 DEF Continue
<1>2. ASSUME NEW t \in Thread, at[t] = "run", NEW pc, pc # "run", NEW program,
             Leave(t, pc, program)
      PROVE  RunnersHoldMutex'
  BY <1>0, <1>2 DEF Leave
<1>3. ASSUME NEW t \in Thread, at[t] = "run", NEW program, CallOut(t, program)
      PROVE  RunnersHoldMutex'
  BY <1>1, <1>2, <1>3 DEF CallOut
<1>4. ASSUME NEW t \in Thread, at[t] = "run", NEW k, NEW program, CancelThread(t, k, program)
      PROVE  RunnersHoldMutex'
  BY <1>1, <1>2, <1>4 DEF CancelThread
<1>5. ASSUME NEW t \in Thread, at[t] = "run", NEW k, NEW g, NEW program, NEW rest,
             Spawn(t, k, g, "begin", program, rest)
      PROVE  RunnersHoldMutex'
  BY <1>0, <1>5 DEF Spawn
<1>6. ASSUME NEW t \in Thread, NEW program, Enter(t, program)
      PROVE  RunnersHoldMutex'
  BY <1>0, <1>6 DEF Enter, Unlocked
<1>7. ASSUME UNCHANGED <<mutex, at>> PROVE RunnersHoldMutex'
  BY <1>7
<1>8. ASSUME NEW t \in Thread, Step(t) PROVE RunnersHoldMutex'
  <2> USE DEF Runs
  <2>1. CASE ChangeState(t) \/ UpdateActiveWindow(t) \/ EndSessionOfTheDead(t) \/ Release(t)
    BY <1>1, <1>3, <2>1 DEF ChangeState, UpdateActiveWindow, EndSessionOfTheDead, Release
  <2>2. CASE CancelTimer(t) \/ InvalidateTimer(t)
    BY <1>4, <2>2 DEF CancelTimer, InvalidateTimer
  <2>3. CASE ArmLifecycleTimer(t) \/ ArmNoMotionTimer(t) \/ ArmWindowScheduler(t)
    BY <1>1, <1>5, <2>3 DEF ArmLifecycleTimer, ArmNoMotionTimer, ArmWindowScheduler
  <2>4. CASE InjectLocked(t) \/ ReturnToCallback(t)
    BY <1>1, <1>2, <2>4 DEF InjectLocked, ReturnToCallback
  <2>5. CASE TakeMutex(t)
    BY <1>0, <2>5 DEF TakeMutex, Unlocked
  <2>6. CASE RecordEvent(t)
    BY <1>0, <2>6 DEF RecordEvent
  <2>7. CASE \E l \in Listeners : OnEvent(t, l)
    BY <1>7, <2>7 DEF OnEvent
  <2> QED BY <1>8, <2>1, <2>2, <2>3, <2>4, <2>5, <2>6, <2>7 DEF Step
<1>9. ASSUME NEW k \in Kind, NEW g \in 1..MaxGen, TimerStep(k, g) PROVE RunnersHoldMutex'
  <2> DEFINE t == <<k, g>>
  <2> USE DEF Runs
  <2>1. t \in Thread
    BY <1>0
  <2>2. CASE BeginWait(k, g)
    BY <1>2, <2>1, <2>2 DEF BeginWait
  <2>3. CASE WaitCancelled(k, g) \/ WaitTimesOut(k, g)
    BY <1>0, <2>1, <2>3 DEF WaitCancelled, WaitTimesOut, Unlocked
  <2>4. CASE ActivateAfterDelay(k, g) \/ CheckBeforeWait(k, g) \/ AutoStop(k, g)
             \/ NoMotionExpires(k, g) \/ BoundaryReached(k, g)
    BY <1>1, <1>2, <2>1, <2>4 DEF ActivateAfterDelay, CheckBeforeWait, AutoStop,
       NoMotionExpires, BoundaryReached
  <2> QED BY <1>9, <2>2, <2>3, <2>4 DEF TimerStep
<1>10. CASE ClientCall
  <2>1. ASSUME NEW t \in Thread, Stop(t) \/ Close(t) PROVE RunnersHoldMutex'
    BY <1>6, <2>1 DEF Stop, Close
  <2>2. ASSUME NEW t \in Thread, NEW cfg \in Configs, Start(t, cfg) PROVE RunnersHoldMutex'
    BY <1>6, <2>2 DEF Start
  <2>3. ASSUME NEW t \in InjectThreads, InjectMotionEvent(t) PROVE RunnersHoldMutex'
    BY <1>0, <2>3 DEF InjectMotionEvent
  <2>4. CASE \/ \E t \in Thread : Open(t) \/ SetActiveWindows(t)
             \/ \E l \in Listeners : RegisterEventListener(l) \/ UnregisterEventListener(l)
    BY <1>7, <2>4 DEF Open, SetActiveWindows, RegisterEventListener, UnregisterEventListener,
       threadVars
  <2> QED BY <1>10, <2>1, <2>2, <2>3, <2>4 DEF ClientCall
<1>11. ASSUME NEW t \in DeathThreads, NEW h \in 1..MaxOpens, BinderDied(t, h)
       PROVE  RunnersHoldMutex'
  BY <1>6, <1>7, <1>11 DEF BinderDied, Thread, PoolThreads
<1>12. CASE ClientDies \/ Rest \/ UNCHANGED vars
  BY <1>7, <1>12 DEF ClientDies, Rest, vars, threadVars
<1> QED BY <1>8, <1>9, <1>10, <1>11, <1>12 DEF Next, DeathNotice

\* Every critical section is one: the callbacks, joins and waits that give the
\* mutex up in the middle of an operation leave no second thread running.
THEOREM MutualExclusion == Spec => []RunnersHoldMutex
<1>1. Init => RunnersHoldMutex
  BY DEF Init, RunnersHoldMutex
<1>2. Types /\ RunnersHoldMutex /\ [Next]_vars => RunnersHoldMutex'
  BY NextHoldsMutex
<1> QED BY <1>1, <1>2, TypesInvariant, PTL DEF Spec

=============================================================================
