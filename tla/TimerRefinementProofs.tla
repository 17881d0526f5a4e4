----------------------- MODULE TimerRefinementProofs -----------------------
(***************************************************************************)
(* The inactivity timer and the window scheduler of one motion sensor      *)
(* implement OneShotTimer, for every value of the constants: a step of the *)
(* sensor is, seen from each of the two timers, a step of OneShotTimer or  *)
(* none.                                                                   *)
(***************************************************************************)
EXTENDS MotionSensorProofs

\* The timer of kind k, which MotionSensorProperties has for each of the two
Timer(k) == INSTANCE OneShotTimer WITH
    last   <- gen[k],
    live   <- LiveTimer(k),
    asleep <- ThreadsIn(k, {"wait"}),
    awake  <- ThreadsIn(k, Place \ {"idle", "wait"})

\* What a step is to the timer of kind k
TimerStepOf(k) == [Timer(k)!Next]_(Timer(k)!vars)

-----------------------------------------------------------------------------
LEMMA InitTimer == ASSUME Init, NEW k \in GenerationKind PROVE Timer(k)!Init
<1>1. gen[k] = 0 /\ \A g \in 1..MaxGen : at[<<k, g>>] = "idle"
  BY GenerationKinds DEF Init
<1> QED BY <1>1 DEF Timer!Init, LiveTimer, ThreadsIn

\* A thread that neither is idle nor sleeps moves, and nothing else happens.
LEMMA Move ==
    ASSUME Types, NEW k \in GenerationKind, NEW t \in Thread,
           at[t] \notin {"idle", "wait"} \/ t \in PoolThreads,
           at'[t] \in Place, gen'[k] = gen[k], cancelled'[k] = cancelled[k],
           \A g \in 1..MaxGen : <<k, g>> # t => at'[<<k, g>>] = at[<<k, g>>]
    PROVE  TimerStepOf(k)
<1>0. \A g \in 1..MaxGen : at[<<k, g>>] \in Place
  BY GenerationKinds DEF Types, ThreadsOK, ThreadsTypeOK
<1>1. CASE \A g \in 1..MaxGen : <<k, g>> # t
  BY <1>1 DEF TimerStepOf, Timer!vars, LiveTimer, ThreadsIn
<1>2. ASSUME NEW g \in 1..MaxGen, <<k, g>> = t PROVE TimerStepOf(k)
  <2>0. /\ at[<<k, g>>] \in Place \ {"idle", "wait"}
        /\ g \in ThreadsIn(k, Place \ {"idle", "wait"})
        /\ \A h \in 1..MaxGen : h # g => at'[<<k, h>>] = at[<<k, h>>]
    BY <1>0, <1>2, GenerationKinds DEF ThreadsIn
  <2>1. CASE at'[t] = "wait"
    <3>1. Timer(k)!Sleep(g)
      BY <1>2, <2>0, <2>1 DEF Timer!Sleep, LiveTimer, ThreadsIn
    <3> QED BY <2>0, <3>1 DEF TimerStepOf, Timer!Next
  <2>2. CASE at'[t] = "idle"
    <3>1. Timer(k)!Return(g)
      BY <1>2, <2>0, <2>2 DEF Timer!Return, LiveTimer, ThreadsIn
    <3> QED BY <2>0, <3>1 DEF TimerStepOf, Timer!Next
  <2>3. CASE at'[t] \in Place \ {"idle", "wait"}
    BY <1>2, <2>0, <2>3 DEF TimerStepOf, Timer!vars, LiveTimer, ThreadsIn
  <2> QED BY <2>1, <2>2, <2>3
<1> QED BY <1>1, <1>2

\* Cancelling timer k, with or without a new generation.
LEMMA CancelOfTimer ==
    ASSUME Types, NEW k \in GenerationKind, NEW t \in Thread, at[t] \notin {"idle", "wait"},
           at'[t] \in Place \ {"wait"}, cancelled'[k],
           gen'[k] \in {gen[k], gen[k] + 1},
           \A u \in Thread : u # t => at'[u] = at[u]
    PROVE  TimerStepOf(k)
<1>1. \A g \in 1..MaxGen : <<k, g>> \in Thread /\ at[<<k, g>>] \in Place
  BY GenerationKinds DEF Types, ThreadsOK, ThreadsTypeOK
<1>2. LiveTimer(k)' = {}
  BY DEF LiveTimer
<1>3. ThreadsIn(k, {"wait"})' = ThreadsIn(k, {"wait"})
  BY <1>1 DEF ThreadsIn
<1>4. ThreadsIn(k, Place \ {"idle", "wait"})' \in SUBSET ThreadsIn(k, Place \ {"idle", "wait"})
  BY <1>1 DEF ThreadsIn
<1>5. Timer(k)!Cancel
  BY <1>2, <1>3, <1>4 DEF Timer!Cancel
<1> QED BY <1>5 DEF TimerStepOf, Timer!Next

\* Arming timer k: its number is new, and nothing was live.
LEMMA SpawnOfTimer ==
    ASSUME Types, TimerInv, NEW k \in GenerationKind, NEW t \in Thread, at[t] = "run",
           NEW program, NEW rest, gen[k] + 1 \in 1..MaxGen,
           Spawn(t, k, gen[k] + 1, "begin", program, rest)
    PROVE  TimerStepOf(k)
<1> DEFINE new == gen[k] + 1
<1>1. /\ k \in Kind /\ gen \in [Kind -> 0..MaxGen] /\ cancelled \in [Kind -> BOOLEAN]
      /\ at \in [Thread -> Place]
      /\ \A g \in 1..MaxGen : <<k, g>> \in Thread
  BY GenerationKinds DEF Types, TimersTypeOK, ThreadsOK, ThreadsTypeOK
<1>2. gen'[k] = new /\ ~cancelled'[k] /\ gen[k] \in Nat
  BY <1>1, GenerationKinds DEF Spawn
<1>3. at[<<k, new>>] = "idle"
  BY <1>2 DEF TimerInv, FreshGenerations
<1>4. CASE handle[k] # Nobody
  <2>1. at' = [at EXCEPT ![t] = "terminated"]
    BY <1>4 DEF Spawn
  <2>2. at'[<<k, new>>] = "idle"
    BY <1>1, <1>3, <2>1
  <2>3. LiveTimer(k)' = {}
    BY <1>2, <2>2 DEF LiveTimer
  <2>4. ThreadsIn(k, {"wait"})' = ThreadsIn(k, {"wait"})
    BY <1>1, <2>1 DEF ThreadsIn
  <2>5. ThreadsIn(k, Place \ {"idle", "wait"})' = ThreadsIn(k, Place \ {"idle", "wait"})
    BY <1>1, <2>1 DEF ThreadsIn, Place
  <2>6. Timer(k)!Cancel
    BY <1>2, <2>3, <2>4, <2>5 DEF Timer!Cancel
  <2> QED BY <2>6 DEF TimerStepOf, Timer!Next
<1>5. CASE handle[k] = Nobody
  <2> DEFINE end == IF rest = <<>> THEN "idle" ELSE "run"
             ended == {g \in 1..MaxGen : <<k, g>> = t /\ end = "idle"}
  <2>1. at' = [at EXCEPT ![t] = end, ![<<k, new>>] = "begin"]
    BY <1>5 DEF Spawn
  <2>2. /\ at'[<<k, new>>] = "begin"
        /\ \A g \in 1..MaxGen : g # new /\ <<k, g>> = t => at'[<<k, g>>] = end
        /\ \A g \in 1..MaxGen : g # new /\ <<k, g>> # t => at'[<<k, g>>] = at[<<k, g>>]
    BY <1>1, <2>1
  <2>3. LiveTimer(k) = {}
    BY <1>5, GenerationKinds DEF TimerInv, LiveTimerIsOwned, LiveTimer, WaitOver
  <2>4. LiveTimer(k)' = {new}
    BY <1>2, <2>2 DEF LiveTimer
  <2>5. ThreadsIn(k, {"wait"})' = ThreadsIn(k, {"wait"})
    BY <1>3, <2>2 DEF ThreadsIn
  <2>6. ThreadsIn(k, Place \ {"idle", "wait"})'
          = (ThreadsIn(k, Place \ {"idle", "wait"}) \ ended) \cup {new}
    BY <1>1, <1>3, <2>2 DEF ThreadsIn, Place
  <2>7. ended \cap ThreadsIn(k, Place \ {"idle", "wait"})
          \in SUBSET ThreadsIn(k, Place \ {"idle", "wait"})
    OBVIOUS
  <2>8. Timer(k)!Arm
    BY <1>2, <2>3, <2>4, <2>5, <2>6, <2>7 DEF Timer!Arm
  <2> QED BY <2>8 DEF TimerStepOf, Timer!Next
<1> QED BY <1>4, <1>5

-----------------------------------------------------------------------------
(* The steps of the sensor.                                                 *)

\* The timer of kind k is not concerned.
LEMMA StutterOfTimer ==
    ASSUME NEW k \in GenerationKind, gen'[k] = gen[k], cancelled'[k] = cancelled[k], at' = at
    PROVE  TimerStepOf(k)
BY DEF TimerStepOf, Timer!vars, LiveTimer, ThreadsIn

\* The moves of a thread that leave flags and generations alone.
LEMMA MovesOfTimer ==
    ASSUME Types, NEW k \in GenerationKind, NEW t \in Thread, NEW program \in Program,
           at[t] \notin {"idle", "wait"} \/ t \in PoolThreads,
           gen'[k] = gen[k], cancelled'[k] = cancelled[k],
           \/ Continue(t, program) \/ CallOut(t, program) \/ Enter(t, program)
           \/ \E pc \in Place : Leave(t, pc, program)
    PROVE  TimerStepOf(k)
<1>1. \E pc \in Place : at' = [at EXCEPT ![t] = pc]
  BY DEF Continue, CallOut, Enter, Leave, Place
<1>2. /\ at'[t] \in Place
      /\ \A u \in Thread : u # t => at'[u] = at[u]
  BY <1>1 DEF Types, ThreadsOK, ThreadsTypeOK
<1> QED BY <1>2, GenerationKinds, Move

LEMMA CallsOfTimer ==
    ASSUME Types, NEW k \in GenerationKind, ClientCall \/ ClientDies \/ DeathNotice
    PROVE  TimerStepOf(k)
<1>0. \A t \in Thread : MayCall(t) => at[t] \notin {"idle", "wait"} \/ t \in PoolThreads
  BY DEF MayCall, PoolThreads
<1>1. ASSUME NEW t \in Thread, Open(t) \/ SetActiveWindows(t) PROVE TimerStepOf(k)
  BY <1>1, StutterOfTimer DEF Open, SetActiveWindows, threadVars, timerVars
<1>2. ASSUME NEW t \in Thread, NEW cfg \in Configs, Start(t, cfg) PROVE TimerStepOf(k)
  <2>1. gen'[k] = gen[k] /\ cancelled'[k] = cancelled[k]
    BY <1>2, GenerationKinds DEF Start, Types, TimersTypeOK
  <2>2. gen["lifecycle"] + 1 \in 1..MaxGen /\ cfg \in StartConfig
    BY <1>2, Bounds, ConfigAssumption DEF Start, Types, TimersTypeOK, Kind
  <2> QED BY <1>0, <1>2, <2>1, <2>2, StartProgramType, MovesOfTimer DEF Start
<1>3. ASSUME NEW t \in Thread, Stop(t) \/ Close(t) PROVE TimerStepOf(k)
  BY <1>0, <1>3, TimerProgramTypes, MovesOfTimer DEF Stop, Close, timerVars
<1>4. ASSUME NEW l \in Listeners, RegisterEventListener(l) \/ UnregisterEventListener(l)
      PROVE TimerStepOf(k)
  BY <1>4, StutterOfTimer DEF RegisterEventListener, UnregisterEventListener, threadVars,
     timerVars
<1>5. ASSUME NEW t \in InjectThreads, InjectMotionEvent(t) PROVE TimerStepOf(k)
  <2>1. t \in Thread /\ t \in PoolThreads
    BY DEF Thread, PoolThreads
  <2>2. at' = [at EXCEPT ![t] = "begin"] /\ UNCHANGED timerVars
    BY <1>5 DEF InjectMotionEvent
  <2>3. at'[t] \in Place /\ \A u \in Thread : u # t => at'[u] = at[u]
    BY <2>1, <2>2 DEF Types, ThreadsOK, ThreadsTypeOK, Place
  <2> QED BY <2>1, <2>2, <2>3, GenerationKinds, Move DEF timerVars
<1>6. ASSUME ClientDies PROVE TimerStepOf(k)
  BY <1>6, StutterOfTimer DEF ClientDies, threadVars, timerVars
<1>7. ASSUME NEW t \in DeathThreads, NEW h \in 1..MaxOpens, BinderDied(t, h)
      PROVE TimerStepOf(k)
  <2>1. t \in Thread /\ t \in PoolThreads
    BY DEF Thread, PoolThreads
  <2>2. UNCHANGED timerVars /\ (UNCHANGED at \/ Enter(t, BinderDiedProgram))
    BY <1>7 DEF BinderDied
  <2> QED BY <2>1, <2>2, TimerProgramTypes, StutterOfTimer, MovesOfTimer DEF timerVars
<1> QED BY <1>1, <1>2, <1>3, <1>4, <1>5, <1>6, <1>7 DEF ClientCall, DeathNotice

\* A cancel of any kind j, with or without a new generation
LEMMA CancelsOfTimer ==
    ASSUME Types, NEW k \in GenerationKind, NEW t \in Thread, at[t] = "run",
           NEW j \in Kind, NEW program, CancelThread(t, j, program),
           gen' = gen \/ gen' = [gen EXCEPT ![j] = @ + 1]
    PROVE  TimerStepOf(k)
<1>1. /\ at \in [Thread -> Place] /\ gen \in [Kind -> 0..MaxGen] /\ k \in Kind
      /\ cancelled \in [Kind -> BOOLEAN]
  BY GenerationKinds DEF Types, TimersTypeOK, ThreadsOK, ThreadsTypeOK
<1>2. \E pc \in {"idle", "run", "join"} : at' = [at EXCEPT ![t] = pc]
  BY DEF CancelThread, Continue, Leave
<1>3. /\ at'[t] \in Place \ {"wait"}
      /\ \A u \in Thread : u # t => at'[u] = at[u]
  BY <1>1, <1>2 DEF Place
<1>4. cancelled' = [cancelled EXCEPT ![j] = TRUE]
  BY DEF CancelThread
<1>5. CASE j = k
  <2>1. cancelled'[k] /\ gen'[k] \in {gen[k], gen[k] + 1}
    BY <1>1, <1>4, <1>5
  <2> QED BY <1>3, <2>1, CancelOfTimer
<1>6. CASE j # k
  <2>1. cancelled'[k] = cancelled[k] /\ gen'[k] = gen[k]
    BY <1>1, <1>4, <1>6
  <2> QED BY <1>3, <2>1, GenerationKinds, Move
<1> QED BY <1>5, <1>6

\* Arming a timer of another kind j
LEMMA OtherSpawnOfTimer ==
    ASSUME Types, NEW k \in GenerationKind, NEW t \in Thread, at[t] = "run",
           NEW j \in Kind, j # k, NEW g \in 1..MaxGen, NEW program, NEW rest,
           Spawn(t, j, g, "begin", program, rest)
    PROVE  TimerStepOf(k)
<1>1. /\ at \in [Thread -> Place] /\ gen \in [Kind -> 0..MaxGen] /\ k \in Kind
      /\ cancelled \in [Kind -> BOOLEAN] /\ <<j, g>> \in Thread
  BY GenerationKinds, TimerThreadsAreThreads
     DEF Types, TimersTypeOK, ThreadsOK, ThreadsTypeOK
<1>2. cancelled'[k] = cancelled[k] /\ gen'[k] = gen[k]
  BY <1>1 DEF Spawn
<1>3. \E pc \in {"idle", "run", "terminated"} :
         \/ at' = [at EXCEPT ![t] = pc]
         \/ at' = [at EXCEPT ![t] = pc, ![<<j, g>>] = "begin"]
  BY DEF Spawn
<1>4. at'[t] \in Place
  BY <1>1, <1>3 DEF Place
<1>5. \A h \in 1..MaxGen : <<k, h>> # t => at'[<<k, h>>] = at[<<k, h>>]
  <2>1. \A h \in 1..MaxGen : <<k, h>> \in Thread /\ <<k, h>> # <<j, g>>
    BY GenerationKinds
  <2> QED BY <1>1, <1>3, <2>1
<1> QED BY <1>2, <1>4, <1>5, Move

LEMMA StepsOfTimer ==
    ASSUME Types, TimerInv, NEW k \in GenerationKind, NEW t \in Thread, Step(t)
    PROVE  TimerStepOf(k)
<1> USE DEF Runs
<1>0. \A name : Runs(t, name) =>
         /\ at[t] = "run" /\ Head(todo[t]) \in Op /\ Tail(todo[t]) \in Program
         /\ Head(todo[t]).do = name
  BY RunsType DEF Types
<1>1. CASE ChangeState(t)
  BY <1>0, <1>1, MovesOfTimer DEF ChangeState, timerVars
<1>2. CASE CancelTimer(t)
  <2>1. Head(todo[t]).timer \in Kind
    BY <1>0, <1>2, OpFields DEF CancelTimer
  <2> QED BY <1>2, <2>1, CancelsOfTimer DEF CancelTimer
<1>3. CASE InvalidateTimer(t)
  <2>1. Head(todo[t]).timer \in Kind
    BY <1>0, <1>3, OpFields DEF InvalidateTimer
  <2> QED BY <1>3, <2>1, CancelsOfTimer DEF InvalidateTimer
<1>4. CASE ArmLifecycleTimer(t)
  <2>1. Head(todo[t]).timer \in 1..MaxGen /\ at[t] = "run"
    BY <1>0, <1>4, OpFields DEF ArmLifecycleTimer
  <2>2. "lifecycle" \in Kind /\ "lifecycle" # k
    BY GenerationKinds DEF Kind
  <2> QED BY <1>4, <2>1, <2>2, OtherSpawnOfTimer DEF ArmLifecycleTimer
<1>5. CASE ArmNoMotionTimer(t)
  <2>1. "noMotion" \in Kind
    BY DEF Kind
  <2>2. CASE state = "STARTED" /\ startConfig.mode = "NO_MOTION" /\ startConfig.noMotion
    <3>1. gen["noMotion"] + 1 \in 1..MaxGen /\ at[t] = "run"
      BY <1>5, <2>1, <2>2, Bounds DEF ArmNoMotionTimer, Types, TimersTypeOK
    <3>2. Spawn(t, "noMotion", gen["noMotion"] + 1, "begin", NoMotionProgram, Tail(todo[t]))
      BY <1>5, <2>2 DEF ArmNoMotionTimer
    <3> QED BY <2>1, <3>1, <3>2, SpawnOfTimer, OtherSpawnOfTimer
  <2>3. CASE ~(state = "STARTED" /\ startConfig.mode = "NO_MOTION" /\ startConfig.noMotion)
    BY <1>0, <1>5, <2>3, MovesOfTimer DEF ArmNoMotionTimer, timerVars
  <2> QED BY <2>2, <2>3
<1>6. CASE ArmWindowScheduler(t)
  <2>1. "window" \in Kind
    BY DEF Kind
  <2>2. CASE state = "STARTED" /\ hasWindows
    <3>1. gen["window"] + 1 \in 1..MaxGen /\ at[t] = "run"
      BY <1>6, <2>1, <2>2, Bounds DEF ArmWindowScheduler, Types, TimersTypeOK
    <3>2. Spawn(t, "window", gen["window"] + 1, "begin", WindowProgram, Tail(todo[t]))
      BY <1>6, <2>2 DEF ArmWindowScheduler
    <3> QED BY <2>1, <3>1, <3>2, SpawnOfTimer, OtherSpawnOfTimer
  <2>3. CASE ~(state = "STARTED" /\ hasWindows)
    BY <1>0, <1>6, <2>3, MovesOfTimer DEF ArmWindowScheduler, timerVars
  <2> QED BY <2>2, <2>3
<1>7. CASE UpdateActiveWindow(t)
  <2>1. ScheduleActiveWindow \o Tail(todo[t]) \in Program /\ Tail(todo[t]) \in Program
    BY <1>0, <1>7, TimerProgramTypes, ProgramTypes DEF UpdateActiveWindow
  <2> QED BY <1>7, <2>1, MovesOfTimer DEF UpdateActiveWindow, timerVars
<1>8. CASE InjectLocked(t)
  <2>1. "deliver" \in Place /\ <<Record(Head(todo[t]).stamp)>> \in Program
    BY <1>0, <1>8, OpFields, OpTypes, ProgramTypes DEF InjectLocked, Place
  <2> QED BY <1>8, <2>1, TimerProgramTypes, ProgramTypes, MovesOfTimer
          DEF InjectLocked, timerVars
<1>9. CASE EndSessionOfTheDead(t)
  <2>1. (IF state \in {"STARTING", "STARTED"} THEN GoDown ELSE <<Change("STOPPED")>>)
           \o Tail(todo[t]) \in Program
    BY <1>0, <1>9, TimerProgramTypes, OpTypes, ProgramTypes DEF EndSessionOfTheDead, State
  <2> QED BY <1>9, <2>1, MovesOfTimer DEF EndSessionOfTheDead, timerVars
<1>10. CASE Release(t)
  BY <1>0, <1>10, MovesOfTimer DEF Release, timerVars
<1>11. CASE ReturnToCallback(t)
  <2>1. "callback" \in Place
    BY DEF Place
  <2> QED BY <1>0, <1>11, <2>1, MovesOfTimer DEF ReturnToCallback, timerVars
<1>12. CASE TakeMutex(t) \/ RecordEvent(t)
  <2>1. /\ at[t] \notin {"idle", "wait"} /\ UNCHANGED timerVars
        /\ \E pc \in {"idle", "run"} : at' = [at EXCEPT ![t] = pc]
    BY <1>12 DEF TakeMutex, RecordEvent
  <2>2. at'[t] \in Place /\ \A u \in Thread : u # t => at'[u] = at[u]
    BY <2>1 DEF Types, ThreadsOK, ThreadsTypeOK, Place
  <2> QED BY <2>1, <2>2, GenerationKinds, Move DEF timerVars
<1>13. CASE \E l \in Listeners : OnEvent(t, l)
  BY <1>13, StutterOfTimer DEF OnEvent, timerVars
<1> QED
  BY <1>1, <1>2, <1>3, <1>4, <1>5, <1>6, <1>7, <1>8, <1>9, <1>10, <1>11, <1>12, <1>13 DEF Step

LEMMA TimerStepsOfTimer ==
    ASSUME Types, NEW k \in GenerationKind, NEW j \in Kind, NEW g \in 1..MaxGen,
           TimerStep(j, g)
    PROVE  TimerStepOf(k)
<1> DEFINE t == <<j, g>>
<1>1. /\ t \in Thread /\ at \in [Thread -> Place]
      /\ \A h \in 1..MaxGen : <<k, h>> \in Thread
  BY TimerThreadsAreThreads, GenerationKinds DEF Types, ThreadsOK, ThreadsTypeOK
<1>2. CASE BeginWait(j, g)
  <2>1. Tail(todo[t]) \in Program /\ "wait" \in Place /\ at[t] = "run"
    BY <1>1, <1>2, RunsType DEF BeginWait, Types, Place, Runs
  <2> QED BY <1>1, <1>2, <2>1, MovesOfTimer DEF BeginWait, timerVars
<1>3. CASE WaitCancelled(j, g)
  <2>1. at[t] = "wait" /\ at' = [at EXCEPT ![t] = "idle"] /\ UNCHANGED timerVars
        /\ WaitOver(j, g)
    BY <1>3 DEF WaitCancelled
  <2>2. CASE j # k
    <3>1. UNCHANGED <<LiveTimer(k), ThreadsIn(k, {"wait"}),
                      ThreadsIn(k, Place \ {"idle", "wait"})>>
      BY <1>1, <2>1, <2>2 DEF LiveTimer, ThreadsIn, timerVars
    <3> QED BY <2>1, <3>1 DEF TimerStepOf, Timer!vars, timerVars
  <2>3. CASE j = k
    <3>1. g \in ThreadsIn(k, {"wait"}) \ LiveTimer(k)
      BY <2>1, <2>3 DEF ThreadsIn, LiveTimer, WaitOver
    <3>2. Timer(k)!Drop(g)
      BY <1>1, <2>1, <2>3, <3>1 DEF Timer!Drop, LiveTimer, ThreadsIn, timerVars, WaitOver
    <3> QED BY <3>1, <3>2 DEF TimerStepOf, Timer!Next
  <2> QED BY <2>2, <2>3
<1>4. CASE WaitTimesOut(j, g)
  <2>1. at[t] = "wait" /\ at' = [at EXCEPT ![t] = "run"] /\ UNCHANGED timerVars
        /\ ~WaitOver(j, g)
    BY <1>4 DEF WaitTimesOut
  <2>2. CASE j # k
    <3>1. UNCHANGED <<LiveTimer(k), ThreadsIn(k, {"wait"}),
                      ThreadsIn(k, Place \ {"idle", "wait"})>>
      BY <1>1, <2>1, <2>2 DEF LiveTimer, ThreadsIn, timerVars
    <3> QED BY <2>1, <3>1 DEF TimerStepOf, Timer!vars, timerVars
  <2>3. CASE j = k
    <3>1. g \in ThreadsIn(k, {"wait"}) \cap LiveTimer(k)
      BY <2>1, <2>3, GenerationKinds DEF ThreadsIn, LiveTimer, WaitOver
    <3>2. Timer(k)!Fire(g)
      BY <1>1, <2>1, <2>3, <3>1 DEF Timer!Fire, LiveTimer, ThreadsIn, timerVars, Place
    <3> QED BY <3>1, <3>2 DEF TimerStepOf, Timer!Next
  <2> QED BY <2>2, <2>3
<1>5. ASSUME NEW program \in Program, at[t] = "run", Continue(t, program), UNCHANGED timerVars
      PROVE  TimerStepOf(k)
  BY <1>1, <1>5, MovesOfTimer DEF timerVars
<1>6. CASE ActivateAfterDelay(j, g)
  <2>1. Tail(todo[t]) \in Program /\ Activate \o Tail(todo[t]) \in Program /\ at[t] = "run"
    BY <1>1, <1>6, RunsType, TimerProgramTypes, ProgramTypes
       DEF ActivateAfterDelay, Types, Runs
  <2> QED BY <1>5, <1>6, <2>1, ProgramTypes DEF ActivateAfterDelay
<1>7. CASE CheckBeforeWait(j, g)
  <2>1. Tail(todo[t]) \in Program /\ at[t] = "run"
    BY <1>1, <1>7, RunsType DEF CheckBeforeWait, Types, Runs
  <2> QED BY <1>5, <1>7, <2>1, ProgramTypes DEF CheckBeforeWait
<1>8. CASE AutoStop(j, g)
  <2>1. <<Cancel("noMotion"), Cancel("window")>> \o GoDown \in Program
    BY OpTypes, TimerProgramTypes, ProgramTypes DEF Kind
  <2> QED BY <1>5, <1>8, <2>1, ProgramTypes DEF AutoStop, Runs
<1>9. CASE NoMotionExpires(j, g)
  <2>1. <<Record(stamps + 1)>> \in Program /\ "deliver" \in Place
    BY OpTypes, ProgramTypes DEF Types, WorldTypeOK, Place
  <2> QED BY <1>1, <1>5, <1>9, <2>1, ProgramTypes, MovesOfTimer
          DEF NoMotionExpires, timerVars, Runs
<1>10. CASE BoundaryReached(j, g)
  <2>1. <<Simple("update")>> \in Program
    BY OpTypes, ProgramTypes DEF SimpleNames
  <2> QED BY <1>5, <1>10, <2>1, ProgramTypes DEF BoundaryReached, Runs
<1> QED BY <1>2, <1>3, <1>4, <1>6, <1>7, <1>8, <1>9, <1>10 DEF TimerStep

LEMMA NextOfTimer ==
    ASSUME Types, TimerInv, [Next]_vars, NEW k \in GenerationKind
    PROVE  TimerStepOf(k)
<1>1. CASE Rest \/ UNCHANGED vars
  BY <1>1, StutterOfTimer DEF Rest, vars, threadVars, timerVars
<1> QED BY <1>1, CallsOfTimer, StepsOfTimer, TimerStepsOfTimer DEF Next

-----------------------------------------------------------------------------
\* The inactivity timer and the window scheduler are one-shot timers, however
\* many threads cancel and restart them, with deaths and calls from callbacks:
\* a timer that was cancelled never fires, and at most one is live, although
\* its flag is shared and startNoMotionTimerLocked and
\* scheduleActiveWindowLocked clear it for the next one.
THEOREM TimersImplemented == Spec => ImplementsTimers
<1>1. "noMotion" \in GenerationKind /\ "window" \in GenerationKind
  BY DEF GenerationKind, Kind
<1>2. Init => NoMotionTimer!Init /\ WindowTimer!Init
  BY <1>1, InitTimer DEF Timer!Init, NoMotionTimer!Init, WindowTimer!Init
<1>3. Types /\ TimerInv /\ [Next]_vars => [NoMotionTimer!Next]_(NoMotionTimer!vars)
  <2> SUFFICES ASSUME Types, TimerInv, [Next]_vars
               PROVE  [NoMotionTimer!Next]_(NoMotionTimer!vars)
    OBVIOUS
  <2>1. TimerStepOf("noMotion")
    BY <1>1, NextOfTimer
  <2> QED
    BY <2>1 DEF TimerStepOf, Timer!Next, Timer!vars, Timer!Arm, Timer!Cancel, Timer!Sleep,
       Timer!Fire, Timer!Drop, Timer!Return, NoMotionTimer!Next, NoMotionTimer!vars,
       NoMotionTimer!Arm, NoMotionTimer!Cancel, NoMotionTimer!Sleep, NoMotionTimer!Fire,
       NoMotionTimer!Drop, NoMotionTimer!Return
<1>4. Types /\ TimerInv /\ [Next]_vars => [WindowTimer!Next]_(WindowTimer!vars)
  <2> SUFFICES ASSUME Types, TimerInv, [Next]_vars
               PROVE  [WindowTimer!Next]_(WindowTimer!vars)
    OBVIOUS
  <2>1. TimerStepOf("window")
    BY <1>1, NextOfTimer
  <2> QED
    BY <2>1 DEF TimerStepOf, Timer!Next, Timer!vars, Timer!Arm, Timer!Cancel, Timer!Sleep,
       Timer!Fire, Timer!Drop, Timer!Return, WindowTimer!Next, WindowTimer!vars,
       WindowTimer!Arm, WindowTimer!Cancel, WindowTimer!Sleep, WindowTimer!Fire,
       WindowTimer!Drop, WindowTimer!Return
<1> QED
  BY <1>2, <1>3, <1>4, TypesInvariant, TimerInvariant, PTL
     DEF Spec, ImplementsTimers, NoMotionTimer!Spec, WindowTimer!Spec
=============================================================================
