--------------------------- MODULE LifecycleProofs ---------------------------
(***************************************************************************)
(* Theorems about the sessions of a client that makes one call at a time,  *)
(* in this order: a session without windows monitors motion; a stopped     *)
(* sensor at rest has no thread left; no step finds an old thread in a     *)
(* handle; the sensor implements the steps of SensorLifecycle; a session   *)
(* at rest has the threads its future depends on.                          *)
(***************************************************************************)
EXTENDS SessionEventsProofs

\* No client configures active windows.
NoWindows == WindowSets \subseteq {FALSE}

\* Clients start sessions that report motion, never inactivity.
MotionOnly == \A cfg \in Configs : cfg.mode = "MOTION"

-----------------------------------------------------------------------------
(* Where a session thread waits.                                            *)

\* No wait begins.
NoNewWait ==
    \A u \in Thread : at'[u] = "wait" => at[u] = "wait" /\ todo'[u] = todo[u]

LEMMA StepsDoNotWait ==
    ASSUME Types, NEW t \in Thread, Step(t)
    PROVE  NoNewWait
<1> USE DEF NoNewWait
<1>0. at \in [Thread -> Place] /\ todo \in [Thread -> Seq(Op)]
  BY DEF Types, ThreadsOK, ThreadsTypeOK
<1>1. ASSUME NEW program, Continue(t, program) PROVE NoNewWait
  BY <1>0, <1>1 DEF Continue
<1>2. ASSUME NEW program, NEW pc, pc # "wait", Leave(t, pc, program) PROVE NoNewWait
  BY <1>0, <1>2 DEF Leave
<1>3. ASSUME NEW program, CallOut(t, program) PROVE NoNewWait
  BY <1>1, <1>2, <1>3 DEF CallOut
<1>4. ASSUME NEW k, NEW program, CancelThread(t, k, program) PROVE NoNewWait
  BY <1>1, <1>2, <1>4 DEF CancelThread
<1>5. ASSUME NEW k, NEW g, NEW program, NEW rest, Spawn(t, k, g, "begin", program, rest)
      PROVE  NoNewWait
  BY <1>0, <1>5 DEF Spawn
<1>6. CASE ChangeState(t) \/ UpdateActiveWindow(t) \/ EndSessionOfTheDead(t) \/ Release(t)
  BY <1>1, <1>3, <1>6 DEF ChangeState, UpdateActiveWindow, EndSessionOfTheDead, Release
<1>7. CASE CancelTimer(t) \/ InvalidateTimer(t)
  BY <1>4, <1>7 DEF CancelTimer, InvalidateTimer
<1>8. CASE ArmLifecycleTimer(t) \/ ArmNoMotionTimer(t) \/ ArmWindowScheduler(t)
  BY <1>1, <1>5, <1>8 DEF ArmLifecycleTimer, ArmNoMotionTimer, ArmWindowScheduler
<1>9. CASE ReturnToCallback(t) \/ InjectLocked(t)
  BY <1>1, <1>2, <1>9 DEF ReturnToCallback, InjectLocked
<1>10. CASE TakeMutex(t) \/ RecordEvent(t) \/ \E l \in Listeners : OnEvent(t, l)
  BY <1>0, <1>10 DEF TakeMutex, RecordEvent, OnEvent
<1> QED BY <1>6, <1>7, <1>8, <1>9, <1>10 DEF Step

LEMMA TimerStepsDoNotWait ==
    ASSUME Types, NEW k \in Kind, NEW g \in 1..MaxGen, TimerStep(k, g), ~BeginWait(k, g)
    PROVE  NoNewWait
<1> USE DEF NoNewWait
<1> DEFINE t == <<k, g>>
<1>0. at \in [Thread -> Place] /\ todo \in [Thread -> Seq(Op)] /\ t \in Thread
  BY TimerThreadsAreThreads DEF Types, ThreadsOK, ThreadsTypeOK
<1> HIDE DEF t
<1>1. ASSUME NEW program, Continue(t, program) PROVE NoNewWait
  BY <1>0, <1>1 DEF Continue
<1>2. ASSUME NEW program, Leave(t, "deliver", program) PROVE NoNewWait
  BY <1>0, <1>2 DEF Leave
<1> USE DEF t
<1>3. CASE WaitCancelled(k, g) \/ WaitTimesOut(k, g)
  BY <1>0, <1>3 DEF WaitCancelled, WaitTimesOut
<1>4. CASE ActivateAfterDelay(k, g) \/ CheckBeforeWait(k, g) \/ AutoStop(k, g)
           \/ NoMotionExpires(k, g) \/ BoundaryReached(k, g)
  BY <1>1, <1>2, <1>4 DEF ActivateAfterDelay, CheckBeforeWait, AutoStop, NoMotionExpires,
     BoundaryReached
<1> QED BY <1>3, <1>4 DEF TimerStep

LEMMA CallsDoNotWait ==
    ASSUME Types, ClientCall
    PROVE  NoNewWait
<1>0. at \in [Thread -> Place] /\ todo \in [Thread -> Seq(Op)]
  BY DEF Types, ThreadsOK, ThreadsTypeOK
<1>1. ASSUME NEW t \in Thread, NEW program, Enter(t, program) PROVE NoNewWait
  BY <1>0, <1>1 DEF Enter, NoNewWait
<1>2. ASSUME NEW t \in Thread, Stop(t) \/ Close(t) PROVE NoNewWait
  BY <1>1, <1>2 DEF Stop, Close
<1>3. ASSUME NEW t \in Thread, NEW cfg \in Configs, Start(t, cfg) PROVE NoNewWait
  BY <1>1, <1>3 DEF Start
<1>4. ASSUME NEW t \in InjectThreads, InjectMotionEvent(t) PROVE NoNewWait
  BY <1>0, <1>4 DEF InjectMotionEvent, NoNewWait
<1>5. CASE \/ \E t \in Thread : Open(t) \/ SetActiveWindows(t)
           \/ \E l \in Listeners : RegisterEventListener(l) \/ UnregisterEventListener(l)
  BY <1>5 DEF Open, SetActiveWindows, RegisterEventListener, UnregisterEventListener,
     threadVars, NoNewWait
<1> QED BY <1>2, <1>3, <1>4, <1>5 DEF ClientCall

\* What a session thread has left while it waits.
Waiting(program) == program = Limit1 \/ \E rest \in LifecycleRest : program = Delay1(rest)

\* Of the session threads only the lifecycle thread waits.
SessionWaits ==
    \A t \in SessionThread :
        at[t] = "wait" => t \notin ClientThreads /\ Waiting(todo[t])

LEMMA WaitBegins ==
    ASSUME SingleClient, OneClientInv, NEW g \in 1..MaxGen,
           todo[LifecycleThread(g)] # <<>>, Head(todo[LifecycleThread(g)]).do = "wait"
    PROVE  Waiting(Tail(todo[LifecycleThread(g)]))
<1> USE OpValues DEF Parts
<1> DEFINE program == todo[LifecycleThread(g)]
<1>1. LifecyclePhase(g)
  BY DEF OneClientInv, SessionInv
<1>2. ASSUME NEW rest \in LifecycleRest, program \in {Delay2(rest), Delay1(rest), Active(rest)}
      PROVE  Waiting(Tail(program))
  <2>1. rest \in Program
    BY RestPrograms
  <2>2. Head(Delay1(rest)).do = "activate" /\ Head(Active(rest)).do = "change"
    BY SMTT(30), <2>1, LifecycleParts, ActivationParts
  <2>3. program = Delay2(rest)
    BY <1>2, <2>2
  <2> QED BY <2>1, <2>3, LifecycleParts DEF Waiting
<1>3. ASSUME NEW rest \in LifecycleRest, program \in Activation(rest) PROVE FALSE
  <2>1. Head(program) \in {Simple("update"), Cancel("window"), Simple("armWindow"),
                           Cancel("noMotion"), Simple("armNoMotion")}
    BY <1>3, RestPrograms, ActivationParts DEF Activation
  <2> QED BY <2>1
<1>4. CASE program \in {Limit3, Limit2, Limit1, AutoStop4, Stop3, Stop2, Stop1}
  <2>1. \A p \in {Limit3, Limit1, AutoStop4, Stop3, Stop2, Stop1} : Head(p).do # "wait"
    BY SMTT(30), LifecycleParts, StopParts
  <2>2. program = Limit2
    BY <1>4, <2>1
  <2> QED BY <2>2, LifecycleParts DEF Waiting
<1> QED BY <1>1, <1>2, <1>3, <1>4 DEF LifecyclePhase

LEMMA NextSessionWaits ==
    ASSUME SingleClient, Types, OneClientInv, SessionWaits, [Next]_vars
    PROVE  SessionWaits'
<1>0. SessionThread' = SessionThread /\ SessionThread \subseteq Thread
  BY SessionThreads DEF SessionThread
<1>1. ASSUME NoNewWait PROVE SessionWaits'
  BY <1>0, <1>1 DEF NoNewWait, SessionWaits
<1>2. ASSUME NEW k \in Kind, NEW g \in 1..MaxGen, BeginWait(k, g) PROVE SessionWaits'
  <2>1. PICK t : t = <<k, g>>
    OBVIOUS
  <2>2. /\ t \in Thread /\ todo[t] # <<>> /\ Head(todo[t]).do = "wait"
        /\ Leave(t, "wait", Tail(todo[t])) /\ target' = target
    BY <1>2, <2>1, TimerThreadsAreThreads DEF BeginWait, Runs
  <2>3. MovesOnly(t, Tail(todo[t]))
    BY <2>2, Moves
  <2>4. ASSUME NEW u \in SessionThread, at'[u] = "wait"
        PROVE  u \notin ClientThreads /\ Waiting(todo'[u])
    <3>1. CASE u # t
      BY <1>0, <2>3, <2>4, <3>1 DEF MovesOnly, SessionWaits
    <3>2. CASE u = t
      <4>1. k = "lifecycle"
        BY <2>1, <2>4, <3>2, SessionThreads DEF GenerationKind
      <4>2. t = LifecycleThread(g)
        BY <2>1, <4>1 DEF LifecycleThread
      <4> QED BY <2>2, <2>3, <3>2, <4>2, WaitBegins, Roles DEF MovesOnly
    <3> QED BY <3>1, <3>2
  <2> QED BY <1>0, <2>4 DEF SessionWaits, Waiting
<1>3. CASE ClientDies \/ DeathNotice
  BY <1>3 DEF ClientDies, DeathNotice, SingleClient
<1>4. CASE Rest \/ UNCHANGED vars
  BY <1>1, <1>4 DEF Rest, vars, threadVars, NoNewWait
<1> QED BY <1>1, <1>2, <1>3, <1>4, StepsDoNotWait, TimerStepsDoNotWait, CallsDoNotWait
     DEF Next

LEMMA InitSessionWaits == ASSUME SingleClient, Init PROVE SessionWaits
BY SessionThreads DEF Init, SessionWaits

-----------------------------------------------------------------------------
(* What a step does to the programs of the session threads.                 *)

\* The lifecycle timer stays as it is.
LifecycleTimerStays ==
    /\ handle'["lifecycle"] = handle["lifecycle"]
    /\ cancelled'["lifecycle"] = cancelled["lifecycle"]
    /\ gen'["lifecycle"] = gen["lifecycle"]

\* The session threads other than t stay where they are.
OthersStay(t) ==
    \A u \in SessionThread : u # t => todo'[u] = todo[u] /\ at'[u] = at[u]

\* No session thread goes on in its program, though some may take the mutex.
Aside ==
    /\ UNCHANGED <<state, startConfig>>
    /\ LifecycleTimerStays
    /\ \A u \in SessionThread : todo'[u] = todo[u]

\* The session thread t goes on with program.
GoesOn(t, program) ==
    /\ OthersStay(t)
    /\ todo'[t] = program
    /\ UNCHANGED startConfig

CancelsLifecycle(op) == op.do \in {"cancel", "invalidate"} /\ op.timer = "lifecycle"

\* The operations that decide where the session goes.
DecidingOp(op) == op.do \in {"change", "armLifecycle", "activate", "autoStop"}

\* t has carried out an operation that decides nothing.
Advances(t) ==
    /\ at[t] = "run" /\ todo[t] # <<>> /\ ~DecidingOp(Head(todo[t]))
    /\ GoesOn(t, Tail(todo[t])) /\ state' = state
    /\ CancelsLifecycle(Head(todo[t])) \/ LifecycleTimerStays
    /\ Head(todo[t]).do = "invalidate" \/ gen'["lifecycle"] = gen["lifecycle"]

\* t has brought the window status of an active session up to date.
Updates(t) ==
    /\ at[t] = "run" /\ todo[t] # <<>> /\ Head(todo[t]).do = "update" /\ state = "STARTED"
    /\ GoesOn(t, ScheduleActiveWindow \o Tail(todo[t])) /\ state' = state
    /\ LifecycleTimerStays

LEMMA StepsLeaveSettings ==
    ASSUME Types, NEW t \in Thread, Step(t)
    PROVE  /\ UNCHANGED <<startConfig, hasWindows, opens>>
           /\ owner' = owner \/ Release(t)
           /\ state' = state \/ ChangeState(t)
           /\ within' = within \/ UpdateActiveWindow(t)
           /\ \/ gen'["lifecycle"] = gen["lifecycle"]
              \/ InvalidateTimer(t) /\ Head(todo[t]).timer = "lifecycle"
<1>1. /\ UNCHANGED <<startConfig, hasWindows, opens>>
      /\ owner' = owner \/ Release(t)
      /\ state' = state \/ ChangeState(t)
      /\ within' = within \/ UpdateActiveWindow(t)
  BY DEF Step, ChangeState, CancelTimer, InvalidateTimer, ArmLifecycleTimer,
     ArmNoMotionTimer, ArmWindowScheduler, UpdateActiveWindow, InjectLocked,
     EndSessionOfTheDead, Release, ReturnToCallback, TakeMutex, RecordEvent, OnEvent,
     sensorVars, worldVars
<1>2. gen \in [Kind -> 0..MaxGen] /\ "lifecycle" \in Kind
  BY DEF Types, TimersTypeOK, Kind
<1>3. InvalidateTimer(t) => \/ gen'["lifecycle"] = gen["lifecycle"]
                            \/ Head(todo[t]).timer = "lifecycle"
  BY <1>2 DEF InvalidateTimer
<1>4. ASSUME NEW k, NEW g, NEW program, NEW rest, Spawn(t, k, g, "begin", program, rest)
      PROVE  gen'["lifecycle"] = gen["lifecycle"]
  BY <1>2, <1>4 DEF Spawn
<1>5. ArmLifecycleTimer(t) \/ ArmNoMotionTimer(t) \/ ArmWindowScheduler(t)
        => gen'["lifecycle"] = gen["lifecycle"]
  BY <1>4 DEF ArmLifecycleTimer, ArmNoMotionTimer, ArmWindowScheduler, timerVars
<1>6. ~InvalidateTimer(t) => gen'["lifecycle"] = gen["lifecycle"]
  BY <1>5 DEF Step, ChangeState, CancelTimer, UpdateActiveWindow, InjectLocked,
     EndSessionOfTheDead, Release, ReturnToCallback, TakeMutex, RecordEvent, OnEvent,
     timerVars
<1> QED BY <1>1, <1>3, <1>6

LEMMA TimerStepsLeaveSettings ==
    ASSUME NEW k, NEW g, TimerStep(k, g)
    PROVE  UNCHANGED <<state, owner, startConfig, hasWindows, within, opens,
                       handle, cancelled, gen>>
BY DEF TimerStep, BeginWait, WaitCancelled, WaitTimesOut, ActivateAfterDelay,
   CheckBeforeWait, AutoStop, NoMotionExpires, BoundaryReached, sensorVars, timerVars,
   worldVars

LEMMA OtherStepsAreAside ==
    ASSUME SingleClient, Types, TimerInv, OneClientInv, NEW t \in Thread,
           t \notin SessionThread, Step(t)
    PROVE  Aside /\ OthersStay(t) /\ owner' = owner
<1>1. Frame(t)
  BY OtherStepFrame
<1>2. todo[t] # <<>> => Head(todo[t]).do \notin {"invalidate", "release"}
  <2>1. \A op \in NoMotionOp \cup WindowOp \cup InjectOp : op.do \notin {"invalidate", "release"}
    BY OpValues DEF NoMotionOp, WindowOp, InjectOp
  <2> QED BY <2>1, OtherHead DEF OneClientInv
<1>3. ~InvalidateTimer(t) /\ ~Release(t)
  BY <1>2 DEF InvalidateTimer, Release, Runs
<1> QED BY <1>1, <1>3, StepsLeaveSettings DEF Frame, Aside, OthersStay, LifecycleTimerStays

LEMMA OtherTimerStepsAreAside ==
    ASSUME SingleClient, Types, NEW k \in GenerationKind, NEW g \in 1..MaxGen,
           OneClientInv, TimerStep(k, g)
    PROVE  Aside /\ \A u \in SessionThread : at'[u] = at[u]
<1>1. PICK t : t = <<k, g>>
  OBVIOUS
<1>2. Frame(t) /\ t \notin SessionThread
  BY <1>1, OtherTimerStepFrame
<1>3. UNCHANGED <<startConfig, gen>>
  BY TimerStepsLeaveSettings
<1> QED BY <1>2, <1>3 DEF Frame, Aside, LifecycleTimerStays

LEMMA SessionSteps ==
    ASSUME SingleClient, Types, TimerInv, OneClientInv, NEW t \in SessionThread, Step(t)
    PROVE  \/ Aside /\ OthersStay(t) /\ owner' = owner
           \/ Advances(t) /\ (owner' = owner \/ Release(t))
           \/ Updates(t) /\ owner' = owner
           \/ ChangeState(t)
           \/ ArmLifecycleTimer(t) /\ t \in ClientThreads
<1> USE DEF OneClientInv, Runs
<1>1. t \in Thread /\ "lifecycle" \in Kind /\ SessionThread \subseteq Thread
  BY SessionThreads DEF Kind
<1>2. todo[t] # <<>> =>
         Head(todo[t]).do \in {"update", "armWindow", "armNoMotion", "cancel", "change",
                               "armLifecycle", "release", "invalidate", "wait",
                               "activate", "check", "autoStop"}
  BY SessionHeads
<1>3. /\ startConfig' = startConfig
      /\ owner' = owner \/ Release(t)
      /\ state' = state \/ ChangeState(t)
      /\ \/ gen'["lifecycle"] = gen["lifecycle"]
         \/ InvalidateTimer(t) /\ Head(todo[t]).timer = "lifecycle"
  BY <1>1, StepsLeaveSettings
<1>4. ASSUME NEW program, MovesOnly(t, program) PROVE OthersStay(t) /\ todo'[t] = program
  BY <1>1, <1>4 DEF MovesOnly, OthersStay
<1>5. CASE \/ CancelTimer(t) /\ Head(todo[t]).timer # "lifecycle"
           \/ ArmNoMotionTimer(t) \/ ArmWindowScheduler(t) \/ UpdateActiveWindow(t)
  <2>1. todo[t] # <<>> /\ PlainOp(Head(todo[t])) /\ ~Release(t) /\ ~ChangeState(t)
        /\ ~InvalidateTimer(t)
    BY <1>5 DEF CancelTimer, ArmNoMotionTimer, ArmWindowScheduler, UpdateActiveWindow, PlainOp,
       Release, ChangeState, InvalidateTimer
  <2>2. /\ Frame(t) /\ at[t] = "run"
        /\ \/ todo'[t] = Tail(todo[t])
           \/ todo'[t] = todo[t] /\ target'[t] = target[t]
           \/ /\ Head(todo[t]).do = "update" /\ state = "STARTED"
              /\ todo'[t] = ScheduleActiveWindow \o Tail(todo[t])
    BY <1>1, <1>5, <2>1, PlainSteps
  <2>3. OthersStay(t) /\ LifecycleTimerStays
    BY <1>3, <2>1, <2>2 DEF Frame, OthersStay, LifecycleTimerStays
  <2>4. ~DecidingOp(Head(todo[t]))
    BY <2>1 DEF PlainOp, DecidingOp
  <2> QED BY <1>3, <2>1, <2>2, <2>3, <2>4 DEF Advances, Updates, GoesOn, Aside, OthersStay
<1>6. CASE \/ CancelTimer(t) /\ Head(todo[t]).timer = "lifecycle"
           \/ InvalidateTimer(t)
  <2>1. /\ todo[t] # <<>> /\ at[t] = "run" /\ Head(todo[t]).do \in {"cancel", "invalidate"}
        /\ CancelThread(t, Head(todo[t]).timer, Tail(todo[t]))
        /\ ~Release(t) /\ ~ChangeState(t)
    BY <1>6 DEF CancelTimer, InvalidateTimer, Release, ChangeState
  <2>2. Head(todo[t]).timer \in Kind
    BY <1>1, <2>1, RunsType, OpFields DEF Types, Runs
  <2>3. PICK k \in Kind : k = Head(todo[t]).timer
    BY <2>2
  <2>4. /\ MovesOnly(t, Tail(todo[t]))
        /\ \A j \in Kind : j # k => handle'[j] = handle[j] /\ cancelled'[j] = cancelled[j]
    BY <1>1, <2>1, <2>3, CancelMoves
  <2>5. CancelsLifecycle(Head(todo[t])) \/ LifecycleTimerStays
    BY <1>1, <1>3, <2>1, <2>3, <2>4 DEF CancelsLifecycle, LifecycleTimerStays
  <2>6. ~DecidingOp(Head(todo[t]))
    BY <2>1 DEF DecidingOp
  <2>7. Head(todo[t]).do = "invalidate" \/ gen'["lifecycle"] = gen["lifecycle"]
    BY <1>3 DEF InvalidateTimer
  <2> QED BY <1>3, <1>4, <2>1, <2>4, <2>5, <2>6, <2>7 DEF Advances, GoesOn
<1>7. CASE ArmLifecycleTimer(t)
  <2>1. t \in ClientThreads
    BY <1>1, <1>7, ArmsFresh DEF ArmLifecycleTimer
  <2> QED BY <1>7, <2>1
<1>8. CASE Release(t)
  <2>1. /\ todo[t] # <<>> /\ at[t] = "run" /\ Head(todo[t]).do = "release"
        /\ Continue(t, Tail(todo[t])) /\ UNCHANGED <<handle, cancelled, gen, state>>
    BY <1>8 DEF Release, timerVars
  <2>2. MovesOnly(t, Tail(todo[t])) /\ ~DecidingOp(Head(todo[t]))
    BY <1>1, <2>1, Moves DEF DecidingOp
  <2> QED BY <1>3, <1>4, <1>8, <2>1, <2>2 DEF Advances, GoesOn, LifecycleTimerStays
<1>9. CASE TakeMutex(t)
  <2>1. /\ todo' = todo /\ \A u \in Thread : u # t => at'[u] = at[u]
        /\ UNCHANGED <<state, owner, handle, cancelled, gen>>
    BY <1>9 DEF TakeMutex, Types, ThreadsOK, ThreadsTypeOK, sensorVars, timerVars
  <2> QED BY <1>1, <1>3, <2>1 DEF Aside, OthersStay, LifecycleTimerStays
<1>10. CASE RecordEvent(t) \/ \E l \in Listeners : OnEvent(t, l)
  <2>1. at[t] = "deliver"
    BY <1>10 DEF RecordEvent, OnEvent
  <2>2. todo[t] # <<>> /\ Head(todo[t]).do = "record"
    BY <1>1, <2>1 DEF Types, ThreadsOK, DeliveryIsRecorded
  <2> QED BY <1>2, <2>2
<1>11. CASE InjectLocked(t) \/ EndSessionOfTheDead(t) \/ ReturnToCallback(t)
  BY <1>2, <1>11 DEF InjectLocked, EndSessionOfTheDead, ReturnToCallback
<1>12. CASE ChangeState(t)
  BY <1>12
<1> QED BY <1>5, <1>6, <1>7, <1>8, <1>9, <1>10, <1>11, <1>12 DEF Step

\* The lifecycle thread comes to the activation in the state STARTING alone.
LEMMA ActivatesWhileStarting ==
    ASSUME NEW g \in 1..MaxGen, LifecyclePhase(g), todo[LifecycleThread(g)] # <<>>,
           Head(todo[LifecycleThread(g)]).do = "activate"
    PROVE  /\ state = "STARTING"
           /\ \E rest \in LifecycleRest : /\ todo[LifecycleThread(g)] = Delay1(rest)
                                          /\ Activate \o Tail(todo[LifecycleThread(g)]) = Active(rest)
           /\ Activate \o Tail(todo[LifecycleThread(g)]) # <<>>
<1> USE OpValues DEF Parts
<1> DEFINE program == todo[LifecycleThread(g)]
<1>1. ASSUME NEW rest \in LifecycleRest, program \in Activation(rest) PROVE FALSE
  <2>1. Head(program) \in {Simple("update"), Cancel("window"), Simple("armWindow"),
                           Cancel("noMotion"), Simple("armNoMotion")}
    BY <1>1, RestPrograms, ActivationParts DEF Activation
  <2> QED BY <2>1
<1>2. program \notin {Limit3, Limit2, Limit1, AutoStop4, Stop3, Stop2, Stop1}
  <2>1. \A p \in {Limit3, Limit2, Limit1, AutoStop4, Stop3, Stop2, Stop1} :
           Head(p).do # "activate"
    BY SMTT(30), LifecycleParts, StopParts
  <2> QED BY <2>1
<1>3. state = "STARTING"
  BY <1>1, <1>2 DEF LifecyclePhase
<1>4. PICK rest \in LifecycleRest : program \in {Delay2(rest), Delay1(rest), Active(rest)}
  BY <1>1, <1>2 DEF LifecyclePhase
<1>5. rest \in Program
  BY RestPrograms
<1>6. Head(Delay2(rest)).do = "wait" /\ Head(Active(rest)).do = "change"
  BY <1>5, LifecycleParts, ActivationParts
<1>7. program = Delay1(rest)
  BY <1>4, <1>6
<1>8. Activate \o Tail(program) = Active(rest) /\ Active(rest) # <<>>
  <2>1. Tail(program) = rest
    BY <1>5, <1>7, LifecycleParts
  <2> QED BY <1>5, <2>1, ActivationUnfolds, ActivationParts
<1> QED BY <1>3, <1>7, <1>8

\* What the lifecycle thread does besides.
LEMMA LifecycleTimerSteps ==
    ASSUME SingleClient, Types, OneClientInv, NEW g \in 1..MaxGen,
           TimerStep("lifecycle", g)
    PROVE  LET t == LifecycleThread(g)
           IN  /\ OthersStay(t) /\ LifecycleTimerStays
               /\ UNCHANGED <<state, owner, startConfig, hasWindows, within, opens>>
               /\ \/ Aside
                  \/ /\ todo[t] # <<>> /\ Head(todo[t]).do \in {"wait", "check"}
                     /\ todo'[t] = Tail(todo[t])
                  \/ /\ todo[t] # <<>> /\ Head(todo[t]).do = "activate"
                     /\ state = "STARTING" /\ todo'[t] = Activate \o Tail(todo[t])
                     /\ at'[t] = "run"
                  \/ /\ todo[t] # <<>> /\ Head(todo[t]).do = "autoStop"
                     /\ state = "STARTED" /\ todo'[t] = AutoStop4 /\ at'[t] = "run"
                     /\ ~Superseded(g)
                  \/ /\ todo[t] # <<>> /\ todo'[t] = <<>>
                     /\ at[t] = "wait" \/ Head(todo[t]).do \in {"activate", "check", "autoStop"}
                     /\ Superseded(g) \/ (Head(todo[t]).do = "autoStop" /\ state # "STARTED")
<1> DEFINE t == LifecycleThread(g)
<1> USE DEF Runs
<1>1. t \in Thread /\ LifecyclePhase(g) /\ <<"lifecycle", g>> = t /\ SessionThread \subseteq Thread
  BY Roles, SessionThreads DEF OneClientInv, SessionInv, LifecycleThread
<1>2. /\ UNCHANGED <<state, owner, startConfig, hasWindows, within, opens, handle, cancelled, gen>>
      /\ LifecycleTimerStays
  BY TimerStepsLeaveSettings DEF LifecycleTimerStays
<1> HIDE DEF t
<1>3. ASSUME NEW program, NEW pc, Continue(t, program) \/ (Leave(t, pc, program) /\ target' = target)
      PROVE  OthersStay(t) /\ todo'[t] = program
  BY ZenonT(60), <1>1, <1>3, Moves DEF MovesOnly, OthersStay
<1>4. ASSUME OthersStay(t), todo'[t] = todo[t] PROVE Aside
  BY <1>2, <1>4 DEF OthersStay, Aside
<1>5. CASE BeginWait("lifecycle", g)
  <2>1. todo[t] # <<>> /\ Head(todo[t]).do = "wait" /\ Leave(t, "wait", Tail(todo[t]))
        /\ target' = target
    BY <1>1, <1>5 DEF BeginWait
  <2> QED BY <1>2, <1>3, <2>1 DEF t
<1>6. CASE WaitCancelled("lifecycle", g)
  <2>1. /\ \A u \in Thread : u # t => at'[u] = at[u] /\ todo'[u] = todo[u]
        /\ todo'[t] = <<>> /\ cancelled["lifecycle"] /\ at[t] = "wait"
    BY <1>1, <1>6 DEF WaitCancelled, WaitOver, Types, ThreadsOK, ThreadsTypeOK
  <2>2. OthersStay(t)
    BY <1>1, <2>1 DEF OthersStay
  <2> QED BY <1>2, <1>4, <2>1, <2>2 DEF t, Superseded
<1>7. CASE WaitTimesOut("lifecycle", g)
  <2>1. /\ \A u \in Thread : u # t => at'[u] = at[u] /\ todo'[u] = todo[u]
        /\ todo'[t] = todo[t]
    BY <1>1, <1>7 DEF WaitTimesOut, Types, ThreadsOK, ThreadsTypeOK
  <2>2. OthersStay(t)
    BY <1>1, <2>1 DEF OthersStay
  <2> QED BY <1>2, <1>4, <2>1, <2>2 DEF t
<1>8. CASE ActivateAfterDelay("lifecycle", g)
  <2>1. /\ todo[t] # <<>> /\ Head(todo[t]).do = "activate"
        /\ Continue(t, IF Superseded(g) THEN <<>>
                       ELSE IF state = "STARTING" THEN Activate \o Tail(todo[t])
                       ELSE Tail(todo[t]))
    BY <1>1, <1>8 DEF ActivateAfterDelay
  <2>2. state = "STARTING"
    BY <1>1, <2>1, ActivatesWhileStarting DEF t
  <2>3. CASE Superseded(g)
    BY <1>2, <1>3, <2>1, <2>3 DEF t
  <2>4. CASE ~Superseded(g)
    <3>1. Continue(t, Activate \o Tail(todo[t]))
      BY <2>1, <2>2, <2>4
    <3>2. Activate \o Tail(todo[t]) # <<>>
      BY <1>1, <2>1, ActivatesWhileStarting DEF t
    <3>3. at'[t] = "run"
      BY <1>1, <3>1, <3>2, Moves
    <3> QED BY <1>2, <1>3, <2>1, <2>2, <3>1, <3>3 DEF t
  <2> QED BY <2>3, <2>4
<1>9. CASE CheckBeforeWait("lifecycle", g)
  <2>1. /\ todo[t] # <<>> /\ Head(todo[t]).do = "check"
        /\ \/ Superseded(g) /\ Continue(t, <<>>)
           \/ Continue(t, Tail(todo[t]))
    BY <1>1, <1>9 DEF CheckBeforeWait
  <2> QED BY <1>2, <1>3, <2>1 DEF t
<1>10. CASE AutoStop("lifecycle", g)
  <2>1. /\ todo[t] # <<>> /\ Head(todo[t]).do = "autoStop"
        /\ \/ (Superseded(g) \/ state # "STARTED") /\ Continue(t, <<>>)
           \/ ~Superseded(g) /\ state = "STARTED" /\ Continue(t, AutoStop4)
    BY <1>1, <1>10, StopUnfolds DEF AutoStop
  <2>2. AutoStop4 # <<>>
    BY StopParts DEF Parts
  <2>3. Continue(t, AutoStop4) => at'[t] = "run"
    BY <1>1, <2>2, Moves
  <2> QED BY <1>2, <1>3, <2>1, <2>3 DEF t
<1>11. CASE NoMotionExpires("lifecycle", g) \/ BoundaryReached("lifecycle", g)
  <2>1. todo[t] # <<>> /\ Head(todo[t]).do \in {"expire", "boundary"}
    BY <1>1, <1>11 DEF NoMotionExpires, BoundaryReached
  <2> QED BY <1>1, <2>1, LifecycleHead DEF PlainOp, t
<1> QED BY <1>5, <1>6, <1>7, <1>8, <1>9, <1>10, <1>11 DEF TimerStep

-----------------------------------------------------------------------------
(* The window status without windows.                                       *)

\* In an active session without windows, a status that an earlier session left
\* is still to be brought up to date by the thread that made it active.
UpdateOwed ==
    state = "STARTED" /\ ~hasWindows /\ ~within =>
        \E t \in SessionThread, rest \in ActiveRest : todo[t] = Update(rest)

\* Only an activation makes the state STARTED.
LEMMA StartsByActivation ==
    ASSUME SingleClient, OneClientInv, NEW t \in SessionThread, todo[t] # <<>>,
           Head(todo[t]).do = "change", Head(todo[t]).to = "STARTED"
    PROVE  \E rest \in ActiveRest : todo[t] = Active(rest) /\ Tail(todo[t]) = Update(rest)
<1> USE OpValues DEF Parts
<1>1. SessionProgram(todo[t])
  BY SessionPrograms DEF OneClientInv
<1>2. PICK program : program = todo[t]
  OBVIOUS
<1>3. program \notin {Stop1, Stop2, Stop3, Stop4, Stop5, AutoStop4}
  <2>1. \A p \in {Stop1, Stop2, Stop3, Stop4, Stop5, AutoStop4} :
           Head(p) \in {Change("STOPPED"), Change("STOPPING"), Cancel("window"),
                       Invalidate("noMotion"), Invalidate("lifecycle"), Cancel("noMotion")}
    BY StopParts
  <2>2. \A op \in {Change("STOPPED"), Change("STOPPING"), Cancel("window"),
                    Invalidate("noMotion"), Invalidate("lifecycle"), Cancel("noMotion")} :
           op.do = "change" => op.to # "STARTED"
    OBVIOUS
  <2> QED BY <1>2, <2>1, <2>2
<1>4. program \notin {Close1, Close2, Close3, Close4} /\ program \notin {Limit1, Limit2, Limit3}
  <2>1. \A p \in {Close1, Close2, Close3, Close4} :
           Head(p) \in {Simple("release"), Cancel("window"), Invalidate("noMotion"),
                       Invalidate("lifecycle")}
    BY CloseParts
  <2>2. \A p \in {Limit1, Limit2, Limit3} :
           Head(p) \in {Simple("autoStop"), Simple("wait"), Simple("check")}
    BY LifecycleParts
  <2> QED BY <1>2, <2>1, <2>2
<1>5. ASSUME NEW arm \in DelayOp \cup LimitOp,
             program \in {Then(Change("STARTING"), Arm2(arm)), Arm2(arm), Arm1(arm)}
      PROVE  FALSE
  <2>1. Head(program) \in {Change("STARTING"), Cancel("lifecycle"), arm}
    BY <1>5, ArmOps, ArmParts
  <2>2. Change("STARTING").to = "STARTING" /\ Cancel("lifecycle").do = "cancel"
    OBVIOUS
  <2> QED BY <1>2, <2>1, <2>2, ArmOps
<1>6. PICK rest \in ActiveRest :
         program \in {Then(Change("STARTING"), Active(rest)), Active(rest),
                     Delay1(rest), Delay2(rest)} \cup Activation(rest)
  BY <1>1, <1>2, <1>3, <1>4, <1>5 DEF SessionProgram
<1>7. rest \in Program
  BY RestHeads
<1>8. program # Then(Change("STARTING"), Active(rest))
  BY <1>2, <1>7, ActivationParts
<1>9. program \notin {Delay1(rest), Delay2(rest)}
  BY <1>2, <1>7, LifecycleParts
<1>10. program \notin Activation(rest)
  <2>1. \A p \in Activation(rest) :
           Head(p) \in {Simple("update"), Cancel("window"), Simple("armWindow"),
                       Cancel("noMotion"), Simple("armNoMotion")}
    BY <1>7, ActivationParts DEF Activation
  <2> QED BY <1>2, <2>1
<1>11. program = Active(rest)
  BY <1>6, <1>8, <1>9, <1>10
<1>12. Tail(program) = Update(rest)
  <2>1. Parts(Active(rest), Change("STARTED"), Update(rest))
    BY <1>7, ActivationParts
  <2> QED BY <1>11, <2>1
<1> QED BY <1>2, <1>11, <1>12

\* An operation that brings the window status up to date is carried out by
\* updateActiveWindowLocked.
LEMMA UpdateIsNext ==
    ASSUME SingleClient, Types, OneClientInv, UpdateOwed, NEW t \in Thread,
           todo[t] # <<>>, Head(todo[t]).do = "update", Step(t), ~UpdateActiveWindow(t)
    PROVE  todo'[t] = todo[t] /\ state' = state
<1>1. at[t] = "deliver" => Head(todo[t]).do = "record"
  BY DEF Types, ThreadsOK, DeliveryIsRecorded
<1>2. TakeMutex(t)
  BY <1>1 DEF Step, Runs, ChangeState, CancelTimer, InvalidateTimer, ArmLifecycleTimer,
     ArmNoMotionTimer, ArmWindowScheduler, InjectLocked, EndSessionOfTheDead, Release,
     ReturnToCallback, RecordEvent, OnEvent
<1> QED BY <1>2 DEF TakeMutex, sensorVars

LEMMA UpdateHead ==
    \A rest \in ActiveRest : Update(rest) # <<>> /\ Head(Update(rest)).do = "update"
<1> USE OpValues DEF Parts
<1>1. ActiveRest \subseteq Program
  BY RestHeads
<1> QED BY <1>1, ActivationParts

\* A thread that waits does not have the window status to bring up to date.
LEMMA UpdateIsNoWait ==
    ASSUME NEW rest \in ActiveRest
    PROVE  ~Waiting(Update(rest))
<1>1. Head(Update(rest)).do = "update"
  BY UpdateHead
<1>2. \A r \in LifecycleRest : Head(Delay1(r)).do = "activate"
  BY RestPrograms, LifecycleParts, OpValues DEF Parts
<1>3. Head(Limit1).do = "autoStop"
  BY LifecycleParts, OpValues DEF Parts
<1> QED BY <1>1, <1>2, <1>3 DEF Waiting

LEMMA NextUpdateOwed ==
    ASSUME SingleClient, Types, TimerInv, OneClientInv, SessionWaits, UpdateOwed, [Next]_vars
    PROVE  UpdateOwed'
<1> USE DEF UpdateOwed
<1>0. SessionThread' = SessionThread /\ SessionThread \subseteq Thread
      /\ ActiveRest' = ActiveRest /\ \A rest \in ActiveRest : Update(rest)' = Update(rest)
  BY SessionThreads DEF SessionThread, ActiveRest
<1>1. ASSUME UNCHANGED <<state, hasWindows, within>>,
             \A t \in SessionThread, rest \in ActiveRest :
                 todo[t] = Update(rest) => todo'[t] = todo[t]
      PROVE  UpdateOwed'
  BY <1>0, <1>1
<1>2. ASSUME NEW u \in Thread, UpdateActiveWindow(u) PROVE UpdateOwed'
  <2>1. UNCHANGED <<state, hasWindows>> /\ hasWindows \in BOOLEAN
    BY <1>2 DEF UpdateActiveWindow, Types, SensorTypeOK
  <2>2. state = "STARTED" /\ hasWindows = FALSE => within' = TRUE
    BY <1>2 DEF UpdateActiveWindow
  <2> QED BY <2>1, <2>2
<1>3. ASSUME NEW u \in Thread, ChangeState(u) PROVE UpdateOwed'
  <2>1. todo[u] # <<>> /\ Head(todo[u]).do = "change" /\ state' = Head(todo[u]).to
    BY <1>3 DEF ChangeState, Runs
  <2>2. u \in SessionThread
    <3>1. \A op \in NoMotionOp \cup WindowOp \cup InjectOp : op.do # "change"
      BY OpValues DEF NoMotionOp, WindowOp, InjectOp
    <3> QED BY <2>1, <3>1, OtherHead DEF OneClientInv
  <2>3. todo'[u] = Tail(todo[u])
    BY <1>3, Moves DEF ChangeState, MovesOnly
  <2>4. CASE state' = "STARTED"
    <3>1. \E rest \in ActiveRest : todo[u] = Active(rest) /\ Tail(todo[u]) = Update(rest)
      BY <2>1, <2>2, <2>4, StartsByActivation
    <3> QED BY <1>0, <2>2, <2>3, <3>1
  <2> QED BY <2>4
<1>4. ASSUME NEW u \in Thread, Step(u), ~UpdateActiveWindow(u), ~ChangeState(u)
      PROVE  UpdateOwed'
  <2>1. UNCHANGED <<state, hasWindows, within>>
    BY <1>4, StepsLeaveSettings
  <2>2. ASSUME NEW t \in SessionThread, NEW rest \in ActiveRest, todo[t] = Update(rest)
        PROVE  todo'[t] = todo[t]
    <3>1. todo[t] # <<>> /\ Head(todo[t]).do = "update"
      BY <2>2, UpdateHead
    <3>2. CASE t = u
      BY <1>4, <3>1, <3>2, UpdateIsNext
    <3>3. CASE t # u /\ u \notin SessionThread
      BY <1>4, <3>3, OtherStepsAreAside DEF Aside
    <3>4. CASE t # u /\ u \in SessionThread /\ ~ArmLifecycleTimer(u)
      BY <1>4, <3>4, SessionSteps DEF Aside, Advances, Updates, GoesOn, OthersStay
    <3>5. CASE t # u /\ u \in ClientThreads /\ ArmLifecycleTimer(u)
      <4>1. PICK g \in 1..MaxGen : t = LifecycleThread(g)
        BY <3>5 DEF SessionThread, SingleClient
      <4>2. \/ todo[u] = <<>> \/ todo[u] = Stop5 \/ todo[u] = Stop4
        BY <3>1, <3>5, <4>1, OneLifecycleThread
      <4>3. Head(Stop5).do = "invalidate" /\ Head(Stop4).do = "invalidate"
        BY StopParts, OpValues DEF Parts
      <4> QED BY <3>5, <4>2, <4>3 DEF ArmLifecycleTimer, Runs
    <3>6. ArmLifecycleTimer(u) => u \in ClientThreads
      <4>1. ArmLifecycleTimer(u) => Runs(u, "armLifecycle")
        BY DEF ArmLifecycleTimer
      <4> QED BY <4>1, ArmsFresh DEF OneClientInv
    <3> QED BY <3>2, <3>3, <3>4, <3>5, <3>6
  <2> QED BY <1>1, <2>1, <2>2
<1>5. ASSUME NEW g \in 1..MaxGen, TimerStep("lifecycle", g) PROVE UpdateOwed'
  <2>1. PICK u : u = LifecycleThread(g)
    OBVIOUS
  <2>2. u \in SessionThread /\ u \notin ClientThreads
    BY <2>1, SessionThreads, Roles
  <2>3. /\ OthersStay(u) /\ UNCHANGED <<state, hasWindows, within>>
        /\ \/ Aside
           \/ at[u] = "wait"
           \/ Head(todo[u]).do \in {"wait", "check", "activate", "autoStop"}
    BY <1>5, <2>1, LifecycleTimerSteps
  <2>4. ASSUME NEW rest \in ActiveRest, todo[u] = Update(rest), at[u] = "wait"
        PROVE  FALSE
    BY <2>2, <2>4, UpdateIsNoWait DEF SessionWaits
  <2> QED BY <1>1, <2>2, <2>3, <2>4, UpdateHead DEF OthersStay, Aside
<1>6. ASSUME NEW k \in Kind, k # "lifecycle", NEW g \in 1..MaxGen, TimerStep(k, g)
      PROVE  UpdateOwed'
  BY <1>1, <1>6, OtherTimerStepsAreAside, TimerStepsLeaveSettings DEF Aside, GenerationKind
<1>7. CASE ClientCall
  <2>1. ASSUME NEW t \in ClientThreads, todo[t] = <<>>, NEW program, MovesOnly(t, program),
               UNCHANGED <<state, hasWindows, within>>
        PROVE  UpdateOwed'
    BY <1>0, <1>1, <2>1, UpdateHead DEF MovesOnly
  <2>2. ASSUME NEW t \in Thread, Stop(t) \/ Close(t) PROVE UpdateOwed'
    <3>1. UNCHANGED <<state, hasWindows, within>> /\ MayCall(t)
      BY <2>2 DEF Stop, Close, sensorVars
    <3> QED BY <2>1, <2>2, <3>1, CallMoves, Callers DEF OneClientInv
  <2>3. ASSUME NEW t \in Thread, NEW cfg \in Configs, Start(t, cfg) PROVE UpdateOwed'
    <3>1. UNCHANGED <<state, hasWindows, within>> /\ MayCall(t)
      BY <2>3 DEF Start
    <3> QED BY <2>1, <2>3, <3>1, CallMoves, Callers DEF OneClientInv
  <2>4. ASSUME NEW t \in Thread, Open(t) PROVE UpdateOwed'
    BY <1>1, <2>4 DEF Open, threadVars
  <2>5. ASSUME NEW t \in Thread, SetActiveWindows(t) PROVE UpdateOwed'
    BY <2>5 DEF SetActiveWindows
  <2>6. ASSUME NEW l \in Listeners, RegisterEventListener(l) \/ UnregisterEventListener(l)
        PROVE  UpdateOwed'
    BY <1>1, <2>6 DEF RegisterEventListener, UnregisterEventListener, threadVars
  <2>7. ASSUME NEW t \in InjectThreads, InjectMotionEvent(t) PROVE UpdateOwed'
    <3>1. UNCHANGED <<state, hasWindows, within>> /\ t \in Thread /\ t \notin SessionThread
      BY <2>7, Roles, SessionThreads DEF InjectMotionEvent, sensorVars
    <3>2. \A u \in SessionThread : todo'[u] = todo[u]
      BY <1>0, <2>7, <3>1, CallMoves DEF MovesOnly, OneClientInv
    <3> QED BY <1>1, <3>1, <3>2
  <2> QED BY <1>7, <2>2, <2>3, <2>4, <2>5, <2>6, <2>7 DEF ClientCall
<1>8. CASE ClientDies \/ DeathNotice
  BY <1>8 DEF ClientDies, DeathNotice, SingleClient
<1>9. CASE Rest \/ UNCHANGED vars
  BY <1>1, <1>9 DEF Rest, vars, threadVars, sensorVars
<1> QED BY <1>2, <1>3, <1>4, <1>5, <1>6, <1>7, <1>8, <1>9 DEF Next

\* Of a session without windows whose threads are all at rest: motion is
\* reported, though updateActiveWindowLocked, which alone clears the status
\* that an earlier session with windows left, runs only after the state change
\* and its callback.
THEOREM NoWindowsPermitMotion == SingleClient => (Spec => []NoWindowsPermit)
<1> SUFFICES ASSUME SingleClient PROVE Spec => []NoWindowsPermit
  OBVIOUS
<1>1. Init => SessionWaits /\ UpdateOwed
  BY InitSessionWaits DEF Init, UpdateOwed
<1>2. Types /\ TimerInv /\ OneClientInv /\ SessionWaits /\ UpdateOwed /\ [Next]_vars
         => SessionWaits' /\ UpdateOwed'
  BY NextSessionWaits, NextUpdateOwed
<1>3. OneClientInv /\ SessionWaits /\ UpdateOwed => NoWindowsPermit
  <2> SUFFICES ASSUME OneClientInv, SessionWaits, Settled,
                      NEW t \in SessionThread, NEW rest \in ActiveRest,
                      todo[t] = Update(rest)
               PROVE  FALSE
    BY DEF UpdateOwed, NoWindowsPermit
  <2>1. at[t] \in {"idle", "wait"}
    BY SessionThreads DEF Settled
  <2>2. at[t] # "idle"
    BY UpdateHead, SessionThreads DEF OneClientInv, PlacesOK
  <2> QED BY <2>1, <2>2, UpdateIsNoWait DEF SessionWaits
<1> QED BY <1>1, <1>2, <1>3, TypesInvariant, TimerInvariant, OneClientInvariant, PTL DEF Spec

-----------------------------------------------------------------------------
(* Kinds of timers that a system does not use.                              *)

\* No thread of kind k exists.
TimersAbsent(k) ==
    /\ handle[k] = Nobody
    /\ \A g \in 1..MaxGen : at[<<k, g>>] = "idle"

\* No step brings a thread of kind k to life.
NoBirth(k) ==
    /\ handle[k] = Nobody => handle'[k] = Nobody
    /\ \A g \in 1..MaxGen : at[<<k, g>>] = "idle" => at'[<<k, g>>] = "idle"

\* The inactivity timer is armed in NO_MOTION mode only, the window scheduler
\* with windows only.
Needless(k) ==
    /\ k = "noMotion" => startConfig.mode # "NO_MOTION"
    /\ k = "window" => ~hasWindows

LEMMA BirthlessMoves ==
    ASSUME Types, NEW k \in GenerationKind, NEW t \in Thread,
           at[t] # "idle" \/ t \in PoolThreads, NEW program, MovesOnly(t, program),
           handle'[k] \in {handle[k], Nobody}
    PROVE  NoBirth(k)
BY GenerationKinds DEF NoBirth, MovesOnly

LEMMA StepsAreBirthless ==
    ASSUME SingleClient, Types, OneClientInv, NEW k \in GenerationKind, Needless(k),
           NEW t \in Thread, Step(t)
    PROVE  NoBirth(k)
<1> USE DEF Runs
<1>1. \A program : Continue(t, program) \/ CallOut(t, program) => MovesOnly(t, program)
  BY Moves
<1>2. \A program, pc : Leave(t, pc, program) /\ target' = target => MovesOnly(t, program)
  BY Moves
<1>3. ASSUME NEW program, MovesOnly(t, program), at[t] # "idle", UNCHANGED timerVars
      PROVE  NoBirth(k)
  BY <1>3, BirthlessMoves DEF timerVars
<1>4. CASE \/ ChangeState(t) \/ UpdateActiveWindow(t) \/ EndSessionOfTheDead(t) \/ Release(t)
  BY <1>1, <1>3, <1>4 DEF ChangeState, UpdateActiveWindow, EndSessionOfTheDead, Release
<1>5. CASE InjectLocked(t) \/ ReturnToCallback(t)
  BY <1>1, <1>2, <1>3, <1>5 DEF InjectLocked, ReturnToCallback
<1>6. CASE CancelTimer(t) \/ InvalidateTimer(t)
  <2>1. /\ at[t] = "run" /\ Head(todo[t]).timer \in Kind
        /\ CancelThread(t, Head(todo[t]).timer, Tail(todo[t]))
    BY <1>6, RunsType, OpFields DEF CancelTimer, InvalidateTimer, Types
  <2>2. PICK j \in Kind : j = Head(todo[t]).timer
    BY <2>1
  <2>3. MovesOnly(t, Tail(todo[t])) /\ handle'[j] = Nobody
        /\ \A i \in Kind : i # j => handle'[i] = handle[i]
    BY <2>1, <2>2, CancelMoves
  <2> QED BY <2>1, <2>3, BirthlessMoves DEF GenerationKind
<1>7. CASE ArmLifecycleTimer(t)
  <2>1. t \in ClientThreads /\ Head(todo[t]).timer \in 1..MaxGen /\ at[t] = "run"
    BY <1>7, ArmsFresh DEF ArmLifecycleTimer
  <2>2. PICK g \in 1..MaxGen : g = Head(todo[t]).timer
    BY <2>1
  <2>3. PICK program : SpawnOutcome(t, "lifecycle", g, program, Tail(todo[t]))
    <3>1. t # <<"lifecycle", g>> /\ "lifecycle" \in Kind
      BY <2>1, Roles DEF Kind
    <3> QED BY <1>7, <2>2, <3>1, SpawnMoves DEF ArmLifecycleTimer
  <2>4. \A h \in 1..MaxGen : /\ <<k, h>> # t /\ <<k, h>> # <<"lifecycle", g>>
                             /\ <<k, h>> \in Thread
    BY <2>1, GenerationKinds DEF PoolThreads
  <2> QED BY <2>3, <2>4 DEF SpawnOutcome, NoBirth, GenerationKind
<1>8. CASE ArmNoMotionTimer(t) \/ ArmWindowScheduler(t)
  <2>1. at[t] = "run"
    BY <1>8 DEF ArmNoMotionTimer, ArmWindowScheduler
  <2>2. CASE \E program : Continue(t, program) /\ UNCHANGED timerVars
    BY <1>1, <1>3, <2>1, <2>2
  <2>3. ASSUME NEW j \in GenerationKind, j # k, NEW g, g = gen[j] + 1, g <= MaxGen,
               NEW program, NEW rest, Spawn(t, j, g, "begin", program, rest)
        PROVE  NoBirth(k)
    <3>1. /\ handle' = handle \/ handle' = [handle EXCEPT ![j] = <<j, g>>]
          /\ \/ at' = [at EXCEPT ![t] = "terminated"]
             \/ at' = [at EXCEPT ![t] = IF rest = <<>> THEN "idle" ELSE "run",
                                 ![<<j, g>>] = "begin"]
      BY <2>3 DEF Spawn
    <3>2. \A h \in 1..MaxGen : /\ <<k, h>> \in Thread /\ <<k, h>> # <<j, g>>
                               /\ at[<<k, h>>] = "idle" => <<k, h>> # t
      BY <2>1, <2>3, GenerationKinds
    <3>3. handle'[k] = handle[k]
      BY <2>3, <3>1 DEF Types, TimersTypeOK, GenerationKind
    <3>4. \A h \in 1..MaxGen : at[<<k, h>>] = "idle" => at'[<<k, h>>] = "idle"
      BY <3>1, <3>2 DEF Types, ThreadsOK, ThreadsTypeOK
    <3> QED BY <3>3, <3>4 DEF NoBirth
  <2>4. "noMotion" \in GenerationKind /\ "window" \in GenerationKind
        /\ GenerationKind \subseteq {"noMotion", "window"}
    BY DEF GenerationKind, Kind
  <2>5. gen["noMotion"] \in Nat /\ gen["window"] \in Nat
    BY GenerationKinds, <2>4 DEF Types, TimersTypeOK
  <2>6. CASE ArmNoMotionTimer(t)
    <3>1. \/ Continue(t, Tail(todo[t])) /\ UNCHANGED timerVars
          \/ /\ k # "noMotion" /\ gen["noMotion"] < MaxGen
             /\ Spawn(t, "noMotion", gen["noMotion"] + 1, "begin", NoMotionProgram, Tail(todo[t]))
      BY <2>6 DEF ArmNoMotionTimer, Needless
    <3> QED BY <2>2, <2>3, <2>4, <2>5, <3>1, Bounds
  <2>7. CASE ArmWindowScheduler(t)
    <3>1. \/ Continue(t, Tail(todo[t])) /\ UNCHANGED timerVars
          \/ /\ k # "window" /\ gen["window"] < MaxGen
             /\ Spawn(t, "window", gen["window"] + 1, "begin", WindowProgram, Tail(todo[t]))
      BY <2>7 DEF ArmWindowScheduler, Needless
    <3> QED BY <2>2, <2>3, <2>4, <2>5, <3>1, Bounds
  <2> QED BY <1>8, <2>6, <2>7
<1>9. CASE TakeMutex(t) \/ RecordEvent(t) \/ \E l \in Listeners : OnEvent(t, l)
  BY <1>9, GenerationKinds DEF TakeMutex, RecordEvent, OnEvent, NoBirth, timerVars, Types,
     ThreadsOK, ThreadsTypeOK
<1> QED BY <1>4, <1>5, <1>6, <1>7, <1>8, <1>9 DEF Step

LEMMA NextAreBirthless ==
    ASSUME SingleClient, Types, OneClientInv, NEW k \in GenerationKind, Needless(k),
           [Next]_vars
    PROVE  NoBirth(k)
<1>1. CASE ClientCall
  <2>1. ASSUME NEW t \in PoolThreads, NEW program, MovesOnly(t, program),
               handle' = handle
        PROVE  NoBirth(k)
    BY <2>1, BirthlessMoves DEF Thread
  <2>2. \A t \in ClientThreads \cup InjectThreads : t \in PoolThreads /\ t \in Thread
    BY DEF PoolThreads, Thread
  <2>3. ASSUME NEW t \in Thread, Stop(t) \/ Close(t) PROVE NoBirth(k)
    BY <2>1, <2>2, <2>3, CallMoves DEF OneClientInv, timerVars
  <2>4. ASSUME NEW t \in Thread, NEW cfg \in Configs, Start(t, cfg) PROVE NoBirth(k)
    BY <2>1, <2>2, <2>4, CallMoves DEF OneClientInv
  <2>5. ASSUME NEW t \in InjectThreads, InjectMotionEvent(t) PROVE NoBirth(k)
    BY <2>1, <2>2, <2>5, CallMoves DEF OneClientInv, timerVars
  <2>6. ASSUME NEW t \in Thread, Open(t) \/ SetActiveWindows(t) PROVE NoBirth(k)
    BY <2>6, CallMoves DEF OneClientInv, timerVars, NoBirth
  <2>7. ASSUME NEW l \in Listeners, RegisterEventListener(l) \/ UnregisterEventListener(l)
        PROVE  NoBirth(k)
    BY <2>7, ListenerCalls DEF timerVars, NoBirth
  <2> QED BY <1>1, <2>3, <2>4, <2>5, <2>6, <2>7 DEF ClientCall
<1>2. ASSUME NEW j \in Kind, NEW g \in 1..MaxGen, TimerStep(j, g) PROVE NoBirth(k)
  <2>1. PICK t \in Thread : t = <<j, g>>
    BY TimerThreadsAreThreads
  <2>2. handle' = handle
    BY <1>2, TimerStepsLeaveSettings
  <2>3. CASE WaitCancelled(j, g) \/ WaitTimesOut(j, g)
    BY <2>1, <2>2, <2>3, GenerationKinds DEF WaitCancelled, WaitTimesOut, NoBirth, Types,
       ThreadsOK, ThreadsTypeOK
  <2>4. CASE \E program : Continue(t, program) /\ at[t] = "run"
    BY <2>2, <2>4, Moves, BirthlessMoves
  <2>5. CASE \E program, pc : Leave(t, pc, program) /\ target' = target /\ at[t] = "run"
    BY <2>2, <2>5, Moves, BirthlessMoves
  <2> QED BY <1>2, <2>1, <2>3, <2>4, <2>5 DEF TimerStep, BeginWait, ActivateAfterDelay,
       CheckBeforeWait, AutoStop, NoMotionExpires, BoundaryReached, Runs
<1>3. CASE ClientDies \/ DeathNotice
  BY <1>3 DEF ClientDies, DeathNotice, SingleClient
<1>4. CASE Rest \/ UNCHANGED vars
  BY <1>4 DEF Rest, vars, threadVars, timerVars, NoBirth
<1> QED BY <1>1, <1>2, <1>3, <1>4, StepsAreBirthless DEF Next

\* Without windows there is no window scheduler.
WindowsAbsent == ~hasWindows /\ TimersAbsent("window")

\* In MOTION mode there is no inactivity timer.
InactivityAbsent == startConfig.mode = "MOTION" /\ TimersAbsent("noMotion")

LEMMA NextSettings ==
    ASSUME [Next]_vars, Types
    PROVE  /\ hasWindows' = hasWindows \/ hasWindows' \in WindowSets
           /\ startConfig' = startConfig \/ startConfig' \in Configs
<1>1. ClientCall => /\ hasWindows' = hasWindows \/ hasWindows' \in WindowSets
                    /\ startConfig' = startConfig \/ startConfig' \in Configs
  BY DEF ClientCall, Open, Start, Stop, Close, SetActiveWindows, RegisterEventListener,
     UnregisterEventListener, InjectMotionEvent, sensorVars
<1>2. ClientDies \/ DeathNotice \/ Rest \/ UNCHANGED vars
        => UNCHANGED <<hasWindows, startConfig>>
  BY DEF ClientDies, DeathNotice, BinderDied, Rest, vars, sensorVars
<1> QED BY <1>1, <1>2, StepsLeaveSettings, TimerStepsLeaveSettings DEF Next

LEMMA NextWindowsAbsent ==
    ASSUME SingleClient, NoWindows, Types, OneClientInv, WindowsAbsent, [Next]_vars
    PROVE  WindowsAbsent'
<1>1. "window" \in GenerationKind /\ Needless("window")
  BY DEF GenerationKind, Kind, Needless, WindowsAbsent
<1>2. NoBirth("window")
  BY <1>1, NextAreBirthless
<1>3. ~hasWindows'
  BY NextSettings DEF WindowsAbsent, NoWindows
<1> QED BY <1>2, <1>3 DEF WindowsAbsent, TimersAbsent, NoBirth

LEMMA NextInactivityAbsent ==
    ASSUME SingleClient, MotionOnly, Types, OneClientInv, InactivityAbsent, [Next]_vars
    PROVE  InactivityAbsent'
<1>1. "noMotion" \in GenerationKind /\ Needless("noMotion")
  BY DEF GenerationKind, Kind, Needless, InactivityAbsent
<1>2. NoBirth("noMotion")
  BY <1>1, NextAreBirthless
<1>3. startConfig'.mode = "MOTION"
  BY NextSettings DEF InactivityAbsent, MotionOnly
<1> QED BY <1>2, <1>3 DEF InactivityAbsent, TimersAbsent, NoBirth

\* scheduleActiveWindowLocked starts no thread if no client sets windows.
THEOREM WindowsStayAbsent == SingleClient /\ NoWindows => (Spec => []WindowsAbsent)
<1> SUFFICES ASSUME SingleClient, NoWindows PROVE Spec => []WindowsAbsent
  OBVIOUS
<1>1. Init => WindowsAbsent
  BY TimerThreadsAreThreads DEF Init, WindowsAbsent, TimersAbsent, NoWindows, Kind
<1>2. Types /\ OneClientInv /\ WindowsAbsent /\ [Next]_vars => WindowsAbsent'
  BY NextWindowsAbsent
<1> QED BY <1>1, <1>2, TypesInvariant, OneClientInvariant, PTL DEF Spec

\* startNoMotionTimerLocked starts no thread if every session is in MOTION mode.
THEOREM InactivityStaysAbsent == SingleClient /\ MotionOnly => (Spec => []InactivityAbsent)
<1> SUFFICES ASSUME SingleClient, MotionOnly PROVE Spec => []InactivityAbsent
  OBVIOUS
<1>1. Init => InactivityAbsent
  BY TimerThreadsAreThreads DEF Init, InactivityAbsent, TimersAbsent, Kind
<1>2. Types /\ OneClientInv /\ InactivityAbsent /\ [Next]_vars => InactivityAbsent'
  BY NextInactivityAbsent
<1> QED BY <1>1, <1>2, TypesInvariant, OneClientInvariant, PTL DEF Spec

-----------------------------------------------------------------------------
(* A stopped sensor is quiet.                                               *)

\* Only timer threads wait.
PoolNeverWaits == \A t \in PoolThreads : at[t] # "wait"

LEMMA NextPoolNeverWaits ==
    ASSUME SingleClient, Types, PoolNeverWaits, [Next]_vars
    PROVE  PoolNeverWaits'
<1>1. PoolThreads \subseteq Thread
  BY TimerThreadsAreThreads
<1>2. ASSUME NoNewWait PROVE PoolNeverWaits'
  BY <1>1, <1>2 DEF NoNewWait, PoolNeverWaits
<1>3. ASSUME NEW k \in Kind, NEW g \in 1..MaxGen, BeginWait(k, g) PROVE PoolNeverWaits'
  <2>1. \A t \in PoolThreads : t \in Thread /\ t # <<k, g>>
    BY TimerThreadsAreThreads
  <2> QED BY <1>3, <2>1 DEF BeginWait, Leave, PoolNeverWaits, Types, ThreadsOK, ThreadsTypeOK
<1>4. CASE ClientDies \/ DeathNotice
  BY <1>4 DEF ClientDies, DeathNotice, SingleClient
<1>5. CASE Rest \/ UNCHANGED vars
  BY <1>2, <1>5 DEF Rest, vars, threadVars, NoNewWait
<1> QED BY <1>2, <1>3, <1>4, <1>5, StepsDoNotWait, TimerStepsDoNotWait, CallsDoNotWait
     DEF Next

\* Nothing but the session arms an inactivity timer: nobody injects motion, or
\* no session reports inactivity.
SessionArmsAlone == NoInjection \/ MotionOnly

\* At rest a stopped sensor has no thread left, whichever of stop() and the
\* automatic stop ended the session and whatever the timer threads did while
\* their joins and callbacks had released the mutex.
THEOREM StoppedSensorsAreQuiet ==
    SingleClient /\ NoWindows /\ SessionArmsAlone => (Spec => []StoppedMeansQuiet)
<1> SUFFICES ASSUME SingleClient, NoWindows, SessionArmsAlone
             PROVE  Spec => []StoppedMeansQuiet
  OBVIOUS
<1> DEFINE NoMotionOver == state # "STARTED" => \A g \in 1..MaxGen : at[NoMotionThread(g)] = "idle"
<1>1. Init => SessionWaits /\ PoolNeverWaits
  BY InitSessionWaits, TimerThreadsAreThreads DEF Init, PoolNeverWaits
<1>2. Types /\ OneClientInv /\ SessionWaits /\ PoolNeverWaits /\ [Next]_vars
         => SessionWaits' /\ PoolNeverWaits'
  BY NextSessionWaits, NextPoolNeverWaits
<1>3. Spec => []NoMotionOver
  <2>1. CASE NoInjection
    <3>1. NoMotionInv => NoMotionOver
      BY DEF NoMotionInv, NoMotionIdle
    <3> QED BY <2>1, <3>1, NoMotionInvariant, PTL
  <2>2. CASE MotionOnly
    <3>1. InactivityAbsent => NoMotionOver
      BY DEF InactivityAbsent, TimersAbsent, NoMotionThread
    <3> QED BY <2>2, <3>1, InactivityStaysAbsent, PTL
  <2> QED BY <2>1, <2>2 DEF SessionArmsAlone
<1>4. OneClientInv /\ SessionWaits /\ PoolNeverWaits /\ WindowsAbsent /\ NoMotionOver
         => StoppedMeansQuiet
  <2> SUFFICES ASSUME OneClientInv, SessionWaits, PoolNeverWaits, WindowsAbsent, NoMotionOver,
                      state = "STOPPED", Settled, NEW t \in Thread
               PROVE  at[t] = "idle"
    BY DEF StoppedMeansQuiet
  <2>1. at[t] \in {"idle", "wait"}
    BY DEF Settled
  <2>2. CASE t \in ClientThreads \/ t \in InjectThreads
    BY <2>1, <2>2 DEF PoolNeverWaits, PoolThreads
  <2>3. ASSUME NEW k \in Kind, NEW g \in 1..MaxGen, t = <<k, g>> PROVE at[t] = "idle"
    <3>1. CASE k = "lifecycle"
      <4>1. todo[t] = <<>>
        BY <2>3, <3>1, OneLifecycleThread DEF LifecycleThread
      <4>2. t \in SessionThread
        BY <2>3, <3>1, SessionThreads DEF LifecycleThread
      <4>3. ~Waiting(<<>>)
        BY RestPrograms, LifecycleParts DEF Waiting, Parts
      <4> QED BY <2>1, <4>1, <4>2, <4>3 DEF SessionWaits
    <3>2. CASE k = "noMotion"
      BY <2>3, <3>2 DEF NoMotionThread
    <3>3. CASE k = "window"
      BY <2>3, <3>3 DEF WindowsAbsent, TimersAbsent
    <3> QED BY <3>1, <3>2, <3>3 DEF Kind
  <2> QED BY <2>2, <2>3, Roles
<1> QED BY <1>1, <1>2, <1>3, <1>4, TypesInvariant, OneClientInvariant, WindowsStayAbsent, PTL
     DEF Spec

-----------------------------------------------------------------------------
(* No thread is assigned to a handle that owns one.                         *)

\* Within the session the handle of the inactivity timer is free when the
\* timer is armed: the thread that arms it has just cancelled the last one.
HandleFree ==
    \A t \in SessionThread :
        todo[t] # <<>> /\ Head(todo[t]).do = "armNoMotion" => handle["noMotion"] = Nobody

\* Programs that do not go on with arming the inactivity timer.
NotArming(program) == program # <<>> => Head(program).do # "armNoMotion"

LEMMA SessionProgramsArm ==
    /\ \A p \in {<<>>, Stop1, Stop2, Stop3, Stop4, Stop5, AutoStop4, Close1, Close2, Close3,
                 Close4, Limit1, Limit2, Limit3} : NotArming(p)
    /\ \A arm \in DelayOp \cup LimitOp :
          NotArming(Arm1(arm)) /\ NotArming(Arm2(arm)) /\ NotArming(Then(Change("STARTING"), Arm2(arm)))
    /\ \A rest \in ActiveRest :
          /\ rest \in Program /\ NotArming(rest)
          /\ \A p \in {Active(rest), Update(rest), Window2(rest), Window1(rest), Timer2(rest),
                       Delay1(rest), Delay2(rest), Then(Change("STARTING"), Active(rest))} :
                NotArming(p)
<1> USE OpValues DEF Parts
<1>1. \A p \in {Stop1, Stop2, Stop3, Stop4, Stop5, AutoStop4} :
         Head(p) \in {Change("STOPPED"), Change("STOPPING"), Cancel("window"),
                     Invalidate("noMotion"), Invalidate("lifecycle"), Cancel("noMotion")}
  BY StopParts
<1>2. \A p \in {Close1, Close2, Close3, Close4, Limit1, Limit2, Limit3} :
         Head(p) \in {Simple("release"), Cancel("window"), Invalidate("noMotion"),
                     Invalidate("lifecycle"), Simple("autoStop"), Simple("wait"),
                     Simple("check")}
  BY CloseParts, LifecycleParts
<1>3. \A op \in {Change("STOPPED"), Change("STOPPING"), Cancel("window"),
                 Invalidate("noMotion"), Invalidate("lifecycle"), Cancel("noMotion"),
                 Simple("release"), Simple("autoStop"), Simple("wait"), Simple("check")} :
         op.do # "armNoMotion"
  OBVIOUS
<1>4. \A p \in {<<>>, Stop1, Stop2, Stop3, Stop4, Stop5, AutoStop4, Close1, Close2, Close3,
                Close4, Limit1, Limit2, Limit3} : NotArming(p)
  BY <1>1, <1>2, <1>3 DEF NotArming
<1>5. ASSUME NEW arm \in DelayOp \cup LimitOp
      PROVE  /\ NotArming(Arm1(arm)) /\ NotArming(Arm2(arm))
             /\ NotArming(Then(Change("STARTING"), Arm2(arm)))
  BY ArmOps, ArmParts DEF NotArming
<1>6. ASSUME NEW rest \in ActiveRest PROVE rest \in Program /\ NotArming(rest)
  <2>1. rest \in Program
    BY RestHeads
  <2> QED BY <1>4, <1>5, <2>1 DEF ActiveRest, StartRest, LifecycleRest
<1>7. ASSUME NEW rest \in ActiveRest,
             NEW p \in {Active(rest), Update(rest), Window2(rest), Window1(rest), Timer2(rest),
                        Delay1(rest), Delay2(rest), Then(Change("STARTING"), Active(rest))}
      PROVE  NotArming(p)
  <2>1. Head(p) \in {Change("STARTED"), Change("STARTING"), Simple("update"), Cancel("window"),
                    Simple("armWindow"), Cancel("noMotion"), Simple("activate"), Simple("wait")}
    BY <1>6, <1>7, ActivationParts, LifecycleParts
  <2> QED BY <2>1 DEF NotArming
<1> QED BY <1>4, <1>5, <1>6, <1>7

\* A session thread arms the inactivity timer only after it has cancelled it.
LEMMA ArmsAfterCancel ==
    ASSUME NEW program, SessionProgram(program), program # <<>>,
           ~CancelsNoMotion(Head(program))
    PROVE  /\ NotArming(Tail(program))
           /\ Head(program).do = "update" => NotArming(ScheduleActiveWindow \o Tail(program))
           /\ Head(program).do = "activate" => NotArming(Activate \o Tail(program))
<1>1. CASE program \in {Stop1, Stop2, Stop3, Stop4, Stop5, AutoStop4}
  <2>1. /\ Head(program) \in {Change("STOPPED"), Change("STOPPING"), Cancel("window"),
                              Invalidate("noMotion"), Invalidate("lifecycle"), Cancel("noMotion")}
        /\ Tail(program) \in {<<>>, Stop1, Stop2, Stop3, Stop4}
    BY <1>1, StopParts DEF Parts
  <2>2. Head(program).do \notin {"update", "activate"}
    BY <2>1, OpValues
  <2>3. NotArming(Tail(program))
    BY <2>1, SessionProgramsArm
  <2> QED BY <2>2, <2>3
<1>2. CASE program \in {Close1, Close2, Close3, Close4, Limit1, Limit2, Limit3}
  <2>1. /\ Head(program) \in {Simple("release"), Cancel("window"), Invalidate("noMotion"),
                              Invalidate("lifecycle"), Simple("autoStop"), Simple("wait"),
                              Simple("check")}
        /\ Tail(program) \in {<<>>, Close1, Close2, Close3, Limit1, Limit2}
    BY <1>2, CloseParts, LifecycleParts DEF Parts
  <2>2. Head(program).do \notin {"update", "activate"}
    BY <2>1, OpValues
  <2>3. NotArming(Tail(program))
    BY <2>1, SessionProgramsArm
  <2> QED BY <2>2, <2>3
<1>3. ASSUME NEW arm \in DelayOp \cup LimitOp,
             program \in {Then(Change("STARTING"), Arm2(arm)), Arm2(arm), Arm1(arm)}
      PROVE  NotArming(Tail(program)) /\ Head(program).do \notin {"update", "activate"}
  <2>1. /\ Head(program) \in {Change("STARTING"), Cancel("lifecycle"), arm}
        /\ Tail(program) \in {<<>>, Arm1(arm), Arm2(arm)}
        /\ arm.do = "armLifecycle"
    BY <1>3, ArmOps, ArmParts DEF Parts
  <2>2. NotArming(Tail(program))
    BY <2>1, SessionProgramsArm
  <2>3. Head(program).do \notin {"update", "activate"}
    BY <2>1, OpValues
  <2> QED BY <2>2, <2>3
<1>4. ASSUME NEW rest \in ActiveRest,
             program \in {Then(Change("STARTING"), Active(rest)), Active(rest), Update(rest),
                          Window2(rest), Window1(rest), Timer2(rest), Timer1(rest),
                          Delay1(rest), Delay2(rest)}
      PROVE  /\ NotArming(Tail(program))
             /\ Head(program).do = "update" => NotArming(ScheduleActiveWindow \o Tail(program))
             /\ Head(program).do = "activate" => NotArming(Activate \o Tail(program))
  <2>1. rest \in Program
    BY RestHeads
  <2>2. program # Timer2(rest)
    <3>1. Head(Timer2(rest)) = Cancel("noMotion")
      BY <2>1, ActivationParts DEF Parts
    <3> QED BY <3>1, OpValues DEF CancelsNoMotion
  <2>3. Tail(program) \in {rest, Active(rest), Update(rest), Window1(rest), Timer2(rest),
                          Delay1(rest)}
    BY SMTT(30), <1>4, <2>1, <2>2, ActivationParts, LifecycleParts DEF Parts
  <2>4. NotArming(Tail(program))
    BY <2>3, SessionProgramsArm
  <2>5. CASE program = Update(rest)
    <3>1. Head(program).do = "update" /\ Tail(program) = Timer2(rest)
      BY <2>1, <2>5, ActivationParts, OpValues DEF Parts
    <3>2. ScheduleActiveWindow \o Tail(program) = Window2(rest)
      BY <2>1, <3>1, ActivationUnfolds
    <3>3. NotArming(Window2(rest))
      BY SessionProgramsArm
    <3> QED BY <2>4, <3>1, <3>2, <3>3
  <2>6. CASE program = Delay1(rest)
    <3>1. Head(program).do = "activate" /\ Tail(program) = rest
      BY <2>1, <2>6, LifecycleParts, OpValues DEF Parts
    <3>2. Activate \o Tail(program) = Active(rest)
      BY <2>1, <3>1, ActivationUnfolds
    <3>3. NotArming(Active(rest))
      BY SessionProgramsArm
    <3> QED BY <2>4, <3>1, <3>2, <3>3
  <2>7. CASE program \notin {Update(rest), Delay1(rest)}
    <3>1. Head(program) \in {Change("STARTED"), Change("STARTING"), Cancel("window"),
                            Simple("armWindow"), Simple("armNoMotion"), Simple("wait")}
      BY <1>4, <2>1, <2>2, <2>7, ActivationParts, LifecycleParts DEF Parts
    <3>2. Head(program).do \notin {"update", "activate"}
      BY <3>1, OpValues
    <3> QED BY <2>4, <3>2
  <2> QED BY <2>5, <2>6, <2>7
<1> QED BY <1>1, <1>2, <1>3, <1>4 DEF SessionProgram, Activation

\* The session thread that is at work is the only one that arms a timer.
LEMMA OneArms ==
    ASSUME SingleClient, OneClientInv, NEW t \in SessionThread, NEW u \in SessionThread, t # u,
           todo[t] # <<>>, Head(todo[t]).do # "invalidate"
    PROVE  NotArming(todo[u])
<1> USE OpValues DEF Parts
<1>1. todo[t] # Stop5 /\ todo[t] # Stop4
  BY StopParts
<1>2. CASE t \in ClientThreads
  <2>1. PICK g \in 1..MaxGen : u = LifecycleThread(g)
    BY <1>2 DEF SessionThread, SingleClient
  <2>2. todo[u] = <<>>
    BY <1>1, <1>2, <2>1, OneLifecycleThread
  <2> QED BY <2>2 DEF NotArming
<1>3. ASSUME NEW g \in 1..MaxGen, t = LifecycleThread(g) PROVE todo[u] \in {<<>>, Stop5, Stop4}
  BY <1>3, OneLifecycleThread DEF SessionThread
<1> QED BY <1>2, <1>3, SessionProgramsArm DEF SessionThread

\* Steps leave the handle of the inactivity timer to the thread that arms it.
LEMMA NoMotionHandle ==
    ASSUME Types, NEW t \in Thread, Step(t)
    PROVE  \/ ArmNoMotionTimer(t)
           \/ handle'["noMotion"] = handle["noMotion"]
           \/ handle'["noMotion"] = Nobody
<1>1. "noMotion" \in Kind /\ handle \in [Kind -> TimerThreads \cup {Nobody}]
  BY DEF Kind, Types, TimersTypeOK
<1>2. ASSUME NEW k, NEW program, CancelThread(t, k, program)
      PROVE  handle'["noMotion"] \in {handle["noMotion"], Nobody}
  BY <1>1, <1>2 DEF CancelThread
<1>3. ASSUME NEW k, k # "noMotion", NEW g, NEW program, NEW rest, Spawn(t, k, g, "begin", program, rest)
      PROVE  handle'["noMotion"] = handle["noMotion"]
  BY <1>1, <1>3 DEF Spawn
<1>4. CASE CancelTimer(t) \/ InvalidateTimer(t)
  BY <1>2, <1>4 DEF CancelTimer, InvalidateTimer
<1>5. CASE ArmLifecycleTimer(t) \/ ArmWindowScheduler(t)
  BY <1>3, <1>5 DEF ArmLifecycleTimer, ArmWindowScheduler, timerVars
<1> QED BY <1>4, <1>5 DEF Step, ChangeState, UpdateActiveWindow, InjectLocked,
     EndSessionOfTheDead, Release, ReturnToCallback, TakeMutex, RecordEvent, OnEvent, timerVars

\* A program given to a thread of the session when a call is made.
LEMMA CallsDoNotArm ==
    /\ NotArming(StopProgram) /\ NotArming(ReleaseController)
    /\ \A cfg \in StartConfig, g \in 1..MaxGen : NotArming(StartProgram(cfg, g))
<1>1. NotArming(StopProgram) /\ NotArming(ReleaseController)
  BY StopUnfolds, SessionProgramsArm
<1>2. ASSUME NEW cfg \in StartConfig, NEW g \in 1..MaxGen PROVE NotArming(StartProgram(cfg, g))
  BY StartUnfolds, SessionProgramsArm DEF ActiveRest
<1> QED BY <1>1, <1>2

LEMMA StepHandleFree ==
    ASSUME SingleClient, NoInjection, Types, TimerInv, OneClientInv, HandleFree,
           NEW t \in Thread, Step(t)
    PROVE  HandleFree'
<1> USE DEF Runs
<1>0. SessionThread' = SessionThread /\ SessionThread \subseteq Thread
  BY SessionThreads DEF SessionThread
<1>1. \/ ArmNoMotionTimer(t)
      \/ handle'["noMotion"] = handle["noMotion"]
      \/ handle'["noMotion"] = Nobody
  BY NoMotionHandle
<1>2. ASSUME ~ArmNoMotionTimer(t), \A u \in SessionThread : todo'[u] = todo[u] \/ NotArming(todo'[u])
      PROVE  HandleFree'
  BY <1>0, <1>1, <1>2 DEF HandleFree, NotArming
<1>3. CASE t \notin SessionThread
  <2>1. Aside
    BY <1>3, OtherStepsAreAside
  <2>2. ~ArmNoMotionTimer(t)
    BY <1>3, OtherHeads DEF ArmNoMotionTimer, OneClientInv
  <2> QED BY <1>2, <2>1, <2>2 DEF Aside
<1>4. CASE t \in SessionThread /\ (CancelTimer(t) \/ InvalidateTimer(t))
  <2>1. /\ todo[t] # <<>> /\ at[t] = "run" /\ Head(todo[t]).do \in {"cancel", "invalidate"}
        /\ CancelThread(t, Head(todo[t]).timer, Tail(todo[t])) /\ ~ArmNoMotionTimer(t)
    BY <1>4 DEF CancelTimer, InvalidateTimer, ArmNoMotionTimer
  <2>2. Head(todo[t]).timer \in Kind
    BY <2>1, RunsType, OpFields DEF Types
  <2>3. PICK k \in Kind : k = Head(todo[t]).timer
    BY <2>2
  <2>4. MovesOnly(t, Tail(todo[t])) /\ handle'[k] = Nobody
    BY <2>1, <2>3, CancelMoves
  <2>5. CASE CancelsNoMotion(Head(todo[t]))
    BY <2>3, <2>4, <2>5 DEF CancelsNoMotion, HandleFree
  <2>6. CASE ~CancelsNoMotion(Head(todo[t]))
    <3>1. NotArming(Tail(todo[t]))
      BY <1>4, <2>1, <2>6, SessionPrograms, ArmsAfterCancel DEF OneClientInv
    <3> QED BY <1>0, <1>2, <2>1, <2>4, <3>1 DEF MovesOnly
  <2> QED BY <2>5, <2>6
<1>5. CASE t \in SessionThread /\ ArmNoMotionTimer(t)
  <2>1. /\ todo[t] # <<>> /\ Head(todo[t]).do = "armNoMotion" /\ at[t] = "run"
        /\ \/ Continue(t, Tail(todo[t])) /\ UNCHANGED timerVars
           \/ /\ gen["noMotion"] < MaxGen
              /\ Spawn(t, "noMotion", gen["noMotion"] + 1, "begin", NoMotionProgram, Tail(todo[t]))
    BY <1>5 DEF ArmNoMotionTimer
  <2>2. ~CancelsNoMotion(Head(todo[t])) /\ NotArming(Tail(todo[t]))
    <3>1. ~CancelsNoMotion(Head(todo[t]))
      BY <2>1 DEF CancelsNoMotion
    <3> QED BY <1>5, <2>1, <3>1, SessionPrograms, ArmsAfterCancel DEF OneClientInv
  <2>3. handle["noMotion"] = Nobody
    BY <1>5, <2>1 DEF HandleFree
  <2>4. \A u \in SessionThread : u # t => NotArming(todo[u])
    BY <1>5, <2>1, OneArms
  <2>5. ASSUME \A u \in SessionThread : todo'[u] = IF u = t THEN Tail(todo[t]) ELSE todo[u]
        PROVE  HandleFree'
    BY <1>0, <2>2, <2>4, <2>5 DEF HandleFree, NotArming
  <2>6. CASE Continue(t, Tail(todo[t]))
    <3>1. MovesOnly(t, Tail(todo[t]))
      BY <2>6, Moves
    <3> QED BY <1>0, <2>5, <3>1 DEF MovesOnly
  <2>7. ASSUME gen["noMotion"] < MaxGen,
               Spawn(t, "noMotion", gen["noMotion"] + 1, "begin", NoMotionProgram, Tail(todo[t]))
        PROVE  HandleFree'
    <3>1. gen["noMotion"] + 1 \in 1..MaxGen
      BY <2>7, NoMotionThreads, Bounds DEF Types, TimersTypeOK
    <3>2. PICK g \in 1..MaxGen : g = gen["noMotion"] + 1
      BY <3>1
    <3>3. t # <<"noMotion", g>> /\ \A u \in SessionThread : u # <<"noMotion", g>>
      BY <1>5, NoMotionThreads DEF NoMotionThread
    <3>4. SpawnOutcome(t, "noMotion", g, NoMotionProgram, Tail(todo[t]))
      BY <2>7, <3>2, <3>3, NoMotionThreads, SpawnMoves
    <3> QED BY <1>0, <2>3, <2>5, <3>3, <3>4 DEF SpawnOutcome
  <2> QED BY <2>1, <2>6, <2>7
<1>6. CASE /\ t \in SessionThread /\ ~ArmNoMotionTimer(t)
           /\ ~CancelTimer(t) /\ ~InvalidateTimer(t) /\ ~UpdateActiveWindow(t)
           /\ TakeMutex(t) \/ RecordEvent(t) \/ \E l \in Listeners : OnEvent(t, l)
  <2>1. \A u \in Thread : todo'[u] = todo[u] \/ todo'[u] = <<>>
    BY <1>6 DEF TakeMutex, RecordEvent, OnEvent, Types, ThreadsOK, ThreadsTypeOK
  <2> QED BY <1>0, <1>2, <1>6, <2>1 DEF NotArming
<1>7. CASE /\ t \in SessionThread /\ ~ArmNoMotionTimer(t)
           /\ \/ ArmLifecycleTimer(t) \/ ArmWindowScheduler(t) \/ UpdateActiveWindow(t)
              \/ ChangeState(t) \/ Release(t)
  <2>1. /\ todo[t] # <<>>
        /\ Head(todo[t]).do \in {"armLifecycle", "armWindow", "update", "change", "release"}
    BY <1>7 DEF ArmLifecycleTimer, ArmWindowScheduler, UpdateActiveWindow, ChangeState, Release
  <2>2. ~CancelsNoMotion(Head(todo[t]))
    BY <2>1 DEF CancelsNoMotion
  <2>3. /\ NotArming(Tail(todo[t]))
        /\ Head(todo[t]).do = "update" => NotArming(ScheduleActiveWindow \o Tail(todo[t]))
    BY <1>7, <2>1, <2>2, SessionPrograms, ArmsAfterCancel DEF OneClientInv
  <2>4. CASE ChangeState(t)
    <3>1. MovesOnly(t, Tail(todo[t]))
      BY <2>4, Moves DEF ChangeState
    <3> QED BY <1>0, <1>2, <1>7, <2>3, <3>1 DEF MovesOnly
  <2>5. CASE ArmLifecycleTimer(t)
    <3>1. t \in ClientThreads /\ Head(todo[t]).timer \in 1..MaxGen
      BY <2>5, ArmsFresh DEF ArmLifecycleTimer
    <3>2. PICK g \in 1..MaxGen : g = Head(todo[t]).timer
      BY <3>1
    <3>3. t # <<"lifecycle", g>> /\ "lifecycle" \in Kind
      BY <3>1, Roles DEF Kind
    <3>4. PICK program : program = LifecycleProgram(Head(todo[t]).delayed, Head(todo[t]).stops)
      OBVIOUS
    <3>5. SpawnOutcome(t, "lifecycle", g, program, Tail(todo[t]))
      BY <2>5, <3>2, <3>3, <3>4, SpawnMoves DEF ArmLifecycleTimer
    <3>6. NotArming(program)
      <4>1. Head(todo[t]).delayed \in BOOLEAN /\ Head(todo[t]).stops \in BOOLEAN
        BY <2>5, RunsType, OpFields DEF ArmLifecycleTimer, Types
      <4>2. CASE Head(todo[t]).delayed
        <5>1. \E rest \in LifecycleRest : program = Delay2(rest)
          BY <3>4, <4>1, <4>2, LifecycleUnfolds
        <5> QED BY <5>1, SessionProgramsArm DEF ActiveRest
      <4>3. CASE ~Head(todo[t]).delayed /\ Head(todo[t]).stops
        BY <3>4, <4>1, <4>3, LifecycleUnfolds, SessionProgramsArm
      <4>4. ~(~Head(todo[t]).delayed /\ ~Head(todo[t]).stops)
        <5>1. Runs(t, "armLifecycle")
          BY <2>5 DEF ArmLifecycleTimer
        <5>2. \E arm \in DelayOp \cup LimitOp : todo[t] = Arm1(arm)
          BY <3>1, <5>1, ArmPhase DEF OneClientInv, SessionInv
        <5>3. Head(todo[t]) \in DelayOp \cup LimitOp
          BY <5>2, ArmOps, ArmParts DEF Parts
        <5> QED BY <5>3 DEF DelayOp, LimitOp
      <4> QED BY <4>2, <4>3, <4>4
    <3> QED BY <1>0, <1>2, <1>7, <2>3, <3>5, <3>6 DEF SpawnOutcome
  <2>6. CASE ~ArmLifecycleTimer(t) /\ ~ChangeState(t)
    <3>1. \/ Aside
          \/ GoesOn(t, Tail(todo[t]))
          \/ Head(todo[t]).do = "update" /\ GoesOn(t, ScheduleActiveWindow \o Tail(todo[t]))
      BY <1>7, <2>6, SessionSteps DEF Advances, Updates
    <3> QED BY <1>2, <1>7, <2>3, <3>1 DEF Aside, GoesOn, OthersStay
  <2> QED BY <2>4, <2>5, <2>6
<1>8. CASE t \in SessionThread /\ (InjectLocked(t) \/ EndSessionOfTheDead(t) \/ ReturnToCallback(t))
  BY <1>8, SessionHeads DEF InjectLocked, EndSessionOfTheDead, ReturnToCallback, OneClientInv
<1> QED BY <1>3, <1>4, <1>5, <1>6, <1>7, <1>8 DEF Step

LEMMA NextHandleFree ==
    ASSUME SingleClient, NoInjection, Types, TimerInv, OneClientInv, HandleFree, [Next]_vars
    PROVE  HandleFree'
<1>0. SessionThread' = SessionThread /\ SessionThread \subseteq Thread
  BY SessionThreads DEF SessionThread
<1>1. ASSUME handle' = handle,
             \A u \in SessionThread : todo'[u] = todo[u] \/ NotArming(todo'[u])
      PROVE  HandleFree'
  BY <1>0, <1>1 DEF HandleFree, NotArming
<1>2. ASSUME NEW g \in 1..MaxGen, TimerStep("lifecycle", g) PROVE HandleFree'
  <2>1. PICK t : t = LifecycleThread(g)
    OBVIOUS
  <2>2. t \in SessionThread /\ handle' = handle
    BY <1>2, <2>1, SessionThreads, TimerStepsLeaveSettings
  <2>3. /\ OthersStay(t)
        /\ \/ todo'[t] \in {todo[t], <<>>, AutoStop4}
           \/ /\ todo[t] # <<>> /\ Head(todo[t]).do \in {"wait", "check"}
              /\ todo'[t] = Tail(todo[t])
           \/ /\ todo[t] # <<>> /\ Head(todo[t]).do = "activate"
              /\ todo'[t] = Activate \o Tail(todo[t])
    BY <1>2, <2>1, <2>2, LifecycleTimerSteps DEF Aside
  <2>4. todo'[t] = todo[t] \/ NotArming(todo'[t])
    <3>1. \A op : op.do \in {"wait", "check", "activate"} => ~CancelsNoMotion(op)
      BY DEF CancelsNoMotion
    <3>2. SessionProgram(todo[t])
      BY <2>2, SessionPrograms DEF OneClientInv
    <3>3. NotArming(<<>>) /\ NotArming(AutoStop4)
      BY SessionProgramsArm
    <3>4. ASSUME todo[t] # <<>>, Head(todo[t]).do \in {"wait", "check", "activate"}
          PROVE  /\ NotArming(Tail(todo[t]))
                 /\ Head(todo[t]).do = "activate" => NotArming(Activate \o Tail(todo[t]))
      <4>1. ~CancelsNoMotion(Head(todo[t]))
        BY <3>1, <3>4
      <4> QED BY <3>2, <3>4, <4>1, ArmsAfterCancel
    <3> QED BY <2>3, <3>3, <3>4
  <2> QED BY <1>1, <2>2, <2>3, <2>4 DEF OthersStay
<1>3. ASSUME NEW k \in Kind, k # "lifecycle", NEW g \in 1..MaxGen, TimerStep(k, g)
      PROVE  HandleFree'
  BY <1>1, <1>3, OtherTimerStepsAreAside, TimerStepsLeaveSettings DEF Aside, GenerationKind
<1>4. CASE ClientCall
  <2>1. ASSUME NEW t \in Thread, NEW program, MovesOnly(t, program), NotArming(program),
               handle' = handle
        PROVE  HandleFree'
    BY <1>0, <1>1, <2>1 DEF MovesOnly
  <2>2. ASSUME NEW t \in Thread, Stop(t) \/ Close(t) PROVE HandleFree'
    BY <2>1, <2>2, CallMoves, CallsDoNotArm DEF OneClientInv, timerVars
  <2>3. ASSUME NEW t \in Thread, NEW cfg \in Configs, Start(t, cfg) PROVE HandleFree'
    <3>1. cfg \in StartConfig /\ gen["lifecycle"] + 1 \in 1..MaxGen
      <4>1. gen["lifecycle"] \in 0..MaxGen /\ gen["lifecycle"] < MaxGen
        BY <2>3 DEF Start, Types, TimersTypeOK, Kind
      <4> QED BY <4>1, Bounds, ConfigAssumption
    <3>2. PICK g \in 1..MaxGen : g = gen["lifecycle"] + 1
      BY <3>1
    <3>3. NotArming(StartProgram(cfg, g))
      BY <3>1, CallsDoNotArm
    <3>4. MovesOnly(t, StartProgram(cfg, g)) /\ handle' = handle
      BY <2>3, <3>2, CallMoves DEF OneClientInv
    <3> QED BY <2>1, <3>3, <3>4
  <2>4. ASSUME NEW t \in Thread, Open(t) \/ SetActiveWindows(t) PROVE HandleFree'
    BY <1>1, <2>4, CallMoves DEF OneClientInv, timerVars
  <2>5. ASSUME NEW l \in Listeners, RegisterEventListener(l) \/ UnregisterEventListener(l)
        PROVE  HandleFree'
    BY <1>1, <2>5, ListenerCalls DEF timerVars
  <2> QED BY <1>4, <2>2, <2>3, <2>4, <2>5 DEF ClientCall, NoInjection
<1>5. CASE ClientDies \/ DeathNotice
  BY <1>5 DEF ClientDies, DeathNotice, SingleClient
<1>6. CASE Rest \/ UNCHANGED vars
  BY <1>1, <1>6 DEF Rest, vars, threadVars, timerVars
<1> QED BY <1>2, <1>3, <1>4, <1>5, <1>6, StepHandleFree DEF Next

\* No step of a thread ends the process.
LEMMA NoNewEnd ==
    ASSUME SingleClient, NoWindows, Types, TimerInv, OneClientInv, WindowsAbsent, NeverTerminates,
           NEW t \in Thread, Step(t),
           Runs(t, "armNoMotion") => \/ handle["noMotion"] = Nobody
                                     \/ startConfig.mode = "MOTION"
    PROVE  NeverTerminates'
<1> USE DEF NeverTerminates, Terminated
<1>0. at \in [Thread -> Place]
  BY DEF Types, ThreadsOK, ThreadsTypeOK
<1>1. ASSUME NEW program, Continue(t, program) PROVE NeverTerminates'
  BY <1>0, <1>1 DEF Continue
<1>2. ASSUME NEW program, NEW pc, pc # "terminated", Leave(t, pc, program) PROVE NeverTerminates'
  BY <1>0, <1>2 DEF Leave
<1>3. ASSUME NEW program, CallOut(t, program) PROVE NeverTerminates'
  BY <1>1, <1>2, <1>3 DEF CallOut
<1>4. ASSUME NEW k, NEW program, CancelThread(t, k, program) PROVE NeverTerminates'
  BY <1>1, <1>2, <1>4 DEF CancelThread
<1>5. ASSUME NEW k, handle[k] = Nobody, NEW g, NEW program, NEW rest,
             Spawn(t, k, g, "begin", program, rest)
      PROVE  NeverTerminates'
  BY <1>0, <1>5 DEF Spawn
<1>6. CASE ChangeState(t) \/ UpdateActiveWindow(t) \/ EndSessionOfTheDead(t) \/ Release(t)
  BY <1>1, <1>3, <1>6 DEF ChangeState, UpdateActiveWindow, EndSessionOfTheDead, Release
<1>7. CASE CancelTimer(t) \/ InvalidateTimer(t)
  BY <1>4, <1>7 DEF CancelTimer, InvalidateTimer
<1>8. CASE ArmLifecycleTimer(t)
  <2>1. Runs(t, "armLifecycle")
    BY <1>8 DEF ArmLifecycleTimer
  <2>2. handle["lifecycle"] = Nobody
    BY <2>1, ArmsFresh, ArmPhase
  <2> QED BY <1>5, <1>8, <2>2 DEF ArmLifecycleTimer
<1>9. CASE ArmNoMotionTimer(t)
  BY <1>1, <1>5, <1>9 DEF ArmNoMotionTimer
<1>10. CASE ArmWindowScheduler(t)
  BY <1>1, <1>5, <1>10 DEF ArmWindowScheduler, WindowsAbsent
<1>11. CASE ReturnToCallback(t) \/ InjectLocked(t)
  BY <1>1, <1>2, <1>11 DEF ReturnToCallback, InjectLocked
<1>12. CASE TakeMutex(t) \/ RecordEvent(t) \/ \E l \in Listeners : OnEvent(t, l)
  BY <1>0, <1>12 DEF TakeMutex, RecordEvent, OnEvent
<1> QED BY <1>6, <1>7, <1>8, <1>9, <1>10, <1>11, <1>12 DEF Step

LEMMA TimersDoNotEnd ==
    ASSUME Types, NeverTerminates, NEW k \in Kind, NEW g \in 1..MaxGen, TimerStep(k, g)
    PROVE  NeverTerminates'
<1> USE DEF NeverTerminates, Terminated
<1> DEFINE t == <<k, g>>
<1>0. at \in [Thread -> Place] /\ t \in Thread
  BY TimerThreadsAreThreads DEF Types, ThreadsOK, ThreadsTypeOK
<1> HIDE DEF t
<1>1. ASSUME NEW program, Continue(t, program) PROVE NeverTerminates'
  BY <1>0, <1>1 DEF Continue
<1>2. ASSUME NEW program, NEW pc, pc # "terminated", Leave(t, pc, program) PROVE NeverTerminates'
  BY <1>0, <1>2 DEF Leave
<1>3. CASE WaitCancelled(k, g) \/ WaitTimesOut(k, g)
  <2>1. \E pc \in {"idle", "run"} : at' = [at EXCEPT ![t] = pc]
    BY <1>3 DEF WaitCancelled, WaitTimesOut, t
  <2> QED BY <1>0, <2>1
<1>4. CASE BeginWait(k, g)
  BY <1>2, <1>4 DEF BeginWait, t
<1>5. CASE ActivateAfterDelay(k, g) \/ CheckBeforeWait(k, g) \/ AutoStop(k, g) \/ BoundaryReached(k, g)
  BY <1>1, <1>5 DEF ActivateAfterDelay, CheckBeforeWait, AutoStop, BoundaryReached, t
<1>6. CASE NoMotionExpires(k, g)
  BY <1>1, <1>2, <1>6 DEF NoMotionExpires, t
<1> QED BY <1>3, <1>4, <1>5, <1>6 DEF TimerStep

LEMMA CallsDoNotEnd ==
    ASSUME SingleClient, Types, OneClientInv, NeverTerminates, ClientCall
    PROVE  NeverTerminates'
<1> USE DEF NeverTerminates, Terminated
<1>1. ASSUME NEW t \in Thread, NEW program, MovesOnly(t, program), at'[t] \in {"run", "begin"}
      PROVE  NeverTerminates'
  BY <1>1 DEF MovesOnly
<1>2. ASSUME NEW t \in Thread, Stop(t) \/ Close(t) PROVE NeverTerminates'
  BY <1>1, <1>2, CallMoves DEF OneClientInv
<1>3. ASSUME NEW t \in Thread, NEW cfg \in Configs, Start(t, cfg) PROVE NeverTerminates'
  BY <1>1, <1>3, CallMoves DEF OneClientInv
<1>4. ASSUME NEW t \in InjectThreads, InjectMotionEvent(t) PROVE NeverTerminates'
  <2>1. t \in Thread
    BY Roles
  <2> QED BY <1>1, <1>4, <2>1, CallMoves DEF OneClientInv
<1>5. ASSUME NEW t \in Thread, Open(t) \/ SetActiveWindows(t) PROVE NeverTerminates'
  BY <1>5, CallMoves DEF OneClientInv
<1>6. ASSUME NEW l \in Listeners, RegisterEventListener(l) \/ UnregisterEventListener(l)
      PROVE  NeverTerminates'
  BY <1>6, ListenerCalls
<1> QED BY <1>2, <1>3, <1>4, <1>5, <1>6 DEF ClientCall

\* startLifecycleTimerLocked and startNoMotionTimerLocked assign a thread to a
\* std::thread that owns none, although each of them has released the mutex in
\* the join of its cancel: no other thread has armed the timer meanwhile, and
\* the process is not terminated.
THEOREM HandlesAreFreeWhenArmed ==
    SingleClient /\ NoWindows /\ SessionArmsAlone => (Spec => []NeverTerminates)
<1> SUFFICES ASSUME SingleClient, NoWindows, SessionArmsAlone
             PROVE  Spec => []NeverTerminates
  OBVIOUS
<1> DEFINE Arms == \A t \in Thread :
                       Runs(t, "armNoMotion") => \/ handle["noMotion"] = Nobody
                                                 \/ startConfig.mode = "MOTION"
<1>1. Spec => []Arms
  <2>1. CASE NoInjection
    <3>1. Init => HandleFree
      BY SessionThreads DEF Init, HandleFree
    <3>2. Types /\ TimerInv /\ OneClientInv /\ HandleFree /\ [Next]_vars => HandleFree'
      BY <2>1, NextHandleFree
    <3>3. OneClientInv /\ HandleFree => Arms
      BY <2>1, OtherHeads DEF Runs, HandleFree, OneClientInv
    <3> QED BY <3>1, <3>2, <3>3, TypesInvariant, TimerInvariant, OneClientInvariant, PTL DEF Spec
  <2>2. CASE MotionOnly
    <3>1. InactivityAbsent => Arms
      BY DEF InactivityAbsent
    <3> QED BY <2>2, <3>1, InactivityStaysAbsent, PTL
  <2> QED BY <2>1, <2>2 DEF SessionArmsAlone
<1>2. Init => NeverTerminates
  BY DEF Init, NeverTerminates, Terminated
<1>3. Types /\ TimerInv /\ OneClientInv /\ WindowsAbsent /\ Arms /\ NeverTerminates /\ [Next]_vars
         => NeverTerminates'
  <2> SUFFICES ASSUME Types, TimerInv, OneClientInv, WindowsAbsent, Arms, NeverTerminates,
                      [Next]_vars
               PROVE  NeverTerminates'
    OBVIOUS
  <2>1. CASE ClientDies \/ DeathNotice
    BY <2>1 DEF ClientDies, DeathNotice, SingleClient
  <2>2. CASE Rest \/ UNCHANGED vars
    BY <2>2 DEF Rest, vars, threadVars, NeverTerminates, Terminated
  <2> QED BY <2>1, <2>2, NoNewEnd, TimersDoNotEnd, CallsDoNotEnd DEF Next
<1> QED BY <1>1, <1>2, <1>3, TypesInvariant, TimerInvariant, OneClientInvariant,
     WindowsStayAbsent, PTL DEF Spec

-----------------------------------------------------------------------------
(* Stops in order: the automatic stop and stop() do not meet.               *)

\* What is left of an operation that ends the session, the change to STOPPING
\* still to come.
Ends(program) == program \in {Stop5, Stop4, Stop3, Stop2, AutoStop4}

\* At most one thread ends the session, and the session is still STARTED.  A
\* thread that ends it keeps the mutex, except while stop() joins the
\* lifecycle thread.
StopsInOrder ==
    /\ \A t \in SessionThread :
          /\ Ends(todo[t]) => state = "STARTED"
          /\ Ends(todo[t]) /\ (t \in ClientThreads => todo[t] = Stop5) => at[t] = "run"
    /\ \A t \in SessionThread, u \in SessionThread : Ends(todo[t]) /\ Ends(todo[u]) => t = u

LEMMA NotEnding ==
    /\ \A p \in {<<>>, Stop1, Close1, Close2, Close3, Close4, Limit1, Limit2, Limit3} : ~Ends(p)
    /\ \A arm \in DelayOp \cup LimitOp :
          ~Ends(Arm1(arm)) /\ ~Ends(Arm2(arm)) /\ ~Ends(Then(Change("STARTING"), Arm2(arm)))
    /\ \A rest \in ActiveRest :
          /\ ~Ends(rest)
          /\ \A p \in {Active(rest), Update(rest), Window2(rest), Window1(rest), Timer2(rest),
                       Timer1(rest), Delay1(rest), Delay2(rest),
                       Then(Change("STARTING"), Active(rest))} : ~Ends(p)
<1>1. ASSUME NEW p PROVE Ends(p) <=> Winding(p) \/ p \in {Stop5, Stop4, AutoStop4}
  BY DEF Ends, Winding
<1>2. /\ Head(Stop5) = Invalidate("lifecycle") /\ Stop5 # <<>> /\ Tail(Stop5) = Stop4
      /\ Head(Stop4) = Invalidate("noMotion") /\ Stop4 # <<>> /\ Tail(Stop4) = Stop3
      /\ Head(AutoStop4) = Cancel("noMotion") /\ AutoStop4 # <<>> /\ Tail(AutoStop4) = Stop3
      /\ Head(Stop3) = Cancel("window")
  BY StopParts DEF Parts
<1>3. ASSUME NEW p, Head(p).do \notin {"invalidate", "cancel"}
      PROVE  p \notin {Stop5, Stop4, AutoStop4}
  BY <1>2, <1>3, OpValues
<1>4. Head(Stop1).do = "change"
  BY StopParts, OpValues DEF Parts
<1>5. /\ Head(Close1).do = "release"
      /\ Head(Close2).do = "cancel" /\ Head(Close2).timer = "window"
      /\ Tail(Close4) = Close3 /\ Tail(Close3) = Close2
      /\ Head(Close3).do = "invalidate" /\ Head(Close4).do = "invalidate"
      /\ Head(Close3).timer = "noMotion" /\ Head(Close4).timer = "lifecycle"
  BY CloseParts, OpValues DEF Parts
<1>6. Head(Limit1).do = "autoStop" /\ Head(Limit2).do = "wait" /\ Head(Limit3).do = "check"
  BY LifecycleParts, OpValues DEF Parts
<1>7. \A p \in {Stop1, Close1, Limit1, Limit2, Limit3} : p \notin {Stop5, Stop4, AutoStop4}
  BY <1>3, <1>4, <1>5, <1>6
<1>8. Close2 \notin {Stop5, Stop4, AutoStop4}
  BY <1>2, <1>5, OpValues
<1>9. Close2 # Stop3
  BY NotWinding DEF Winding
<1>10. /\ Head(Stop5).do = "invalidate" /\ Head(Stop5).timer = "lifecycle"
       /\ Head(Stop4).do = "invalidate" /\ Head(Stop4).timer = "noMotion"
       /\ Head(AutoStop4).do = "cancel"
  BY <1>2, OpValues
<1>11. Close3 \notin {Stop5, Stop4, AutoStop4}
  BY <1>2, <1>5, <1>9, <1>10
<1>12. Close4 \notin {Stop5, Stop4, AutoStop4}
  BY <1>2, <1>5, <1>11, <1>10
<1>13. \A p \in {<<>>, Stop1, Close1, Close2, Close3, Close4, Limit1, Limit2, Limit3} : ~Ends(p)
  BY <1>1, <1>2, <1>7, <1>8, <1>11, <1>12, NotWinding
<1>14. ASSUME NEW arm \in DelayOp \cup LimitOp
       PROVE  ~Ends(Arm1(arm)) /\ ~Ends(Arm2(arm)) /\ ~Ends(Then(Change("STARTING"), Arm2(arm)))
  <2>1. /\ Head(Arm1(arm)).do = "armLifecycle"
        /\ Head(Arm2(arm)) = Cancel("lifecycle")
        /\ Head(Then(Change("STARTING"), Arm2(arm))).do = "change"
    BY ArmOps, ArmParts, OpValues DEF Parts
  <2>2. Cancel("lifecycle").do = "cancel" /\ Cancel("lifecycle").timer = "lifecycle"
    BY OpValues
  <2>3. Arm2(arm) \notin {Stop5, Stop4, AutoStop4}
    BY <1>2, <2>1, <2>2, OpValues
  <2> QED BY <1>1, <1>3, <2>1, <2>3, NotWinding
<1>15. ASSUME NEW rest \in ActiveRest PROVE ~Ends(rest)
  BY <1>13, <1>14 DEF ActiveRest, StartRest, LifecycleRest
<1>16. ASSUME NEW rest \in ActiveRest,
              NEW p \in {Active(rest), Update(rest), Window2(rest), Window1(rest), Timer2(rest),
                         Timer1(rest), Delay1(rest), Delay2(rest),
                         Then(Change("STARTING"), Active(rest))}
       PROVE  ~Ends(p)
  <2>1. rest \in Program
    BY RestHeads
  <2>2. /\ Head(Window2(rest)) = Cancel("window") /\ Head(Timer2(rest)) = Cancel("noMotion")
        /\ Tail(Timer2(rest)) = Timer1(rest)
        /\ \A q \in {Active(rest), Update(rest), Window1(rest), Timer1(rest), Delay1(rest),
                     Delay2(rest), Then(Change("STARTING"), Active(rest))} :
              Head(q).do \notin {"invalidate", "cancel"}
    BY SMTT(30), <2>1, ActivationParts, LifecycleParts, OpValues DEF Parts
  <2>3. Window2(rest) \notin {Stop5, Stop4, AutoStop4}
    BY <1>2, <2>2, OpValues
  <2>4. Timer2(rest) \notin {Stop5, Stop4, AutoStop4}
    <3>1. Timer1(rest) # Stop3
      BY NotWinding DEF Winding
    <3>2. Cancel("noMotion").do = "cancel"
      BY OpValues
    <3> QED BY <1>2, <1>10, <2>2, <3>1, <3>2
  <2>5. p \notin {Stop5, Stop4, AutoStop4}
    BY <1>3, <1>16, <2>2, <2>3, <2>4
  <2>6. ~Winding(p)
    BY <1>16, NotWinding
  <2> QED BY <1>1, <2>5, <2>6
<1> QED BY <1>13, <1>14, <1>15, <1>16

\* How a thread comes to end the session, and how it goes on.
LEMMA EndingGoesOn ==
    ASSUME NEW program, SessionProgram(program), program # <<>>
    PROVE  /\ Ends(Tail(program)) =>
                /\ Ends(program) /\ Tail(program) # Stop5
                /\ program # Stop5 => /\ Head(program).do \in {"cancel", "invalidate"}
                                      /\ Head(program).timer \in {"noMotion", "window"}
           /\ Head(program).do = "update" => ~Ends(ScheduleActiveWindow \o Tail(program))
           /\ Head(program).do = "activate" => ~Ends(Activate \o Tail(program))
<1>1. CASE Ends(program)
  <2>1. /\ Head(program) \in {Invalidate("lifecycle"), Invalidate("noMotion"), Cancel("window"),
                             Change("STOPPING"), Cancel("noMotion")}
        /\ Tail(program) \in {Stop4, Stop3, Stop2, Stop1}
        /\ program \in {Stop4, Stop3, AutoStop4} =>
              Head(program) \in {Invalidate("noMotion"), Cancel("window"), Cancel("noMotion")}
        /\ program = Stop2 => Tail(program) = Stop1
    BY <1>1, StopParts DEF Parts, Ends
  <2>2. Head(program).do \notin {"update", "activate"}
    BY <2>1, OpValues
  <2>3. Stop5 \notin {Stop4, Stop3, Stop2, Stop1}
    <3>1. /\ Head(Stop5) = Invalidate("lifecycle") /\ Head(Stop4) = Invalidate("noMotion")
          /\ Head(Stop3) = Cancel("window") /\ Head(Stop2) = Change("STOPPING")
          /\ Head(Stop1) = Change("STOPPED")
      BY StopParts DEF Parts
    <3>2. /\ Invalidate("lifecycle").do = "invalidate" /\ Invalidate("lifecycle").timer = "lifecycle"
          /\ Invalidate("noMotion").timer = "noMotion" /\ Cancel("window").do = "cancel"
          /\ Change("STOPPING").do = "change" /\ Change("STOPPED").do = "change"
      BY OpValues
    <3> QED BY <3>1, <3>2
  <2>4. program \in {Stop4, Stop3, AutoStop4} =>
           /\ Head(program).do \in {"cancel", "invalidate"}
           /\ Head(program).timer \in {"noMotion", "window"}
    BY <2>1, OpValues
  <2>5. Ends(Tail(program)) => program # Stop2
    BY <2>1, NotEnding
  <2> QED BY <1>1, <2>1, <2>2, <2>3, <2>4, <2>5 DEF Ends
<1>2. CASE program \in {Stop1, Close1, Close2, Close3, Close4, Limit1, Limit2, Limit3}
  <2>1. /\ Head(program) \in {Change("STOPPED"), Simple("release"), Cancel("window"),
                              Invalidate("noMotion"), Invalidate("lifecycle"),
                              Simple("autoStop"), Simple("wait"), Simple("check")}
        /\ Tail(program) \in {<<>>, Close1, Close2, Close3, Limit1, Limit2}
    BY <1>2, StopParts, CloseParts, LifecycleParts DEF Parts
  <2>2. Head(program).do \notin {"update", "activate"}
    BY <2>1, OpValues
  <2> QED BY <2>1, <2>2, NotEnding
<1>3. ASSUME NEW arm \in DelayOp \cup LimitOp,
             program \in {Then(Change("STARTING"), Arm2(arm)), Arm2(arm), Arm1(arm)}
      PROVE  ~Ends(Tail(program)) /\ Head(program).do \notin {"update", "activate"}
  <2>1. /\ Head(program) \in {Change("STARTING"), Cancel("lifecycle"), arm}
        /\ Tail(program) \in {<<>>, Arm1(arm), Arm2(arm)}
        /\ arm.do = "armLifecycle"
    BY <1>3, ArmOps, ArmParts DEF Parts
  <2>2. ~Ends(Tail(program))
    BY <2>1, NotEnding
  <2>3. Head(program).do \notin {"update", "activate"}
    BY <2>1, OpValues
  <2> QED BY <2>2, <2>3
<1>4. ASSUME NEW rest \in ActiveRest,
             program \in {Then(Change("STARTING"), Active(rest)), Active(rest), Update(rest),
                          Window2(rest), Window1(rest), Timer2(rest), Timer1(rest),
                          Delay1(rest), Delay2(rest)}
      PROVE  /\ ~Ends(Tail(program))
             /\ Head(program).do = "update" => ~Ends(ScheduleActiveWindow \o Tail(program))
             /\ Head(program).do = "activate" => ~Ends(Activate \o Tail(program))
  <2>1. rest \in Program
    BY RestHeads
  <2>2. Tail(program) \in {rest, Active(rest), Update(rest), Window1(rest), Timer2(rest),
                          Timer1(rest), Delay1(rest)}
    BY ZenonT(60), <1>4, <2>1, ActivationParts, LifecycleParts DEF Parts
  <2>3. ~Ends(Tail(program))
    BY <2>2, NotEnding
  <2>4. CASE program = Update(rest)
    <3>1. Head(program).do = "update" /\ Tail(program) = Timer2(rest)
      BY <2>1, <2>4, ActivationParts, OpValues DEF Parts
    <3>2. ScheduleActiveWindow \o Tail(program) = Window2(rest)
      BY <2>1, <3>1, ActivationUnfolds
    <3>3. ~Ends(Window2(rest))
      BY NotEnding
    <3> QED BY <2>3, <3>1, <3>2, <3>3
  <2>5. CASE program = Delay1(rest)
    <3>1. Head(program).do = "activate" /\ Tail(program) = rest
      BY <2>1, <2>5, LifecycleParts, OpValues DEF Parts
    <3>2. Activate \o Tail(program) = Active(rest)
      BY <2>1, <3>1, ActivationUnfolds
    <3>3. ~Ends(Active(rest))
      BY NotEnding
    <3> QED BY <2>3, <3>1, <3>2, <3>3
  <2>6. CASE program \notin {Update(rest), Delay1(rest)}
    <3>1. Head(program) \in {Change("STARTED"), Change("STARTING"), Cancel("window"),
                            Cancel("noMotion"), Simple("armWindow"), Simple("armNoMotion"),
                            Simple("wait")}
      BY <1>4, <2>1, <2>6, ActivationParts, LifecycleParts DEF Parts
    <3>2. Head(program).do \notin {"update", "activate"}
      BY <3>1, OpValues
    <3> QED BY <2>3, <3>2
  <2> QED BY <2>4, <2>5, <2>6
<1> QED BY <1>1, <1>2, <1>3, <1>4 DEF SessionProgram, Activation, Ends

\* Where the threads of the session change the state.
LEMMA ChangesInOrder ==
    ASSUME SingleClient, OneClientInv, NEW t \in SessionThread, todo[t] # <<>>,
           Head(todo[t]).do = "change"
    PROVE  \/ Head(todo[t]).to = "STARTING" /\ state = "STOPPED" /\ owner # 0
           \/ Head(todo[t]).to = "STARTED" /\ state = "STARTING"
           \/ Head(todo[t]).to = "STOPPING" /\ todo[t] = Stop2
           \/ Head(todo[t]).to = "STOPPED" /\ state = "STOPPING"
<1> USE OpValues DEF Parts
<1>1. PICK program : program = todo[t]
  OBVIOUS
<1>2. ASSUME NEW rest \in Program, program \in Activation(rest) PROVE FALSE
  <2>1. Head(program) \in {Simple("update"), Cancel("window"), Simple("armWindow"),
                           Cancel("noMotion"), Simple("armNoMotion")}
    BY <1>2, ActivationParts DEF Activation
  <2> QED BY <1>1, <2>1
<1>3. program \in {Stop5, Stop4, Stop3, AutoStop4} => FALSE
  <2>1. \A p \in {Stop5, Stop4, Stop3, AutoStop4} :
           Head(p) \in {Invalidate("lifecycle"), Invalidate("noMotion"), Cancel("window"),
                       Cancel("noMotion")}
    BY StopParts
  <2> QED BY <1>1, <2>1
<1>4. program = Stop1 => Head(program).to = "STOPPED"
  BY StopParts
<1>5. program = Stop2 => Head(program).to = "STOPPING"
  BY StopParts
<1>6. CASE t \in ClientThreads
  <2>1. CASE Beginning(t)
    <3>1. CASE \E arm \in DelayOp : program = Then(Change("STARTING"), Arm2(arm))
      BY <1>1, <2>1, <3>1, ArmParts, ArmOps DEF Beginning
    <3>2. CASE \E rest \in StartRest : program = Then(Change("STARTING"), Active(rest))
      BY <1>1, <2>1, <3>2, RestPrograms, ActivationParts DEF Beginning
    <3> QED BY <1>1, <2>1, <3>1, <3>2 DEF Beginning
  <2>2. CASE Delaying(t) \/ Limiting(t)
    <3>1. PICK arm \in DelayOp \cup LimitOp : program \in {Arm2(arm), Arm1(arm)}
      BY <1>1, <2>2 DEF Delaying, Limiting
    <3>2. Head(program) \in {Cancel("lifecycle"), arm}
      BY <3>1, ArmParts, ArmOps
    <3> QED BY <1>1, <3>2, ArmOps
  <2>3. CASE Activating(t)
    <3>1. PICK rest \in StartRest : \/ (state = "STARTING" /\ program = Active(rest))
                                    \/ program \in Activation(rest)
      BY <1>1, <2>3 DEF Activating
    <3>2. rest \in Program
      BY RestPrograms
    <3> QED BY <1>1, <1>2, <3>1, <3>2, ActivationParts
  <2>4. CASE Stopping(t)
    BY <1>1, <1>3, <1>4, <1>5, <2>4 DEF Stopping
  <2>5. CASE Closing(t)
    <3>1. Head(program) \in {Invalidate("lifecycle"), Invalidate("noMotion"), Cancel("window"),
                            Simple("release")}
      BY <1>1, <2>5, CloseParts DEF Closing
    <3> QED BY <1>1, <3>1
  <2> QED BY <1>6, <2>1, <2>2, <2>3, <2>4, <2>5 DEF OneClientInv, SessionInv, ClientPhase
<1>7. ASSUME NEW g \in 1..MaxGen, t = LifecycleThread(g)
      PROVE  \/ Head(todo[t]).to = "STARTED" /\ state = "STARTING"
             \/ Head(todo[t]).to = "STOPPING" /\ todo[t] = Stop2
             \/ Head(todo[t]).to = "STOPPED" /\ state = "STOPPING"
  <2>1. \/ \E rest \in LifecycleRest : program \in {Delay2(rest), Delay1(rest)}
        \/ state = "STARTING" /\ \E rest \in LifecycleRest : program = Active(rest)
        \/ \E rest \in LifecycleRest : program \in Activation(rest)
        \/ program \in {Limit3, Limit2, Limit1}
        \/ program \in {AutoStop4, Stop3}
        \/ program = Stop2
        \/ state = "STOPPING" /\ program = Stop1
    BY <1>1, <1>7 DEF OneClientInv, SessionInv, LifecyclePhase
  <2>2. ~\E rest \in LifecycleRest : program \in {Delay2(rest), Delay1(rest)}
    BY <1>1, RestPrograms, LifecycleParts
  <2>3. program \notin {Limit3, Limit2, Limit1}
    BY <1>1, LifecycleParts
  <2>4. (\E rest \in LifecycleRest : program = Active(rest)) => Head(program).to = "STARTED"
    BY RestPrograms, ActivationParts
  <2>5. ~\E rest \in LifecycleRest : program \in Activation(rest)
    BY <1>2, RestPrograms
  <2> QED BY <1>1, <1>3, <1>4, <1>5, <2>1, <2>2, <2>3, <2>4, <2>5
<1> QED BY <1>6, <1>7 DEF SessionThread

\* While one thread changes the state no other ends the session.
LEMMA ChangesAlone ==
    ASSUME SingleClient, OneClientInv, StopsInOrder, NEW t \in SessionThread, todo[t] # <<>>,
           Head(todo[t]).do = "change"
    PROVE  \A u \in SessionThread : u # t => ~Ends(todo[u])
<1> SUFFICES ASSUME NEW u \in SessionThread, u # t, Ends(todo[u]) PROVE FALSE
  OBVIOUS
<1>1. state = "STARTED" /\ todo[u] # <<>>
  BY NotEnding DEF StopsInOrder
<1>2. todo[t] # Stop2
  BY DEF StopsInOrder, Ends
<1>3. Head(todo[t]).to = "STOPPING" /\ todo[t] = Stop2
  BY <1>1, ChangesInOrder
<1> QED BY <1>2, <1>3

LEMMA StepStopsInOrder ==
    ASSUME SingleClient, Types, TimerInv, OneClientInv, RunnersHoldMutex, WindowsAbsent,
           InactivityAbsent, StopsInOrder, NEW t \in Thread, Step(t)
    PROVE  StopsInOrder'
<1> USE DEF Runs
<1>0. SessionThread' = SessionThread /\ SessionThread \subseteq Thread
      /\ \A p : Ends(p)' <=> Ends(p)
  BY SessionThreads DEF SessionThread, Ends
<1>1. ASSUME state' = state,
             \A u \in SessionThread :
                \/ ~Ends(todo'[u])
                \/ /\ Ends(todo[u])
                   /\ \/ todo'[u] = todo[u] /\ (at[u] = "run" => at'[u] = "run")
                      \/ at'[u] = "run"
                      \/ u \in ClientThreads /\ todo'[u] # Stop5
      PROVE  StopsInOrder'
  BY <1>0, <1>1 DEF StopsInOrder, Ends
<1>2. CASE t \notin SessionThread
  <2>1. Aside /\ OthersStay(t)
    BY <1>2, OtherStepsAreAside
  <2>2. \A u \in SessionThread : todo'[u] = todo[u] /\ at'[u] = at[u] /\ state' = state
    BY <1>2, <2>1 DEF Aside, OthersStay
  <2> QED BY <1>1, <2>1, <2>2 DEF Aside
<1>3. CASE t \in SessionThread /\ ChangeState(t)
  <2>1. /\ todo[t] # <<>> /\ Head(todo[t]).do = "change" /\ MovesOnly(t, Tail(todo[t]))
    BY <1>3, Moves DEF ChangeState
  <2>2. ~Ends(Tail(todo[t]))
    <3>1. SessionProgram(todo[t])
      BY <1>3, SessionPrograms DEF OneClientInv
    <3>2. todo[t] # Stop5
      BY <2>1, StopParts, OpValues DEF Parts
    <3> QED BY <2>1, <3>1, <3>2, EndingGoesOn
  <2>3. \A u \in SessionThread : u # t => ~Ends(todo[u])
    BY <1>3, <2>1, ChangesAlone
  <2>4. \A u \in SessionThread : ~Ends(todo'[u])
    BY <1>0, <2>1, <2>2, <2>3 DEF MovesOnly
  <2> QED BY <1>0, <2>4 DEF StopsInOrder, Ends
<1>4. CASE t \in SessionThread /\ ArmLifecycleTimer(t)
  <2>1. Runs(t, "armLifecycle") /\ todo[t] # <<>> /\ state' = state
    BY <1>4 DEF ArmLifecycleTimer, sensorVars
  <2>2. t \in ClientThreads /\ Head(todo[t]).timer \in 1..MaxGen
    BY <2>1, ArmsFresh
  <2>3. PICK g \in 1..MaxGen : g = Head(todo[t]).timer
    BY <2>2
  <2>4. t # <<"lifecycle", g>> /\ "lifecycle" \in Kind
    BY <2>2, Roles DEF Kind
  <2>5. PICK program : program = LifecycleProgram(Head(todo[t]).delayed, Head(todo[t]).stops)
    OBVIOUS
  <2>6. SpawnOutcome(t, "lifecycle", g, program, Tail(todo[t]))
    BY <1>4, <2>3, <2>4, <2>5, SpawnMoves DEF ArmLifecycleTimer
  <2>7. \E arm \in DelayOp \cup LimitOp : todo[t] = Arm1(arm)
    BY <2>1, <2>2, ArmPhase
  <2>8. ~Ends(Tail(todo[t])) /\ Head(todo[t]) \in DelayOp \cup LimitOp
    <3>1. Tail(todo[t]) = <<>> /\ Head(todo[t]) \in DelayOp \cup LimitOp
      BY <2>7, ArmOps, ArmParts DEF Parts
    <3> QED BY <3>1, NotEnding
  <2>9. ~Ends(program)
    <3>1. /\ Head(todo[t]).delayed \in BOOLEAN /\ Head(todo[t]).stops \in BOOLEAN
          /\ Head(todo[t]).delayed \/ Head(todo[t]).stops
      BY <2>1, <2>8, RunsType, OpFields DEF DelayOp, LimitOp, Types
    <3>2. CASE Head(todo[t]).delayed
      <4>1. \E rest \in LifecycleRest : program = Delay2(rest)
        BY <2>5, <3>1, <3>2, LifecycleUnfolds
      <4> QED BY <4>1, NotEnding DEF ActiveRest
    <3>3. CASE ~Head(todo[t]).delayed
      <4>1. program = Limit3
        BY <2>5, <3>1, <3>3, LifecycleUnfolds
      <4> QED BY <4>1, NotEnding
    <3> QED BY <3>2, <3>3
  <2>10. \A u \in SessionThread :
            \/ ~Ends(todo'[u])
            \/ todo'[u] = todo[u] /\ (at[u] = "run" => at'[u] = "run")
    <3>1. handle["lifecycle"] = Nobody
      BY <2>1, <2>2, ArmPhase
    <3> QED BY <1>0, <2>6, <2>8, <2>9, <3>1 DEF SpawnOutcome
  <2> QED BY <1>1, <2>1, <2>10
<1>5. CASE t \in SessionThread /\ (CancelTimer(t) \/ InvalidateTimer(t))
  <2>1. /\ todo[t] # <<>> /\ Head(todo[t]).do \in {"cancel", "invalidate"} /\ state' = state
        /\ CancelThread(t, Head(todo[t]).timer, Tail(todo[t]))
    BY <1>5 DEF CancelTimer, InvalidateTimer, sensorVars
  <2>2. Head(todo[t]).timer \in Kind
    BY <1>5, <2>1, RunsType, OpFields DEF Types, CancelTimer, InvalidateTimer
  <2>3. PICK k \in Kind : k = Head(todo[t]).timer
    BY <2>2
  <2>4. /\ MovesOnly(t, Tail(todo[t]))
        /\ handle[k] \in {Nobody, t} => Continue(t, Tail(todo[t]))
    BY <2>1, <2>3, CancelMoves
  <2>5. Ends(Tail(todo[t])) =>
           /\ Ends(todo[t]) /\ Tail(todo[t]) # Stop5
           /\ todo[t] # Stop5 => k \in {"noMotion", "window"}
    <3>1. SessionProgram(todo[t])
      BY <1>5, SessionPrograms DEF OneClientInv
    <3> QED BY <2>1, <2>3, <3>1, EndingGoesOn
  <2>6. k \in {"noMotion", "window"} => handle[k] = Nobody
    BY DEF WindowsAbsent, InactivityAbsent, TimersAbsent
  <2>7. ASSUME t \notin ClientThreads PROVE todo[t] # Stop5
    <3>1. PICK g \in 1..MaxGen : t = LifecycleThread(g)
      BY <1>5, <2>7 DEF SessionThread
    <3>2. Head(todo[t]).do # "invalidate"
      BY <2>1, <3>1, LifecycleHead DEF OneClientInv, SessionInv, PlainOp
    <3> QED BY <3>2, StopParts, OpValues DEF Parts
  <2>8. ASSUME t \notin ClientThreads, Ends(Tail(todo[t])) PROVE at'[t] = "run"
    <3>1. Continue(t, Tail(todo[t]))
      BY <2>4, <2>5, <2>6, <2>7, <2>8
    <3>2. Tail(todo[t]) # <<>>
      BY <2>8, NotEnding
    <3> QED BY <3>1, <3>2, Moves
  <2>9. ASSUME NEW u \in SessionThread
        PROVE  \/ ~Ends(todo'[u])
               \/ /\ Ends(todo[u])
                  /\ \/ todo'[u] = todo[u] /\ (at[u] = "run" => at'[u] = "run")
                     \/ at'[u] = "run"
                     \/ u \in ClientThreads /\ todo'[u] # Stop5
    <3>1. CASE u = t
      BY <2>4, <2>5, <2>8, <3>1 DEF MovesOnly
    <3>2. CASE u # t
      BY <1>0, <2>4, <3>2 DEF MovesOnly
    <3> QED BY <3>1, <3>2
  <2> QED BY <1>1, <2>1, <2>9
<1>6. CASE /\ t \in SessionThread
           /\ TakeMutex(t) \/ RecordEvent(t) \/ \E l \in Listeners : OnEvent(t, l)
  <2>1. state' = state
    BY <1>6 DEF TakeMutex, RecordEvent, OnEvent, sensorVars
  <2>2. CASE TakeMutex(t) \/ \E l \in Listeners : OnEvent(t, l)
    <3>1. todo' = todo /\ \A u \in Thread : at[u] = "run" => at'[u] = "run"
      BY <2>2 DEF TakeMutex, OnEvent, Types, ThreadsOK, ThreadsTypeOK
    <3> QED BY <1>0, <1>1, <2>1, <3>1
  <2>3. CASE RecordEvent(t)
    <3>1. /\ todo'[t] = <<>>
          /\ \A u \in Thread : u # t => todo'[u] = todo[u] /\ at'[u] = at[u]
      BY <2>3 DEF RecordEvent, Types, ThreadsOK, ThreadsTypeOK
    <3> QED BY <1>0, <1>1, <2>1, <3>1, NotEnding
  <2> QED BY <1>6, <2>2, <2>3
<1>7. CASE /\ t \in SessionThread /\ ~ArmLifecycleTimer(t) /\ ~ChangeState(t)
           /\ \/ ArmNoMotionTimer(t) \/ ArmWindowScheduler(t) \/ UpdateActiveWindow(t)
              \/ Release(t)
  <2>1. /\ todo[t] # <<>> /\ state' = state
        /\ Head(todo[t]).do \in {"armNoMotion", "armWindow", "update", "release"}
    BY <1>7 DEF ArmNoMotionTimer, ArmWindowScheduler, UpdateActiveWindow, Release, sensorVars
  <2>2. todo[t] # Stop5
    BY <2>1, StopParts, OpValues DEF Parts
  <2>3. /\ ~Ends(Tail(todo[t]))
        /\ Head(todo[t]).do = "update" => ~Ends(ScheduleActiveWindow \o Tail(todo[t]))
    <3>1. SessionProgram(todo[t])
      BY <1>7, SessionPrograms DEF OneClientInv
    <3> QED BY <2>1, <2>2, <3>1, EndingGoesOn
  <2>4. \/ Aside /\ OthersStay(t)
        \/ GoesOn(t, Tail(todo[t]))
        \/ Head(todo[t]).do = "update" /\ GoesOn(t, ScheduleActiveWindow \o Tail(todo[t]))
    BY <1>7, SessionSteps DEF Advances, Updates
  <2>5. ~Ends(todo[t])
    <3>1. \A p \in {Stop5, Stop4, Stop3, Stop2, AutoStop4} :
             Head(p) \in {Invalidate("lifecycle"), Invalidate("noMotion"), Cancel("window"),
                         Cancel("noMotion"), Change("STOPPING")}
      BY StopParts DEF Parts
    <3>2. \A p \in {Stop5, Stop4, Stop3, Stop2, AutoStop4} :
             Head(p).do \in {"invalidate", "cancel", "change"}
      BY <3>1, OpValues
    <3> QED BY <2>1, <3>2 DEF Ends
  <2>6. \A u \in SessionThread :
           \/ ~Ends(todo'[u])
           \/ todo'[u] = todo[u] /\ at'[u] = at[u]
    BY <1>7, <2>3, <2>4, <2>5 DEF Aside, GoesOn, OthersStay
  <2> QED BY <1>1, <2>1, <2>6
<1>8. CASE t \in SessionThread /\ (InjectLocked(t) \/ EndSessionOfTheDead(t) \/ ReturnToCallback(t))
  BY <1>8, SessionHeads DEF InjectLocked, EndSessionOfTheDead, ReturnToCallback, OneClientInv
<1> QED BY <1>2, <1>3, <1>4, <1>5, <1>6, <1>7, <1>8 DEF Step

LEMMA EndHeads ==
    ASSUME NEW program, Ends(program)
    PROVE  program # <<>> /\ Head(program).do \in {"invalidate", "cancel", "change"}
<1>1. /\ program # <<>>
      /\ Head(program) \in {Invalidate("lifecycle"), Invalidate("noMotion"), Cancel("window"),
                           Cancel("noMotion"), Change("STOPPING")}
  BY StopParts DEF Parts, Ends
<1> QED BY <1>1, OpValues

\* The automatic stop begins while no stop() is on its way.
LEMMA TimersStopInOrder ==
    ASSUME SingleClient, Types, OneClientInv, RunnersHoldMutex, StopsInOrder,
           NEW g \in 1..MaxGen, TimerStep("lifecycle", g)
    PROVE  StopsInOrder'
<1> USE DEF Runs
<1>0. SessionThread' = SessionThread /\ SessionThread \subseteq Thread
      /\ \A p : Ends(p)' <=> Ends(p)
  BY SessionThreads DEF SessionThread, Ends
<1>1. PICK t : t = LifecycleThread(g)
  OBVIOUS
<1>2. /\ t \in SessionThread /\ t \in Thread /\ t \notin ClientThreads
      /\ OthersStay(t) /\ state' = state
  BY <1>1, Roles, SessionThreads, LifecycleTimerSteps
<1>3. ~Ends(todo[t])
  <2>1. at[t] = "wait" \/ (at[t] = "run" /\ Head(todo[t]).do \in
            {"wait", "activate", "check", "autoStop", "expire", "boundary"})
    BY <1>1 DEF TimerStep, BeginWait, WaitCancelled, WaitTimesOut, ActivateAfterDelay,
       CheckBeforeWait, AutoStop, NoMotionExpires, BoundaryReached, LifecycleThread
  <2>2. Ends(todo[t]) => at[t] = "run" /\ Head(todo[t]).do \in {"invalidate", "cancel", "change"}
    BY <1>2, EndHeads DEF StopsInOrder
  <2> QED BY <2>1, <2>2
<1>4. SessionProgram(todo[t])
  BY <1>2, SessionPrograms DEF OneClientInv
<1>5. todo[t] # <<>> /\ Head(todo[t]).do \in {"wait", "check"} => ~Ends(Tail(todo[t]))
  BY <1>3, <1>4, EndingGoesOn
<1>6. todo[t] # <<>> /\ Head(todo[t]).do = "activate" => ~Ends(Activate \o Tail(todo[t]))
  BY <1>4, EndingGoesOn
<1>7. CASE ~Ends(todo'[t])
  <2>1. \A u \in SessionThread :
           \/ ~Ends(todo'[u])
           \/ todo'[u] = todo[u] /\ at'[u] = at[u]
    BY <1>2, <1>7 DEF OthersStay
  <2> QED BY <1>0, <1>2, <2>1 DEF StopsInOrder
<1>8. CASE Ends(todo'[t])
  <2>1. /\ todo[t] # <<>> /\ Head(todo[t]).do = "autoStop" /\ state = "STARTED"
        /\ at'[t] = "run" /\ ~Superseded(g)
    <3>1. ~Ends(<<>>)
      BY NotEnding
    <3>2. \/ todo'[t] \in {todo[t], <<>>}
          \/ /\ todo[t] # <<>> /\ Head(todo[t]).do \in {"wait", "check"}
             /\ todo'[t] = Tail(todo[t])
          \/ /\ todo[t] # <<>> /\ Head(todo[t]).do = "activate"
             /\ todo'[t] = Activate \o Tail(todo[t])
          \/ /\ todo[t] # <<>> /\ Head(todo[t]).do = "autoStop" /\ state = "STARTED"
             /\ at'[t] = "run" /\ ~Superseded(g)
      BY <1>1, <1>2, LifecycleTimerSteps DEF Aside
    <3> QED BY <1>3, <1>5, <1>6, <1>8, <3>1, <3>2
  <2>2. at[t] = "run" /\ mutex = t
    <3>1. at[t] = "run"
      <4>1. todo'[t] # todo[t]
        BY <1>3, <1>8
      <4>2. at[t] = "wait" => ~Ends(todo'[t])
        <5>1. at[t] = "wait" => todo'[t] \in {<<>>, todo[t]}
          BY <1>1, <1>2 DEF TimerStep, BeginWait, WaitCancelled, WaitTimesOut,
             ActivateAfterDelay, CheckBeforeWait, AutoStop, NoMotionExpires, BoundaryReached,
             LifecycleThread, Types, ThreadsOK, ThreadsTypeOK
        <5> QED BY <1>3, <5>1, NotEnding
      <4> QED BY <1>1, <1>8, <4>2 DEF TimerStep, BeginWait, WaitCancelled, WaitTimesOut,
             ActivateAfterDelay, CheckBeforeWait, AutoStop, NoMotionExpires, BoundaryReached,
             LifecycleThread
    <3> QED BY <1>2, <3>1 DEF RunnersHoldMutex
  <2>3. ASSUME NEW u \in SessionThread, u # t PROVE ~Ends(todo[u])
    <3>1. CASE u \in ClientThreads
      <4>1. \/ todo[u] = <<>>
            \/ todo[u] = Stop5
            \/ todo[u] = Stop4 /\ target[u] = LifecycleThread(g)
        BY <1>1, <2>1, <3>1, OneLifecycleThread
      <4>2. target[u] # LifecycleThread(g)
        <5>1. ~cancelled["lifecycle"]
          BY <2>1 DEF Superseded
        <5> QED BY <1>2, <2>3, <1>0, <5>1 DEF OneClientInv, SessionInv, LifecycleJoins
      <4>3. todo[u] = Stop5 => at[u] = "run"
        BY <2>3 DEF StopsInOrder, Ends
      <4>4. at[u] # "run"
        BY <1>0, <2>2, <2>3 DEF RunnersHoldMutex
      <4> QED BY <4>1, <4>2, <4>3, <4>4, NotEnding
    <3>2. ASSUME NEW h \in 1..MaxGen, u = LifecycleThread(h) PROVE ~Ends(todo[u])
      <4>1. h # g
        BY <1>1, <2>3, <3>2
      <4>2. todo[u] = <<>>
        BY <1>1, <2>1, <3>2, <4>1, OneLifecycleThread
      <4> QED BY <4>2, NotEnding
    <3> QED BY <3>1, <3>2 DEF SessionThread
  <2>4. \A u \in SessionThread : u # t => ~Ends(todo'[u])
    BY <1>2, <2>3 DEF OthersStay
  <2> QED BY <1>0, <1>2, <2>1, <2>4 DEF StopsInOrder
<1> QED BY <1>7, <1>8

LEMMA NextStopsInOrder ==
    ASSUME SingleClient, Types, TimerInv, OneClientInv, RunnersHoldMutex, WindowsAbsent,
           InactivityAbsent, StopsInOrder, [Next]_vars
    PROVE  StopsInOrder'
<1>0. SessionThread' = SessionThread /\ SessionThread \subseteq Thread
      /\ \A p : Ends(p)' <=> Ends(p)
  BY SessionThreads DEF SessionThread, Ends
<1>1. ASSUME UNCHANGED <<state, at, todo>> PROVE StopsInOrder'
  BY <1>0, <1>1 DEF StopsInOrder
<1>2. ASSUME NEW t \in Thread, NEW program, MovesOnly(t, program), ~Ends(program), state' = state
      PROVE  StopsInOrder'
  <2>1. \A u \in SessionThread :
           \/ ~Ends(todo'[u])
           \/ todo'[u] = todo[u] /\ at'[u] = at[u]
    BY <1>0, <1>2 DEF MovesOnly
  <2> QED BY <1>0, <1>2, <2>1 DEF StopsInOrder
<1>3. ASSUME NEW k \in Kind, k # "lifecycle", NEW g \in 1..MaxGen, TimerStep(k, g)
      PROVE  StopsInOrder'
  <2>1. \A u \in SessionThread : todo'[u] = todo[u] /\ at'[u] = at[u]
    BY <1>3, OtherTimerStepsAreAside DEF Aside, GenerationKind
  <2>2. state' = state
    BY <1>3, TimerStepsLeaveSettings
  <2> QED BY <1>0, <2>1, <2>2 DEF StopsInOrder
<1>4. ASSUME NEW t \in Thread, Stop(t) PROVE StopsInOrder'
  <2>1. /\ state = "STARTED" /\ state' = state /\ Unlocked
        /\ MovesOnly(t, Stop5) /\ at'[t] = "run" /\ t \in ClientThreads
    BY <1>4, CallMoves, StopUnfolds DEF Stop, Enter, OneClientInv, sensorVars
  <2>2. ASSUME NEW u \in SessionThread, u # t PROVE ~Ends(todo[u])
    <3>1. at[u] # "run"
      BY <1>0, <2>1, <2>2, ThreadAssumption DEF Unlocked, RunnersHoldMutex
    <3>2. u \notin ClientThreads
      BY <2>1, <2>2 DEF SingleClient
    <3> QED BY <2>2, <3>1, <3>2 DEF StopsInOrder
  <2>3. \A u \in SessionThread : u # t => ~Ends(todo'[u])
    BY <1>0, <2>1, <2>2 DEF MovesOnly
  <2>4. todo'[t] = Stop5
    BY <2>1 DEF MovesOnly
  <2> QED BY <1>0, <2>1, <2>3, <2>4 DEF StopsInOrder
<1>5. ASSUME NEW t \in Thread, Close(t) PROVE StopsInOrder'
  <2>1. state' = state /\ MovesOnly(t, Close4)
    BY <1>5, CallMoves, StopUnfolds DEF Close, OneClientInv, sensorVars
  <2> QED BY <1>2, <2>1, NotEnding
<1>6. ASSUME NEW t \in Thread, NEW cfg \in Configs, Start(t, cfg) PROVE StopsInOrder'
  <2>1. cfg \in StartConfig /\ gen["lifecycle"] + 1 \in 1..MaxGen
    <3>1. gen["lifecycle"] \in 0..MaxGen /\ gen["lifecycle"] < MaxGen
      BY <1>6 DEF Start, Types, TimersTypeOK, Kind
    <3> QED BY <3>1, Bounds, ConfigAssumption
  <2>2. PICK g \in 1..MaxGen : g = gen["lifecycle"] + 1
    BY <2>1
  <2>3. ~Ends(StartProgram(cfg, g))
    <3>1. \/ \E arm \in DelayOp : StartProgram(cfg, g) = Then(Change("STARTING"), Arm2(arm))
          \/ \E rest \in StartRest : StartProgram(cfg, g) = Then(Change("STARTING"), Active(rest))
      BY <2>1, StartUnfolds
    <3> QED BY <3>1, NotEnding DEF ActiveRest
  <2>4. MovesOnly(t, StartProgram(cfg, g)) /\ state' = state
    BY <1>6, <2>2, CallMoves DEF OneClientInv, Start
  <2> QED BY <1>2, <2>3, <2>4
<1>7. ASSUME NEW t \in InjectThreads, InjectMotionEvent(t) PROVE StopsInOrder'
  <2>1. t \in Thread /\ t \notin SessionThread
    BY Roles, SessionThreads
  <2>2. MovesOnly(t, <<Inject(stamps + 1)>>) /\ state' = state
    BY <1>7, <2>1, CallMoves DEF OneClientInv, InjectMotionEvent, sensorVars
  <2>3. \A u \in SessionThread : todo'[u] = todo[u] /\ at'[u] = at[u]
    BY <1>0, <2>1, <2>2 DEF MovesOnly
  <2> QED BY <1>0, <2>2, <2>3 DEF StopsInOrder
<1>8. ASSUME NEW t \in Thread, Open(t) \/ SetActiveWindows(t) PROVE StopsInOrder'
  BY <1>1, <1>8 DEF Open, SetActiveWindows, threadVars
<1>9. ASSUME NEW l \in Listeners, RegisterEventListener(l) \/ UnregisterEventListener(l)
      PROVE  StopsInOrder'
  BY <1>1, <1>9 DEF RegisterEventListener, UnregisterEventListener, threadVars
<1>10. CASE ClientDies \/ DeathNotice
  BY <1>10 DEF ClientDies, DeathNotice, SingleClient
<1>11. CASE Rest \/ UNCHANGED vars
  BY <1>1, <1>11 DEF Rest, vars, threadVars, sensorVars
<1> QED BY <1>3, <1>4, <1>5, <1>6, <1>7, <1>8, <1>9, <1>10, <1>11, StepStopsInOrder,
     TimersStopInOrder DEF Next, ClientCall

-----------------------------------------------------------------------------
(* The sensor follows the life cycle of SensorLifecycle.                    *)

\* What the refinement maps to the session, and to whether it stops by itself.
LEMMA LifeStutters ==
    ASSUME UNCHANGED <<state, owner, startConfig, opens>>
    PROVE  [Lifecycle!LifeNext]_(Lifecycle!lifeVars)
BY DEF Lifecycle!lifeVars

LEMMA StepFollowsLifecycle ==
    ASSUME SingleClient, Types, TimerInv, OneClientInv, StopsInOrder, NEW t \in Thread, Step(t)
    PROVE  [Lifecycle!LifeNext]_(Lifecycle!lifeVars)
<1> USE DEF Lifecycle!lifeVars, Lifecycle!LifeNext
<1>1. /\ UNCHANGED <<startConfig, opens>>
      /\ owner' = owner \/ Release(t)
      /\ state' = state \/ ChangeState(t)
  BY StepsLeaveSettings
<1>2. CASE t \notin SessionThread
  <2>1. state' = state /\ owner' = owner
    BY <1>2, OtherStepsAreAside DEF Aside
  <2> QED BY <1>1, <2>1, LifeStutters
<1>3. CASE t \in SessionThread /\ ChangeState(t)
  <2>1. todo[t] # <<>> /\ Head(todo[t]).do = "change" /\ state' = Head(todo[t]).to
        /\ owner' = owner
    BY <1>3 DEF ChangeState, Runs
  <2>2. Head(todo[t]).to = "STOPPING" => state = "STARTED"
    <3>1. todo[t] = Stop2 => state = "STARTED"
      BY <1>3 DEF StopsInOrder, Ends
    <3> QED BY <1>3, <2>1, <3>1, ChangesInOrder
  <2>3. \/ Head(todo[t]).to = "STARTING" /\ state = "STOPPED" /\ owner # 0
        \/ Head(todo[t]).to = "STARTED" /\ state = "STARTING"
        \/ Head(todo[t]).to = "STOPPING" /\ state = "STARTED"
        \/ Head(todo[t]).to = "STOPPED" /\ state = "STOPPING"
    BY <1>3, <2>1, <2>2, ChangesInOrder
  <2>4. startConfig.activeStop \in BOOLEAN
    BY DEF Types, SensorTypeOK, StartConfig
  <2>5. CASE Head(todo[t]).to = "STARTING" /\ state = "STOPPED" /\ owner # 0
    <3>1. (state # "STOPPED" /\ startConfig.activeStop)' <=> startConfig.activeStop
      BY <1>1, <2>1, <2>5
    <3>2. (state # "STOPPED" /\ startConfig.activeStop)' = startConfig.activeStop
      BY <2>4, <3>1
    <3>3. state' = "STARTING" /\ UNCHANGED <<owner, opens>>
      BY <1>1, <2>1, <2>5
    <3>4. Lifecycle!Start(startConfig.activeStop)
      BY <2>5, <3>2, <3>3 DEF Lifecycle!Start
    <3> QED BY <2>4, <3>4
  <2>6. CASE Head(todo[t]).to = "STARTED" /\ state = "STARTING"
    <3>1. Lifecycle!Activate
      BY <1>1, <2>1, <2>6 DEF Lifecycle!Activate
    <3> QED BY <3>1
  <2>7. CASE Head(todo[t]).to = "STOPPING" /\ state = "STARTED"
    <3>1. Lifecycle!GoDown
      BY <1>1, <2>1, <2>7 DEF Lifecycle!GoDown
    <3> QED BY <3>1
  <2>8. CASE Head(todo[t]).to = "STOPPED" /\ state = "STOPPING"
    <3>1. Lifecycle!Finish
      BY <1>1, <2>1, <2>8 DEF Lifecycle!Finish
    <3> QED BY <3>1
  <2> QED BY <2>3, <2>5, <2>6, <2>7, <2>8
<1>4. CASE t \in SessionThread /\ Release(t)
  <2>1. todo[t] # <<>> /\ Head(todo[t]).do = "release" /\ state' = state /\ owner' = 0
    BY <1>4 DEF Release, Runs
  <2>2. state = "STOPPED"
    <3>1. CASE t \in ClientThreads
      BY <2>1, <3>1, ClientReleases DEF OneClientInv, SessionInv
    <3>2. ASSUME NEW g \in 1..MaxGen, t = LifecycleThread(g) PROVE FALSE
      BY <2>1, <3>2, LifecycleHead DEF OneClientInv, SessionInv, PlainOp
    <3> QED BY <1>4, <3>1, <3>2 DEF SessionThread
  <2>3. CASE owner = 0
    BY <1>1, <2>1, <2>3, LifeStutters
  <2>4. CASE owner # 0
    <3>1. Lifecycle!Close
      BY <1>1, <2>1, <2>2, <2>4 DEF Lifecycle!Close
    <3> QED BY <3>1
  <2> QED BY <2>3, <2>4
<1>5. CASE ~ChangeState(t) /\ ~Release(t)
  BY <1>1, <1>5, LifeStutters
<1> QED BY <1>2, <1>3, <1>4, <1>5

LEMMA NextFollowsLifecycle ==
    ASSUME SingleClient, Types, TimerInv, OneClientInv, StopsInOrder, [Next]_vars
    PROVE  [Lifecycle!LifeNext]_(Lifecycle!lifeVars)
<1>1. ASSUME NEW t \in Thread, Open(t) PROVE [Lifecycle!LifeNext]_(Lifecycle!lifeVars)
  <2>1. Lifecycle!Open
    BY <1>1 DEF Open, Lifecycle!Open
  <2> QED BY <2>1 DEF Lifecycle!LifeNext
<1>2. ASSUME NEW t \in Thread, NEW cfg \in Configs, Start(t, cfg)
      PROVE  [Lifecycle!LifeNext]_(Lifecycle!lifeVars)
  <2>1. state = "STOPPED" /\ UNCHANGED <<state, owner, opens>>
    BY <1>2 DEF Start
  <2> QED BY <2>1 DEF Lifecycle!lifeVars
<1>3. ASSUME NEW t \in Thread, Stop(t) \/ Close(t) \/ SetActiveWindows(t)
      PROVE  [Lifecycle!LifeNext]_(Lifecycle!lifeVars)
  BY <1>3, LifeStutters DEF Stop, Close, SetActiveWindows, sensorVars, worldVars
<1>4. ASSUME NEW l \in Listeners, RegisterEventListener(l) \/ UnregisterEventListener(l)
      PROVE  [Lifecycle!LifeNext]_(Lifecycle!lifeVars)
  BY <1>4, LifeStutters DEF RegisterEventListener, UnregisterEventListener, worldVars
<1>5. ASSUME NEW t \in InjectThreads, InjectMotionEvent(t)
      PROVE  [Lifecycle!LifeNext]_(Lifecycle!lifeVars)
  BY <1>5, LifeStutters DEF InjectMotionEvent, sensorVars
<1>6. ASSUME NEW k \in Kind, NEW g \in 1..MaxGen, TimerStep(k, g)
      PROVE  [Lifecycle!LifeNext]_(Lifecycle!lifeVars)
  BY <1>6, LifeStutters, TimerStepsLeaveSettings
<1>7. CASE ClientDies \/ DeathNotice
  BY <1>7 DEF ClientDies, DeathNotice, SingleClient
<1>8. CASE Rest \/ UNCHANGED vars
  BY <1>8, LifeStutters DEF Rest, vars, sensorVars, worldVars
<1> QED BY <1>1, <1>2, <1>3, <1>4, <1>5, <1>6, <1>7, <1>8, StepFollowsLifecycle
     DEF Next, ClientCall

\* The stops of a session: the automatic stop and a stop() that races with it,
\* both of which release the mutex in their joins, do not both change the
\* state to STOPPING.
THEOREM StopsDoNotMeet == SingleClient /\ NoWindows /\ MotionOnly => (Spec => []StopsInOrder)
<1> SUFFICES ASSUME SingleClient, NoWindows, MotionOnly PROVE Spec => []StopsInOrder
  OBVIOUS
<1>1. Init => StopsInOrder
  <2>1. ~Ends(<<>>)
    BY NotEnding
  <2> QED BY <2>1, SessionThreads DEF Init, StopsInOrder
<1>2. Types /\ TimerInv /\ OneClientInv /\ RunnersHoldMutex /\ WindowsAbsent
         /\ InactivityAbsent /\ StopsInOrder /\ [Next]_vars
         => StopsInOrder'
  BY NextStopsInOrder
<1> QED BY <1>1, <1>2, TypesInvariant, TimerInvariant, OneClientInvariant, MutualExclusion,
     WindowsStayAbsent, InactivityStaysAbsent, PTL DEF Spec

\* The sensor implements the safety part of SensorLifecycle: whatever the
\* callbacks, the joins and the timer threads do between two critical sections,
\* its client sees the states in their order, one owner at a time, and no
\* close of a session that runs.
THEOREM LifecycleFollowed ==
    SingleClient /\ NoWindows /\ MotionOnly => (Spec => FollowsLifecycle)
<1> SUFFICES ASSUME SingleClient, NoWindows, MotionOnly PROVE Spec => FollowsLifecycle
  OBVIOUS
<1>1. Init => Lifecycle!LifeInit
  BY DEF Init, Lifecycle!LifeInit
<1>2. Types /\ TimerInv /\ OneClientInv /\ StopsInOrder /\ [Next]_vars
         => [Lifecycle!LifeNext]_(Lifecycle!lifeVars)
  BY NextFollowsLifecycle
<1> QED BY <1>1, <1>2, TypesInvariant, TimerInvariant, OneClientInvariant, StopsDoNotMeet, PTL
     DEF Spec, FollowsLifecycle

-----------------------------------------------------------------------------
(* The timers a session depends on are armed: its programs fit it.          *)

\* A program of a session that arms the lifecycle thread with one of arms and
\* goes on after its activation with one of rests.
Fits(program, arms, rests) ==
    \/ program \in {<<>>, Stop1, Stop2, Stop3, Stop4, Stop5, AutoStop4, Close1, Close2, Close3,
                    Close4, Limit1, Limit2, Limit3}
    \/ \E arm \in arms :
          program \in {Then(Change("STARTING"), Arm2(arm)), Arm2(arm), Arm1(arm)}
    \/ \E rest \in rests :
          \/ program \in {Then(Change("STARTING"), Active(rest)), Active(rest), Delay1(rest),
                          Delay2(rest)}
          \/ program \in Activation(rest)

\* What the client may arm: a lifecycle thread of this session's generation,
\* which stops the session if its configuration says so.
OwnArms == {arm \in DelayOp \cup LimitOp : /\ arm.timer = gen["lifecycle"]
                                           /\ startConfig.activeStop => arm.stops}

\* After an activation the client, and the lifecycle thread, see to the
\* automatic stop.
OwnRests == {rest \in StartRest : \/ (rest = <<>> /\ ~startConfig.activeStop)
                                  \/ \E arm \in OwnArms : rest = Arm2(arm)}

ThreadRests == {rest \in LifecycleRest : rest = <<>> => ~startConfig.activeStop}

ArmsOf(t) == IF t \in ClientThreads THEN OwnArms ELSE {}

RestsOf(t) == IF t \in ClientThreads THEN OwnRests ELSE ThreadRests

\* Every thread of the session works for the session as it was configured.
ProgramsFit == \A t \in SessionThread : Fits(todo[t], ArmsOf(t), RestsOf(t))

\* What goes on after a program's activation.
GoesOnWith(arms, rests) ==
    /\ arms \subseteq DelayOp \cup LimitOp
    /\ rests \subseteq ActiveRest
    /\ \A rest \in rests : rest \in {<<>>, Limit2} \/ \E arm \in arms : rest = Arm2(arm)

LEMMA SessionGoesOnWith ==
    ASSUME NEW t
    PROVE  /\ GoesOnWith(ArmsOf(t), RestsOf(t))
           /\ <<>> \in RestsOf(t) => ~startConfig.activeStop
           /\ ArmsOf(t) \subseteq OwnArms
<1>1. GoesOnWith(OwnArms, OwnRests) /\ GoesOnWith({}, ThreadRests)
  BY DEF GoesOnWith, OwnArms, OwnRests, ThreadRests, ActiveRest, LifecycleRest
<1>2. <<>> \in OwnRests => ~startConfig.activeStop
  <2>1. \A arm \in OwnArms : Arm2(arm) # <<>>
    BY ArmParts, ArmOps DEF OwnArms, Parts
  <2> QED BY <2>1 DEF OwnRests
<1> QED BY <1>1, <1>2 DEF ArmsOf, RestsOf, ThreadRests

\* Operations after which a fitting program may be over.
LastOp(op, rests) ==
    \/ op.do \in {"change", "release", "autoStop", "armLifecycle"}
    \/ op.do \in {"armNoMotion", "activate"} /\ <<>> \in rests

LEMMA FitsGoesOn ==
    ASSUME NEW arms, NEW rests, GoesOnWith(arms, rests),
           NEW program, Fits(program, arms, rests), program # <<>>
    PROVE  /\ Fits(Tail(program), arms, rests)
           /\ Head(program).do = "update" =>
                 /\ Fits(ScheduleActiveWindow \o Tail(program), arms, rests)
                 /\ ScheduleActiveWindow \o Tail(program) # <<>>
           /\ Head(program).do = "activate" =>
                 /\ Fits(Activate \o Tail(program), arms, rests)
                 /\ Activate \o Tail(program) # <<>>
           /\ CancelsLifecycle(Head(program)) /\ Head(program).do = "invalidate" =>
                 Tail(program) \in {Stop4, Close3}
           /\ Tail(program) = <<>> => LastOp(Head(program), rests)
           /\ Head(program).do = "armLifecycle" => Head(program) \in arms
<1>1. CASE program \in {Stop1, Stop2, Stop3, Stop4, Stop5, AutoStop4, Close1, Close2, Close3,
                        Close4, Limit1, Limit2, Limit3}
  <2>1. /\ Head(program) \in {Change("STOPPED"), Change("STOPPING"), Cancel("window"),
                              Invalidate("noMotion"), Invalidate("lifecycle"),
                              Cancel("noMotion"), Simple("release"), Simple("autoStop"),
                              Simple("wait"), Simple("check")}
        /\ Tail(program) \in {<<>>, Stop1, Stop2, Stop3, Stop4, Close1, Close2, Close3, Limit1,
                              Limit2}
        /\ Head(program) = Invalidate("lifecycle") \/ program \notin {Stop5, Close4}
        /\ program \in {Stop5, Close4} => Tail(program) \in {Stop4, Close3}
    BY ZenonT(60), <1>1, StopParts, CloseParts, LifecycleParts DEF Parts
  <2>2. program \notin {Stop5, Close4} =>
           Head(program) \in {Change("STOPPED"), Change("STOPPING"), Cancel("window"),
                              Invalidate("noMotion"),
                              Cancel("noMotion"), Simple("release"), Simple("autoStop"),
                              Simple("wait"), Simple("check")}
    BY SMTT(30), <1>1, StopParts, CloseParts, LifecycleParts DEF Parts
  <2>3. Tail(program) = <<>> =>
           Head(program) \in {Change("STOPPED"), Simple("release"), Simple("autoStop")}
    BY ZenonT(60), <1>1, StopParts, CloseParts, LifecycleParts DEF Parts
  <2>4. /\ Head(program).do \notin {"update", "activate", "armLifecycle"}
        /\ program \notin {Stop5, Close4} => ~(CancelsLifecycle(Head(program)))
    BY <2>1, <2>2, OpValues DEF CancelsLifecycle
  <2>5. Tail(program) = <<>> => Head(program).do \in {"change", "release", "autoStop"}
    BY <2>3, OpValues
  <2>6. Fits(Tail(program), arms, rests)
    BY <2>1 DEF Fits
  <2> QED BY <2>1, <2>4, <2>5, <2>6 DEF LastOp
<1>2. ASSUME NEW arm \in arms,
             program \in {Then(Change("STARTING"), Arm2(arm)), Arm2(arm), Arm1(arm)}
      PROVE  /\ Fits(Tail(program), arms, rests)
             /\ Head(program).do \in {"change", "cancel", "armLifecycle"}
             /\ Tail(program) = <<>> => Head(program).do = "armLifecycle"
             /\ Head(program).do = "armLifecycle" => Head(program) \in arms
  <2>1. /\ Head(program) \in {Change("STARTING"), Cancel("lifecycle"), arm}
        /\ Tail(program) \in {<<>>, Arm1(arm), Arm2(arm)}
        /\ Tail(program) = <<>> => Head(program) = arm
        /\ arm.do = "armLifecycle"
    BY <1>2, ArmOps, ArmParts DEF Parts, GoesOnWith
  <2>2. Fits(Tail(program), arms, rests)
    BY <2>1 DEF Fits
  <2>3. /\ Head(program).do \in {"change", "cancel", "armLifecycle"}
        /\ Head(program).do = "armLifecycle" => Head(program) = arm
    BY <2>1, OpValues
  <2> QED BY <2>1, <2>2, <2>3
<1>3. ASSUME NEW rest \in rests,
             \/ program \in {Then(Change("STARTING"), Active(rest)), Active(rest), Delay1(rest),
                             Delay2(rest)}
             \/ program \in Activation(rest)
      PROVE  /\ Fits(Tail(program), arms, rests)
             /\ Head(program).do \notin {"armLifecycle", "invalidate"}
             /\ Head(program).do = "update" =>
                   /\ Fits(ScheduleActiveWindow \o Tail(program), arms, rests)
                   /\ ScheduleActiveWindow \o Tail(program) # <<>>
             /\ Head(program).do = "activate" =>
                   /\ Fits(Activate \o Tail(program), arms, rests)
                   /\ Activate \o Tail(program) # <<>>
             /\ Tail(program) = <<>> => LastOp(Head(program), rests)
  <2>1. rest \in Program
    BY RestHeads DEF GoesOnWith
  <2>2. program \in {Then(Change("STARTING"), Active(rest)), Active(rest), Update(rest),
                     Window2(rest), Window1(rest), Timer2(rest), Timer1(rest), Delay1(rest),
                     Delay2(rest)}
    BY <1>3 DEF Activation
  <2>3. Tail(program) \in {rest, Active(rest), Update(rest), Window1(rest), Timer2(rest),
                          Timer1(rest), Delay1(rest)}
    BY ZenonT(60), <2>1, <2>2, ActivationParts, LifecycleParts DEF Parts
  <2>4. Fits(rest, arms, rests)
    BY DEF Fits, GoesOnWith
  <2>5. Fits(Tail(program), arms, rests)
    BY <2>3, <2>4 DEF Fits, Activation
  <2>6. CASE program = Update(rest)
    <3>1. Head(program).do = "update" /\ Tail(program) = Timer2(rest) /\ Timer2(rest) # <<>>
      BY <2>1, <2>6, ActivationParts, OpValues DEF Parts
    <3>2. ScheduleActiveWindow \o Tail(program) = Window2(rest)
      BY <2>1, <3>1, ActivationUnfolds
    <3>3. Fits(Window2(rest), arms, rests)
      BY DEF Fits, Activation
    <3>4. Window2(rest) # <<>>
      BY <2>1, ActivationParts DEF Parts
    <3> QED BY <2>5, <3>1, <3>2, <3>3, <3>4
  <2>7. CASE program = Delay1(rest)
    <3>1. Head(program).do = "activate" /\ Tail(program) = rest
      BY <2>1, <2>7, LifecycleParts, OpValues DEF Parts
    <3>2. Activate \o Tail(program) = Active(rest)
      BY <2>1, <3>1, ActivationUnfolds
    <3>3. Fits(Active(rest), arms, rests)
      BY DEF Fits
    <3>4. Active(rest) # <<>>
      BY <2>1, ActivationParts DEF Parts
    <3> QED BY <2>5, <3>1, <3>2, <3>3, <3>4 DEF LastOp
  <2>8. CASE program \notin {Update(rest), Delay1(rest)}
    <3>1. Head(program) \in {Change("STARTED"), Change("STARTING"), Cancel("window"),
                             Cancel("noMotion"), Simple("armWindow"), Simple("armNoMotion"),
                             Simple("wait")}
      BY <2>1, <2>2, <2>8, ActivationParts, LifecycleParts DEF Parts
    <3>2. Head(program).do \notin {"update", "activate", "armLifecycle", "invalidate"}
      BY <3>1, OpValues
    <3>3. /\ program # Timer1(rest) => Tail(program) # <<>>
          /\ program = Timer1(rest) =>
                Tail(program) = rest /\ Head(program) = Simple("armNoMotion")
      <4>1. <<>> \notin {Active(rest), Update(rest), Window1(rest), Timer2(rest), Timer1(rest),
                        Delay1(rest)}
        BY <2>1, ActivationParts, LifecycleParts DEF Parts
      <4>2. program # Timer1(rest) =>
               Tail(program) \in {Active(rest), Update(rest), Window1(rest), Timer2(rest),
                                 Timer1(rest), Delay1(rest)}
        BY SMTT(30), <2>1, <2>2, <2>8, ActivationParts, LifecycleParts DEF Parts
      <4>3. program = Timer1(rest) =>
               Tail(program) = rest /\ Head(program) = Simple("armNoMotion")
        BY <2>1, ActivationParts DEF Parts
      <4> QED BY <4>1, <4>2, <4>3
    <3>4. program = Timer1(rest) => Head(program).do = "armNoMotion"
      BY <3>3, OpValues
    <3> QED BY <2>5, <3>2, <3>3, <3>4 DEF LastOp
  <2> QED BY <2>6, <2>7, <2>8
<1>4. CASE \E arm \in arms :
              program \in {Then(Change("STARTING"), Arm2(arm)), Arm2(arm), Arm1(arm)}
  BY <1>2, <1>4 DEF LastOp
<1>5. CASE \E rest \in rests :
             \/ program \in {Then(Change("STARTING"), Active(rest)), Active(rest), Delay1(rest),
                             Delay2(rest)}
             \/ program \in Activation(rest)
  BY <1>3, <1>5
<1> QED BY <1>1, <1>4, <1>5 DEF Fits

\* start() and the lifecycle thread it creates fit the session it begins.
LEMMA StartFits ==
    ASSUME NEW cfg \in StartConfig, NEW g \in 1..MaxGen,
           startConfig' = cfg, gen'["lifecycle"] = g
    PROVE  Fits(StartProgram(cfg, g), OwnArms', OwnRests')
<1>1. \A d \in BOOLEAN, s \in BOOLEAN :
         StartLifecycleTimer(g, d, s) = Arm2(ArmLifecycle(g, d, s))
  <2> SUFFICES ASSUME NEW d \in BOOLEAN, NEW s \in BOOLEAN
               PROVE  StartLifecycleTimer(g, d, s) = Arm2(ArmLifecycle(g, d, s))
    OBVIOUS
  <2>1. Cancel("lifecycle") \in Op /\ ArmLifecycle(g, d, s) \in Op /\ <<>> \in Program
    BY OpTypes, ProgramTypes DEF Kind
  <2>2. <<Cancel("lifecycle"), ArmLifecycle(g, d, s)>>
          = Then(Cancel("lifecycle"), Then(ArmLifecycle(g, d, s), <<>>))
    BY <2>1, TwoOps
  <2> QED BY <2>2 DEF StartLifecycleTimer, Arm2, Arm1
<1>2. cfg.activeStop \in BOOLEAN
  BY DEF StartConfig
<1>3. /\ ArmLifecycle(g, FALSE, TRUE) \in LimitOp
      /\ ArmLifecycle(g, TRUE, cfg.activeStop) \in DelayOp
  BY <1>2 DEF Op, ArmLifecycle, DelayOp, LimitOp
<1>4. /\ ArmLifecycle(g, FALSE, TRUE).timer = g /\ ArmLifecycle(g, FALSE, TRUE).stops
      /\ ArmLifecycle(g, TRUE, cfg.activeStop).timer = g
      /\ ArmLifecycle(g, TRUE, cfg.activeStop).stops = cfg.activeStop
  BY DEF ArmLifecycle
<1>5. /\ ArmLifecycle(g, FALSE, TRUE) \in OwnArms'
      /\ ArmLifecycle(g, TRUE, cfg.activeStop) \in OwnArms'
  BY <1>3, <1>4 DEF OwnArms, DelayOp, LimitOp
<1>6. CASE cfg.activeStart
  <2>1. StartLifecycleTimer(g, TRUE, cfg.activeStop) = Arm2(ArmLifecycle(g, TRUE, cfg.activeStop))
    BY <1>1, <1>2
  <2>2. StartProgram(cfg, g)
          = Then(Change("STARTING"), Arm2(ArmLifecycle(g, TRUE, cfg.activeStop)))
    BY <1>6, <2>1 DEF StartProgram, Then
  <2> QED BY <1>5, <2>2 DEF Fits
<1>7. ASSUME NEW rest \in StartRest, rest \in OwnRests',
             StartProgram(cfg, g) = <<Change("STARTING")>> \o (Activate \o rest)
      PROVE  Fits(StartProgram(cfg, g), OwnArms', OwnRests')
  <2>1. StartProgram(cfg, g) = Then(Change("STARTING"), Active(rest))
    BY <1>7, RestPrograms, ActivationUnfolds DEF Then
  <2> QED BY <1>7, <2>1 DEF Fits
<1>8. CASE ~cfg.activeStart /\ cfg.activeStop
  <2>1. StartLifecycleTimer(g, FALSE, TRUE) = Arm2(ArmLifecycle(g, FALSE, TRUE))
    BY <1>1
  <2>2. Arm2(ArmLifecycle(g, FALSE, TRUE)) \in StartRest
    BY <1>3 DEF StartRest
  <2>3. Arm2(ArmLifecycle(g, FALSE, TRUE)) \in OwnRests'
    BY <1>5, <2>2 DEF OwnRests
  <2> QED BY <1>7, <1>8, <2>1, <2>2, <2>3 DEF StartProgram
<1>9. CASE ~cfg.activeStart /\ ~cfg.activeStop
  <2>1. <<>> \in StartRest
    BY DEF StartRest
  <2>2. <<>> \in OwnRests'
    BY <1>9, <2>1 DEF OwnRests
  <2> QED BY <1>7, <1>9, <2>1, <2>2 DEF StartProgram
<1> QED BY <1>6, <1>8, <1>9

LEMMA ThreadFits ==
    ASSUME NEW arm \in OwnArms, startConfig.activeStop \in BOOLEAN
    PROVE  /\ Fits(LifecycleProgram(arm.delayed, arm.stops), {}, ThreadRests)
           /\ LifecycleProgram(arm.delayed, arm.stops) # <<>>
<1>1. arm \in Op /\ arm.do = "armLifecycle"
  BY ArmOps DEF OwnArms
<1>2. arm.delayed \in BOOLEAN /\ arm.stops \in BOOLEAN
  BY <1>1, OpFields
<1>3. PICK stops \in BOOLEAN : stops = arm.stops
  BY <1>2
<1>4. CASE arm.delayed
  <2>1. LifecycleProgram(arm.delayed, arm.stops) = LifecycleProgram(TRUE, stops)
    BY <1>2, <1>3, <1>4
  <2>2. /\ Simple("wait") \in Op /\ Simple("activate") \in Op /\ Simple("autoStop") \in Op
        /\ <<>> \in Program
    BY OpTypes, ProgramTypes DEF SimpleNames
  <2>3. \A rest \in Program : <<Simple("wait"), Simple("activate")>> \o rest = Delay2(rest)
    BY <2>2, TwoOps DEF Delay2, Delay1
  <2>4. <<Simple("wait"), Simple("autoStop")>> = Limit2
    BY <2>2, TwoOps DEF Limit2, Limit1
  <2>5. CASE stops
    <3>1. Limit2 \in ThreadRests
      <4>1. Limit2 # <<>>
        BY LifecycleParts DEF Parts
      <4> QED BY <4>1 DEF ThreadRests, LifecycleRest
    <3>2. Limit2 \in Program
      BY RestPrograms DEF LifecycleRest
    <3>3. LifecycleProgram(TRUE, stops) = Delay2(Limit2)
      BY <2>3, <2>4, <2>5, <3>2 DEF LifecycleProgram
    <3>4. Delay2(Limit2) # <<>>
      BY <3>2, LifecycleParts DEF Parts
    <3> QED BY <2>1, <3>1, <3>3, <3>4 DEF Fits
  <2>6. CASE ~stops
    <3>1. <<>> \in ThreadRests
      BY <1>3, <2>6 DEF ThreadRests, LifecycleRest, OwnArms
    <3>2. LifecycleProgram(TRUE, stops) = Delay2(<<>>)
      BY <2>2, <2>3, <2>6 DEF LifecycleProgram
    <3>3. Delay2(<<>>) # <<>>
      BY <2>2, LifecycleParts DEF Parts
    <3> QED BY <2>1, <3>1, <3>2, <3>3 DEF Fits
  <2> QED BY <2>5, <2>6
<1>5. CASE ~arm.delayed
  <2>1. arm.stops
    BY <1>5 DEF OwnArms, DelayOp, LimitOp
  <2>2. LifecycleProgram(arm.delayed, arm.stops) = LifecycleProgram(FALSE, TRUE)
    BY <1>2, <1>5, <2>1
  <2>3. LifecycleProgram(FALSE, TRUE) = Limit3 /\ Limit3 # <<>>
    BY LifecycleUnfolds, LifecycleParts DEF Parts
  <2> QED BY <2>2, <2>3 DEF Fits
<1> QED BY <1>4, <1>5

\* What fits depends on the settings of the session and on its generation.
LEMMA SettingsFit ==
    ASSUME startConfig' = startConfig
    PROVE  /\ ThreadRests' = ThreadRests
           /\ gen'["lifecycle"] = gen["lifecycle"] => OwnArms' = OwnArms /\ OwnRests' = OwnRests
           /\ \A t : t \notin ClientThreads \/ gen'["lifecycle"] = gen["lifecycle"] =>
                 ArmsOf(t)' = ArmsOf(t) /\ RestsOf(t)' = RestsOf(t)
<1>1. ThreadRests' = ThreadRests
  BY DEF ThreadRests
<1>2. gen'["lifecycle"] = gen["lifecycle"] => OwnArms' = OwnArms
  BY DEF OwnArms
<1>3. gen'["lifecycle"] = gen["lifecycle"] => OwnRests' = OwnRests
  BY <1>2 DEF OwnRests
<1> QED BY <1>1, <1>2, <1>3 DEF ArmsOf, RestsOf

\* The lifecycle thread that start() creates is in charge of the session.
LEMMA ArmsTheSession ==
    ASSUME SingleClient, Types, OneClientInv, ProgramsFit, NEW t \in ClientThreads,
           ArmLifecycleTimer(t)
    PROVE  \E g \in 1..MaxGen :
              /\ gen["lifecycle"] = g /\ gen'["lifecycle"] = g
              /\ handle'["lifecycle"] = LifecycleThread(g) /\ ~cancelled'["lifecycle"]
              /\ UNCHANGED <<state, startConfig>>
              /\ todo'[t] = Tail(todo[t])
              /\ Fits(todo'[LifecycleThread(g)], {}, ThreadRests)
              /\ todo'[LifecycleThread(g)] # <<>>
              /\ \A u \in SessionThread :
                    u # t /\ u # LifecycleThread(g) => todo'[u] = todo[u] /\ at'[u] = at[u]
<1>1. /\ t \in Thread /\ t \in SessionThread /\ SessionThread \subseteq Thread
      /\ Runs(t, "armLifecycle") /\ todo[t] # <<>> /\ Head(todo[t]).do = "armLifecycle"
      /\ UNCHANGED <<state, startConfig>>
  BY Roles, SessionThreads DEF ArmLifecycleTimer, Runs, sensorVars
<1>2. handle["lifecycle"] = Nobody
  BY <1>1, ArmPhase
<1>3. PICK arm \in OwnArms : arm = Head(todo[t])
  <2>1. Fits(todo[t], ArmsOf(t), RestsOf(t)) /\ GoesOnWith(ArmsOf(t), RestsOf(t))
    BY <1>1, SessionGoesOnWith DEF ProgramsFit
  <2>2. Head(todo[t]) \in ArmsOf(t)
    BY <1>1, <2>1, FitsGoesOn
  <2> QED BY <2>2, SessionGoesOnWith
<1>4. arm.timer \in 1..MaxGen /\ arm.timer = gen["lifecycle"]
  BY ArmOps DEF OwnArms
<1>5. PICK g \in 1..MaxGen : g = arm.timer
  BY <1>4
<1>6. PICK program : program = LifecycleProgram(arm.delayed, arm.stops)
  OBVIOUS
<1>7. Spawn(t, "lifecycle", g, "begin", program, Tail(todo[t]))
  BY <1>3, <1>5, <1>6 DEF ArmLifecycleTimer
<1>8. t # <<"lifecycle", g>> /\ "lifecycle" \in Kind /\ <<"lifecycle", g>> = LifecycleThread(g)
  BY Roles DEF Kind, LifecycleThread
<1>9. SpawnOutcome(t, "lifecycle", g, program, Tail(todo[t]))
  BY <1>1, <1>7, <1>8, SpawnMoves
<1>10. /\ handle'["lifecycle"] = LifecycleThread(g) /\ todo'[t] = Tail(todo[t])
       /\ todo'[LifecycleThread(g)] = program
       /\ \A u \in SessionThread :
             u # t /\ u # LifecycleThread(g) => todo'[u] = todo[u] /\ at'[u] = at[u]
  BY <1>1, <1>2, <1>8, <1>9 DEF SpawnOutcome
<1>11. ~cancelled'["lifecycle"] /\ gen'["lifecycle"] = gen["lifecycle"]
  <2>1. /\ cancelled' = [cancelled EXCEPT !["lifecycle"] = FALSE]
        /\ gen' = [gen EXCEPT !["lifecycle"] = gen["lifecycle"]]
    BY <1>7 DEF Spawn
  <2>2. cancelled \in [Kind -> BOOLEAN] /\ gen \in [Kind -> 0..MaxGen]
    BY DEF Types, TimersTypeOK
  <2> QED BY <1>8, <2>1, <2>2
<1>12. Fits(program, {}, ThreadRests) /\ program # <<>>
  <2>1. startConfig.activeStop \in BOOLEAN
    BY DEF Types, SensorTypeOK, StartConfig
  <2> QED BY <1>6, <2>1, ThreadFits
<1> QED BY <1>1, <1>4, <1>5, <1>10, <1>11, <1>12

LEMMA StepProgramsFit ==
    ASSUME SingleClient, Types, TimerInv, OneClientInv, ProgramsFit, NEW t \in Thread, Step(t)
    PROVE  ProgramsFit'
<1>0. SessionThread' = SessionThread /\ SessionThread \subseteq Thread
  BY SessionThreads DEF SessionThread
<1>1. startConfig' = startConfig
  BY StepsLeaveSettings
<1>2. ASSUME gen'["lifecycle"] = gen["lifecycle"],
             \A u \in SessionThread :
                 todo'[u] = todo[u] \/ Fits(todo'[u], ArmsOf(u), RestsOf(u))
      PROVE  ProgramsFit'
  <2>1. \A u \in SessionThread : Fits(todo'[u], ArmsOf(u), RestsOf(u))
    BY <1>2 DEF ProgramsFit
  <2>2. \A u : ArmsOf(u)' = ArmsOf(u) /\ RestsOf(u)' = RestsOf(u)
    BY <1>1, <1>2, SettingsFit
  <2> QED BY <1>0, <2>1, <2>2 DEF ProgramsFit
<1>3. CASE t \notin SessionThread \/ (Aside /\ OthersStay(t))
  <2>1. Aside
    BY <1>3, OtherStepsAreAside
  <2> QED BY <1>2, <2>1 DEF Aside, LifecycleTimerStays
<1>4. ASSUME t \in SessionThread, todo[t] # <<>>, ~CancelsLifecycle(Head(todo[t])) \/
                                                  Head(todo[t]).do # "invalidate",
             OthersStay(t),
             \/ todo'[t] = Tail(todo[t])
             \/ Head(todo[t]).do = "update" /\ todo'[t] = ScheduleActiveWindow \o Tail(todo[t])
      PROVE  ProgramsFit'
  <2>1. Fits(todo[t], ArmsOf(t), RestsOf(t)) /\ GoesOnWith(ArmsOf(t), RestsOf(t))
    BY <1>4, SessionGoesOnWith DEF ProgramsFit
  <2>2. Fits(todo'[t], ArmsOf(t), RestsOf(t))
    BY <1>4, <2>1, FitsGoesOn
  <2>3. gen'["lifecycle"] = gen["lifecycle"]
    <3>1. \/ gen'["lifecycle"] = gen["lifecycle"]
          \/ InvalidateTimer(t) /\ Head(todo[t]).timer = "lifecycle"
      BY StepsLeaveSettings
    <3> QED BY <1>4, <3>1 DEF InvalidateTimer, Runs, CancelsLifecycle
  <2> QED BY <1>2, <1>4, <2>2, <2>3 DEF OthersStay
<1>5. ASSUME t \in SessionThread, todo[t] # <<>>, CancelsLifecycle(Head(todo[t])),
             Head(todo[t]).do = "invalidate", OthersStay(t), todo'[t] = Tail(todo[t])
      PROVE  ProgramsFit'
  <2>1. t \in ClientThreads
    <3>1. ASSUME NEW g \in 1..MaxGen, t = LifecycleThread(g) PROVE FALSE
      BY <1>5, <3>1, LifecycleHead DEF OneClientInv, SessionInv, PlainOp, CancelsLifecycle
    <3> QED BY <1>5, <3>1 DEF SessionThread
  <2>2. Fits(todo[t], ArmsOf(t), RestsOf(t)) /\ GoesOnWith(ArmsOf(t), RestsOf(t))
    BY <1>5, SessionGoesOnWith DEF ProgramsFit
  <2>3. todo'[t] \in {Stop4, Close3}
    BY <1>5, <2>2, FitsGoesOn
  <2>4. Fits(todo'[t], ArmsOf(t)', RestsOf(t)')
    BY <2>3 DEF Fits
  <2>5. ASSUME NEW u \in SessionThread, u # t PROVE Fits(todo'[u], ArmsOf(u)', RestsOf(u)')
    <3>1. u \notin ClientThreads
      BY <2>1, <2>5 DEF SingleClient
    <3>2. ArmsOf(u)' = ArmsOf(u) /\ RestsOf(u)' = RestsOf(u)
      BY <1>1, <3>1, SettingsFit
    <3>3. todo'[u] = todo[u]
      BY <1>5, <2>5 DEF OthersStay
    <3> QED BY <3>2, <3>3 DEF ProgramsFit
  <2> QED BY <1>0, <2>4, <2>5 DEF ProgramsFit
<1>6. CASE t \in SessionThread /\ (Advances(t) \/ Updates(t))
  <2>1. /\ todo[t] # <<>> /\ OthersStay(t)
        /\ \/ todo'[t] = Tail(todo[t])
           \/ Head(todo[t]).do = "update" /\ todo'[t] = ScheduleActiveWindow \o Tail(todo[t])
    BY <1>6 DEF Advances, Updates, GoesOn
  <2> QED BY <1>4, <1>5, <1>6, <2>1
<1>7. CASE t \in SessionThread /\ ChangeState(t)
  <2>1. /\ todo[t] # <<>> /\ Head(todo[t]).do = "change" /\ MovesOnly(t, Tail(todo[t]))
    BY <1>7, Moves DEF ChangeState, Runs
  <2>2. OthersStay(t) /\ todo'[t] = Tail(todo[t])
    BY <1>0, <2>1 DEF MovesOnly, OthersStay
  <2> QED BY <1>4, <1>7, <2>1, <2>2
<1>8. CASE t \in ClientThreads /\ ArmLifecycleTimer(t)
  <2>1. PICK g \in 1..MaxGen :
              /\ gen["lifecycle"] = g /\ gen'["lifecycle"] = g
              /\ todo'[t] = Tail(todo[t])
              /\ Fits(todo'[LifecycleThread(g)], {}, ThreadRests)
              /\ \A u \in SessionThread : u # t /\ u # LifecycleThread(g) => todo'[u] = todo[u]
    BY <1>8, ArmsTheSession
  <2>2. /\ t \in SessionThread /\ todo[t] # <<>>
        /\ Fits(todo[t], ArmsOf(t), RestsOf(t)) /\ GoesOnWith(ArmsOf(t), RestsOf(t))
    BY <1>8, SessionThreads, SessionGoesOnWith DEF ProgramsFit, ArmLifecycleTimer, Runs
  <2>3. Fits(todo'[t], ArmsOf(t), RestsOf(t))
    BY <2>1, <2>2, FitsGoesOn
  <2>4. ArmsOf(LifecycleThread(g)) = {} /\ RestsOf(LifecycleThread(g)) = ThreadRests
    BY Roles DEF ArmsOf, RestsOf
  <2> QED BY <1>2, <2>1, <2>3, <2>4
<1> QED BY <1>3, <1>6, <1>7, <1>8, SessionSteps

LEMMA NextProgramsFit ==
    ASSUME SingleClient, Types, TimerInv, OneClientInv, ProgramsFit, [Next]_vars
    PROVE  ProgramsFit'
<1>0. SessionThread' = SessionThread /\ SessionThread \subseteq Thread
  BY SessionThreads DEF SessionThread
<1>1. ASSUME startConfig' = startConfig, gen'["lifecycle"] = gen["lifecycle"],
             \A u \in SessionThread :
                 todo'[u] = todo[u] \/ Fits(todo'[u], ArmsOf(u), RestsOf(u))
      PROVE  ProgramsFit'
  <2>1. \A u \in SessionThread : Fits(todo'[u], ArmsOf(u), RestsOf(u))
    BY <1>1 DEF ProgramsFit
  <2>2. \A u : ArmsOf(u)' = ArmsOf(u) /\ RestsOf(u)' = RestsOf(u)
    BY <1>1, SettingsFit
  <2> QED BY <1>0, <2>1, <2>2 DEF ProgramsFit
<1>2. ASSUME NEW g \in 1..MaxGen, TimerStep("lifecycle", g) PROVE ProgramsFit'
  <2>1. PICK t : t = LifecycleThread(g)
    OBVIOUS
  <2>2. /\ t \in SessionThread /\ OthersStay(t) /\ startConfig' = startConfig
        /\ gen'["lifecycle"] = gen["lifecycle"]
        /\ \/ todo'[t] \in {todo[t], <<>>, AutoStop4}
           \/ /\ todo[t] # <<>> /\ Head(todo[t]).do \in {"wait", "check"}
              /\ todo'[t] = Tail(todo[t])
           \/ /\ todo[t] # <<>> /\ Head(todo[t]).do = "activate"
              /\ todo'[t] = Activate \o Tail(todo[t])
    BY <1>2, <2>1, SessionThreads, LifecycleTimerSteps DEF Aside, LifecycleTimerStays
  <2>3. Fits(todo[t], ArmsOf(t), RestsOf(t)) /\ GoesOnWith(ArmsOf(t), RestsOf(t))
    BY <2>2, SessionGoesOnWith DEF ProgramsFit
  <2>4. todo[t] # <<>> =>
           /\ Fits(Tail(todo[t]), ArmsOf(t), RestsOf(t))
           /\ Head(todo[t]).do = "activate" =>
                 Fits(Activate \o Tail(todo[t]), ArmsOf(t), RestsOf(t))
    BY <2>3, FitsGoesOn
  <2>5. Fits(<<>>, ArmsOf(t), RestsOf(t)) /\ Fits(AutoStop4, ArmsOf(t), RestsOf(t))
    BY DEF Fits
  <2>6. Fits(todo'[t], ArmsOf(t), RestsOf(t))
    BY <2>2, <2>3, <2>4, <2>5
  <2> QED BY <1>1, <2>2, <2>6 DEF OthersStay
<1>3. ASSUME NEW k \in Kind, k # "lifecycle", NEW g \in 1..MaxGen, TimerStep(k, g)
      PROVE  ProgramsFit'
  BY <1>1, <1>3, OtherTimerStepsAreAside DEF Aside, LifecycleTimerStays, GenerationKind
<1>4. ASSUME NEW t \in Thread, Stop(t) \/ Close(t) PROVE ProgramsFit'
  <2>1. PICK program \in {Stop5, Close4} : MovesOnly(t, program)
    BY <1>4, CallMoves, StopUnfolds DEF OneClientInv
  <2>2. \A u \in SessionThread : Fits(program, ArmsOf(u), RestsOf(u))
    BY DEF Fits
  <2>3. startConfig' = startConfig /\ gen' = gen
    BY <1>4 DEF Stop, Close, sensorVars, timerVars
  <2> QED BY <1>0, <1>1, <2>1, <2>2, <2>3 DEF MovesOnly
<1>5. ASSUME NEW t \in Thread, NEW cfg \in Configs, Start(t, cfg) PROVE ProgramsFit'
  <2>1. cfg \in StartConfig /\ gen["lifecycle"] + 1 \in 1..MaxGen
    <3>1. gen["lifecycle"] \in 0..MaxGen /\ gen["lifecycle"] < MaxGen
      BY <1>5 DEF Start, Types, TimersTypeOK, Kind
    <3> QED BY <3>1, Bounds, ConfigAssumption
  <2>2. PICK g \in 1..MaxGen : g = gen["lifecycle"] + 1
    BY <2>1
  <2>3. /\ MovesOnly(t, StartProgram(cfg, g)) /\ t \in ClientThreads /\ state = "STOPPED"
        /\ startConfig' = cfg /\ gen'["lifecycle"] = g
    BY <1>5, <2>2, CallMoves DEF OneClientInv, Start, Types, TimersTypeOK, Kind
  <2>4. Fits(StartProgram(cfg, g), OwnArms', OwnRests')
    BY <2>1, <2>3, StartFits
  <2>5. ASSUME NEW u \in SessionThread, u # t PROVE todo'[u] = <<>>
    <3>1. PICK h \in 1..MaxGen : u = LifecycleThread(h)
      BY <2>3, <2>5 DEF SessionThread, SingleClient
    <3>2. todo[u] = <<>>
      BY <2>3, <3>1, OneLifecycleThread
    <3> QED BY <1>0, <2>3, <2>5, <3>2 DEF MovesOnly
  <2>6. \A u \in SessionThread : u # t => Fits(todo'[u], ArmsOf(u)', RestsOf(u)')
    BY <2>5 DEF Fits
  <2>7. Fits(todo'[t], ArmsOf(t)', RestsOf(t)')
    BY <2>3, <2>4 DEF MovesOnly, ArmsOf, RestsOf
  <2> QED BY <1>0, <2>6, <2>7 DEF ProgramsFit
<1>6. ASSUME NEW t \in InjectThreads, InjectMotionEvent(t) PROVE ProgramsFit'
  <2>1. t \in Thread /\ t \notin SessionThread
    BY Roles, SessionThreads
  <2>2. MovesOnly(t, <<Inject(stamps + 1)>>) /\ startConfig' = startConfig /\ gen' = gen
    BY <1>6, <2>1, CallMoves DEF OneClientInv, InjectMotionEvent, sensorVars, timerVars
  <2> QED BY <1>0, <1>1, <2>1, <2>2 DEF MovesOnly
<1>7. ASSUME NEW t \in Thread, Open(t) \/ SetActiveWindows(t) PROVE ProgramsFit'
  BY <1>1, <1>7 DEF Open, SetActiveWindows, threadVars, timerVars
<1>8. ASSUME NEW l \in Listeners, RegisterEventListener(l) \/ UnregisterEventListener(l)
      PROVE  ProgramsFit'
  BY <1>1, <1>8 DEF RegisterEventListener, UnregisterEventListener, threadVars, timerVars
<1>9. CASE ClientDies \/ DeathNotice
  BY <1>9 DEF ClientDies, DeathNotice, SingleClient
<1>10. CASE Rest \/ UNCHANGED vars
  BY <1>1, <1>10 DEF Rest, vars, threadVars, sensorVars, timerVars
<1> QED BY <1>2, <1>3, <1>4, <1>5, <1>6, <1>7, <1>8, <1>9, <1>10, StepProgramsFit
     DEF Next, ClientCall

\* The operations that an activation ends with belong to a session that is
\* active.
LEMMA ActivationsAreActive ==
    ASSUME SessionInv, NEW t \in SessionThread, todo[t] # <<>>,
           Head(todo[t]).do \in {"update", "armWindow", "armNoMotion"}
    PROVE  state = "STARTED"
<1>1. PICK program : program = todo[t]
  OBVIOUS
<1>2. program \notin {Stop1, Stop2, Stop3, Stop4, Stop5, AutoStop4, Close1, Close2, Close3,
                      Close4, Limit1, Limit2, Limit3}
  <2>1. \A p \in {Stop1, Stop2, Stop3, Stop4, Stop5, AutoStop4, Close1, Close2, Close3, Close4,
                  Limit1, Limit2, Limit3} :
           Head(p) \in {Change("STOPPED"), Change("STOPPING"), Cancel("window"),
                        Invalidate("noMotion"), Invalidate("lifecycle"), Cancel("noMotion"),
                        Simple("release"), Simple("autoStop"), Simple("wait"), Simple("check")}
    BY SMTT(30), StopParts, CloseParts, LifecycleParts DEF Parts
  <2>2. \A p \in {Stop1, Stop2, Stop3, Stop4, Stop5, AutoStop4, Close1, Close2, Close3, Close4,
                  Limit1, Limit2, Limit3} :
           Head(p).do \notin {"update", "armWindow", "armNoMotion"}
    BY SMTT(30), <2>1, OpValues
  <2> QED BY <1>1, <2>2
<1>3. ASSUME NEW arm \in DelayOp \cup LimitOp
      PROVE  program \notin {Then(Change("STARTING"), Arm2(arm)), Arm2(arm), Arm1(arm)}
  <2>1. \A p \in {Then(Change("STARTING"), Arm2(arm)), Arm2(arm), Arm1(arm)} :
           Head(p) \in {Change("STARTING"), Cancel("lifecycle"), arm}
    BY ArmOps, ArmParts DEF Parts
  <2>2. \A p \in {Then(Change("STARTING"), Arm2(arm)), Arm2(arm), Arm1(arm)} :
           Head(p).do \notin {"update", "armWindow", "armNoMotion"}
    BY <2>1, ArmOps, OpValues
  <2> QED BY <1>1, <2>2
<1>4. ASSUME NEW rest \in ActiveRest
      PROVE  program \notin {Then(Change("STARTING"), Active(rest)), Active(rest), Delay1(rest),
                             Delay2(rest)}
  <2>1. rest \in Program
    BY RestHeads
  <2>2. \A p \in {Then(Change("STARTING"), Active(rest)), Active(rest), Delay1(rest),
                  Delay2(rest)} :
           Head(p) \in {Change("STARTING"), Change("STARTED"), Simple("activate"),
                        Simple("wait")}
    BY <2>1, ActivationParts, LifecycleParts DEF Parts
  <2>3. \A p \in {Then(Change("STARTING"), Active(rest)), Active(rest), Delay1(rest),
                  Delay2(rest)} :
           Head(p).do \notin {"update", "armWindow", "armNoMotion"}
    BY <2>2, OpValues
  <2> QED BY <1>1, <2>3
<1>5. CASE t \in ClientThreads
  <2>1. ClientPhase(t)
    BY <1>5 DEF SessionInv
  <2> QED BY <1>1, <1>2, <1>3, <1>4, <2>1 DEF ClientPhase, Beginning, Delaying, Activating,
       Limiting, Stopping, Closing, ActiveRest
<1>6. ASSUME NEW g \in 1..MaxGen, t = LifecycleThread(g) PROVE state = "STARTED"
  <2>1. LifecyclePhase(g)
    BY DEF SessionInv
  <2> QED BY <1>1, <1>2, <1>4, <1>6, <2>1 DEF LifecyclePhase, ActiveRest
<1> QED BY <1>5, <1>6 DEF SessionThread

-----------------------------------------------------------------------------
(* A session that has still to be activated, or to be stopped automatically,*)
(* has a lifecycle thread in charge of that.                                *)

\* What is left of the session is up to the lifecycle thread.
AwaitsLifecycle == state = "STARTING" \/ (state = "STARTED" /\ startConfig.activeStop)

\* The lifecycle thread g is the one that the code would recognise as its own.
InCharge(g) ==
    /\ handle["lifecycle"] = LifecycleThread(g)
    /\ todo[LifecycleThread(g)] # <<>>
    /\ ~cancelled["lifecycle"] /\ gen["lifecycle"] = g

LifecycleOwed ==
    /\ AwaitsLifecycle => \/ \E c \in ClientThreads : todo[c] # <<>>
                          \/ \E g \in 1..MaxGen : InCharge(g)
    /\ state = "STOPPING" => \E t \in SessionThread : todo[t] = Stop1

\* A session thread that is about to have nothing left to do leaves nothing
\* undone.
LEMMA NothingIsLeft ==
    ASSUME SingleClient, OneClientInv, ProgramsFit, NEW t \in SessionThread,
           todo[t] # <<>>, Tail(todo[t]) = <<>>, ~DecidingOp(Head(todo[t]))
    PROVE  ~AwaitsLifecycle
<1>1. Fits(todo[t], ArmsOf(t), RestsOf(t)) /\ GoesOnWith(ArmsOf(t), RestsOf(t))
  BY SessionGoesOnWith DEF ProgramsFit
<1>2. LastOp(Head(todo[t]), RestsOf(t))
  BY <1>1, FitsGoesOn
<1>3. \/ Head(todo[t]).do = "release"
      \/ Head(todo[t]).do = "armNoMotion" /\ <<>> \in RestsOf(t)
  BY <1>2 DEF LastOp, DecidingOp
<1>4. CASE Head(todo[t]).do = "release"
  <2>1. t \in ClientThreads
    <3>1. ASSUME NEW g \in 1..MaxGen, t = LifecycleThread(g) PROVE FALSE
      BY <1>4, <3>1, LifecycleHead DEF OneClientInv, SessionInv, PlainOp
    <3> QED BY <3>1 DEF SessionThread
  <2>2. ClientPhase(t)
    BY <2>1 DEF OneClientInv, SessionInv
  <2>3. state = "STOPPED"
    BY <1>4, <2>1, <2>2, ClientReleases
  <2> QED BY <2>3 DEF AwaitsLifecycle
<1>5. CASE Head(todo[t]).do = "armNoMotion" /\ <<>> \in RestsOf(t)
  <2>1. ~startConfig.activeStop
    BY <1>5, SessionGoesOnWith
  <2>2. state = "STARTED"
    BY <1>5, ActivationsAreActive DEF OneClientInv
  <2> QED BY <2>1, <2>2 DEF AwaitsLifecycle
<1> QED BY <1>3, <1>4, <1>5

\* start() goes on after it has announced the session.
LEMMA StartGoesOn ==
    ASSUME SingleClient, OneClientInv, NEW t \in SessionThread, todo[t] # <<>>,
           Head(todo[t]).do = "change", Head(todo[t]).to = "STARTING"
    PROVE  t \in ClientThreads /\ Tail(todo[t]) # <<>>
<1>1. state = "STOPPED"
  BY ChangesInOrder, OpValues, StopParts DEF Parts
<1>2. t \in ClientThreads
  <2>1. ASSUME NEW g \in 1..MaxGen, t = LifecycleThread(g) PROVE FALSE
    BY <1>1, <2>1, OneLifecycleThread
  <2> QED BY <2>1 DEF SessionThread
<1>3. PICK program : program = todo[t]
  OBVIOUS
<1>4. program \notin {Close4, Close3, Close2, Close1, Stop5, Stop4, Stop3, Stop2}
  <2>1. \A p \in {Close4, Close3, Close2, Close1, Stop5, Stop4, Stop3, Stop2} :
           Head(p) \in {Invalidate("lifecycle"), Invalidate("noMotion"), Cancel("window"),
                        Simple("release"), Change("STOPPING")}
    BY CloseParts, StopParts DEF Parts
  <2>2. \A p \in {Close4, Close3, Close2, Close1, Stop5, Stop4, Stop3, Stop2} :
           Head(p).do = "change" => Head(p).to # "STARTING"
    BY <2>1, OpValues
  <2> QED BY <1>3, <2>2
<1>5. Beginning(t)
  <2>1. ClientPhase(t)
    BY <1>2 DEF OneClientInv, SessionInv
  <2> QED BY <1>1, <1>3, <1>4, <2>1 DEF ClientPhase, Delaying, Activating, Limiting,
       Stopping, Closing
<1>6. \A arm \in DelayOp : Tail(Then(Change("STARTING"), Arm2(arm))) # <<>>
  BY ArmParts, ArmOps DEF Parts
<1>7. \A rest \in StartRest : Tail(Then(Change("STARTING"), Active(rest))) # <<>>
  BY RestPrograms, ActivationParts DEF Parts
<1> QED BY <1>2, <1>5, <1>6, <1>7 DEF Beginning


\* A lifecycle thread that is about to stop the session finds it active.
LEMMA AutoStopsActive ==
    ASSUME OneClientInv, NEW g \in 1..MaxGen, todo[LifecycleThread(g)] # <<>>,
           Head(todo[LifecycleThread(g)]).do = "autoStop"
    PROVE  state = "STARTED"
<1>1. PICK program : program = todo[LifecycleThread(g)]
  OBVIOUS
<1>2. program # Stop1
  <2>1. Head(Stop1) = Change("STOPPED")
    BY StopParts DEF Parts
  <2> QED BY <1>1, <2>1, OpValues
<1>3. \A rest \in LifecycleRest : program \notin {Delay2(rest), Delay1(rest), Active(rest)}
  <2>1. ASSUME NEW rest \in LifecycleRest, NEW p \in {Delay2(rest), Delay1(rest), Active(rest)}
        PROVE  Head(p) \in {Simple("wait"), Simple("activate"), Change("STARTED")}
    BY RestPrograms, LifecycleParts, ActivationParts DEF Parts
  <2>2. ASSUME NEW rest \in LifecycleRest, program \in {Delay2(rest), Delay1(rest), Active(rest)}
        PROVE  FALSE
    BY <1>1, <2>1, <2>2, OpValues
  <2> QED BY <2>2
<1>4. LifecyclePhase(g)
  BY DEF OneClientInv, SessionInv
<1> QED BY <1>1, <1>2, <1>3, <1>4 DEF LifecyclePhase

LEMMA WaitingHeads ==
    ASSUME NEW program, Waiting(program)
    PROVE  program # <<>> /\ Head(program).do \in {"activate", "autoStop"}
<1>1. program # <<>> /\ Head(program) \in {Simple("activate"), Simple("autoStop")}
  BY RestPrograms, LifecycleParts DEF Parts, Waiting
<1> QED BY <1>1, OpValues


LEMMA StepLifecycleOwed ==
    ASSUME SingleClient, Types, TimerInv, OneClientInv, ProgramsFit, LifecycleOwed,
           NEW t \in Thread, Step(t)
    PROVE  LifecycleOwed'
<1>0. /\ SessionThread' = SessionThread
      /\ \A c \in ClientThreads : c \in SessionThread
      /\ \A g \in 1..MaxGen : LifecycleThread(g) \in SessionThread
      /\ \A g \in 1..MaxGen : LifecycleThread(g)' = LifecycleThread(g)
      /\ Stop1' = Stop1
  BY SessionThreads DEF SessionThread, LifecycleThread
<1>1. ASSUME UNCHANGED <<state, startConfig>>, LifecycleTimerStays,
             \A u \in SessionThread :
                \/ todo'[u] = todo[u]
                \/ todo[u] # Stop1 /\ todo'[u] # <<>>
      PROVE  LifecycleOwed'
  <2>1. \A u \in SessionThread : todo[u] # <<>> => todo'[u] # <<>>
    BY <1>1
  <2>2. \A g \in 1..MaxGen : InCharge(g) => InCharge(g)'
    BY <1>0, <1>1, <2>1 DEF InCharge, LifecycleTimerStays
  <2>3. AwaitsLifecycle' <=> AwaitsLifecycle
    BY <1>1 DEF AwaitsLifecycle
  <2>4. \A u \in SessionThread : todo[u] = Stop1 => todo'[u] = Stop1
    BY <1>1
  <2> QED BY <1>0, <1>1, <2>1, <2>2, <2>3, <2>4 DEF LifecycleOwed
<1>2. CASE t \notin SessionThread \/ Aside
  <2>1. Aside
    BY <1>2, OtherStepsAreAside
  <2> QED BY <1>1, <2>1 DEF Aside
<1>3. Head(Stop1).do = "change"
  BY StopParts, OpValues DEF Parts
<1>4. ASSUME t \in SessionThread, Updates(t) PROVE LifecycleOwed'
  <2>1. Fits(todo[t], ArmsOf(t), RestsOf(t)) /\ GoesOnWith(ArmsOf(t), RestsOf(t))
    BY <1>4, SessionGoesOnWith DEF ProgramsFit
  <2>2. ScheduleActiveWindow \o Tail(todo[t]) # <<>>
    BY <1>4, <2>1, FitsGoesOn DEF Updates
  <2> QED BY <1>1, <1>3, <1>4, <2>2 DEF Updates, GoesOn, OthersStay
<1>5. ASSUME t \in SessionThread, Advances(t) PROVE LifecycleOwed'
  <2>1. /\ todo[t] # <<>> /\ ~DecidingOp(Head(todo[t])) /\ OthersStay(t)
        /\ todo'[t] = Tail(todo[t]) /\ UNCHANGED <<state, startConfig>>
        /\ CancelsLifecycle(Head(todo[t])) \/ LifecycleTimerStays
    BY <1>5 DEF Advances, GoesOn
  <2>2. todo[t] # Stop1
    BY <1>3, <2>1 DEF DecidingOp
  <2>3. \A u \in SessionThread : todo[u] = Stop1 => todo'[u] = Stop1
    BY <2>1, <2>2 DEF OthersStay
  <2>4. state' = "STOPPING" => \E u \in SessionThread : todo'[u] = Stop1
    BY <2>1, <2>3 DEF LifecycleOwed
  <2>5. AwaitsLifecycle' <=> AwaitsLifecycle
    BY <2>1 DEF AwaitsLifecycle
  <2>6. CASE Tail(todo[t]) = <<>>
    BY <1>0, <1>5, <2>1, <2>4, <2>5, <2>6, NothingIsLeft DEF LifecycleOwed
  <2>7. CASE Tail(todo[t]) # <<>> /\ t \in ClientThreads
    BY <1>0, <2>1, <2>4, <2>7 DEF LifecycleOwed
  <2>8. CASE Tail(todo[t]) # <<>> /\ t \notin ClientThreads
    <3>1. ~CancelsLifecycle(Head(todo[t]))
      <4>1. PICK g \in 1..MaxGen : t = LifecycleThread(g)
        BY <1>5, <2>8 DEF SessionThread
      <4> QED BY <2>1, <4>1, LifecycleHead
           DEF OneClientInv, SessionInv, PlainOp, CancelsLifecycle
    <3> QED BY <1>1, <2>1, <2>2, <2>8, <3>1 DEF OthersStay
  <2> QED BY <2>6, <2>7, <2>8
<1>6. ASSUME t \in SessionThread, ChangeState(t) PROVE LifecycleOwed'
  <2>1. /\ todo[t] # <<>> /\ Head(todo[t]).do = "change" /\ state' = Head(todo[t]).to
        /\ startConfig' = startConfig /\ UNCHANGED timerVars
    BY <1>6 DEF ChangeState, Runs
  <2>2. MovesOnly(t, Tail(todo[t]))
    BY <1>6, <2>1, Moves DEF ChangeState
  <2>3. todo'[t] = Tail(todo[t]) /\ \A u \in SessionThread : u # t => todo'[u] = todo[u]
    BY <2>2, SessionThreads DEF MovesOnly
  <2>4. CASE Head(todo[t]).to = "STARTING"
    <3>1. t \in ClientThreads /\ Tail(todo[t]) # <<>>
      BY <1>6, <2>1, <2>4, StartGoesOn
    <3> QED BY <1>0, <2>1, <2>3, <2>4, <3>1 DEF LifecycleOwed
  <2>5. CASE Head(todo[t]).to = "STARTED" /\ state = "STARTING"
    <3>1. Tail(todo[t]) # <<>>
      BY <1>6, <2>1, <2>5, StartsByActivation, UpdateHead
    <3>2. CASE t \in ClientThreads
      BY <1>0, <2>1, <2>3, <2>5, <3>1, <3>2 DEF LifecycleOwed
    <3>3. ASSUME NEW g \in 1..MaxGen, t = LifecycleThread(g) PROVE LifecycleOwed'
      <4>1. /\ \A c \in ClientThreads : todo[c] = <<>>
            /\ \A h \in 1..MaxGen : h # g => todo[LifecycleThread(h)] = <<>>
        BY <2>1, <2>5, <3>3, OneLifecycleThread
      <4>2. InCharge(g)
        BY <2>5, <4>1 DEF LifecycleOwed, AwaitsLifecycle, InCharge
      <4>3. InCharge(g)'
        BY <1>0, <2>1, <2>3, <3>1, <3>3, <4>2 DEF InCharge, timerVars
      <4> QED BY <1>0, <2>1, <2>5, <4>3 DEF LifecycleOwed
    <3> QED BY <1>6, <3>2, <3>3 DEF SessionThread
  <2>6. CASE Head(todo[t]).to = "STOPPING" /\ todo[t] = Stop2
    <3>1. todo'[t] = Stop1
      BY <2>3, <2>6, StopParts DEF Parts
    <3> QED BY <1>0, <1>6, <2>1, <2>6, <3>1 DEF LifecycleOwed, AwaitsLifecycle
  <2>7. CASE Head(todo[t]).to = "STOPPED"
    BY <2>1, <2>7 DEF LifecycleOwed, AwaitsLifecycle
  <2> QED BY <1>6, <2>1, <2>4, <2>5, <2>6, <2>7, ChangesInOrder
<1>7. ASSUME t \in ClientThreads, ArmLifecycleTimer(t) PROVE LifecycleOwed'
  <2>1. PICK g \in 1..MaxGen :
              /\ gen["lifecycle"] = g /\ gen'["lifecycle"] = g
              /\ handle'["lifecycle"] = LifecycleThread(g) /\ ~cancelled'["lifecycle"]
              /\ state' = state
              /\ todo'[LifecycleThread(g)] # <<>>
    BY <1>7, ArmsTheSession
  <2>2. InCharge(g)'
    BY <1>0, <2>1 DEF InCharge
  <2>3. state # "STOPPING"
    BY <1>7, ArmPhase DEF ArmLifecycleTimer, Delaying, Limiting
  <2> QED BY <1>0, <2>1, <2>2, <2>3 DEF LifecycleOwed
<1> QED BY <1>2, <1>4, <1>5, <1>6, <1>7, SessionSteps

LEMMA NextLifecycleOwed ==
    ASSUME SingleClient, Types, TimerInv, OneClientInv, SessionWaits, ProgramsFit,
           LifecycleOwed, [Next]_vars
    PROVE  LifecycleOwed'
<1>0. /\ SessionThread' = SessionThread /\ SessionThread \subseteq Thread
      /\ \A c \in ClientThreads : c \in SessionThread
      /\ \A g \in 1..MaxGen : LifecycleThread(g) \in SessionThread
      /\ \A g \in 1..MaxGen : LifecycleThread(g)' = LifecycleThread(g)
      /\ Stop1' = Stop1
  BY SessionThreads DEF SessionThread, LifecycleThread
<1>1. ASSUME UNCHANGED <<state, startConfig>>, LifecycleTimerStays,
             \A u \in SessionThread :
                \/ todo'[u] = todo[u]
                \/ todo[u] # Stop1 /\ todo'[u] # <<>>
      PROVE  LifecycleOwed'
  <2>1. \A u \in SessionThread : todo[u] # <<>> => todo'[u] # <<>>
    BY <1>1
  <2>2. \A g \in 1..MaxGen : InCharge(g) => InCharge(g)'
    BY <1>0, <1>1, <2>1 DEF InCharge, LifecycleTimerStays
  <2>3. AwaitsLifecycle' <=> AwaitsLifecycle
    BY <1>1 DEF AwaitsLifecycle
  <2>4. \A u \in SessionThread : todo[u] = Stop1 => todo'[u] = Stop1
    BY <1>1
  <2> QED BY <1>0, <1>1, <2>1, <2>2, <2>3, <2>4 DEF LifecycleOwed
<1>2. ASSUME NEW g \in 1..MaxGen, TimerStep("lifecycle", g) PROVE LifecycleOwed'
  <2>1. PICK t : t = LifecycleThread(g)
    OBVIOUS
  <2>2. /\ t \in SessionThread /\ OthersStay(t) /\ LifecycleTimerStays
        /\ UNCHANGED <<state, startConfig>>
        /\ \/ todo'[t] = todo[t]
           \/ /\ todo[t] # <<>> /\ Head(todo[t]).do \in {"wait", "check"}
              /\ todo'[t] = Tail(todo[t])
           \/ /\ todo[t] # <<>> /\ Head(todo[t]).do = "activate"
              /\ todo'[t] = Activate \o Tail(todo[t])
           \/ /\ todo[t] # <<>> /\ Head(todo[t]).do = "autoStop" /\ todo'[t] = AutoStop4
           \/ /\ todo[t] # <<>> /\ todo'[t] = <<>>
              /\ at[t] = "wait" \/ Head(todo[t]).do \in {"activate", "check", "autoStop"}
              /\ Superseded(g) \/ (Head(todo[t]).do = "autoStop" /\ state # "STARTED")
    BY <1>0, <1>2, <2>1, LifecycleTimerSteps DEF Aside
  <2>3. Fits(todo[t], ArmsOf(t), RestsOf(t)) /\ GoesOnWith(ArmsOf(t), RestsOf(t))
    BY <2>2, SessionGoesOnWith DEF ProgramsFit
  <2>4. Head(Stop1).do = "change"
    BY StopParts, OpValues DEF Parts
  <2>5. CASE todo'[t] # <<>> /\ todo[t] # Stop1
    BY <1>1, <2>2, <2>5 DEF OthersStay
  <2>6. CASE todo'[t] = todo[t]
    BY <1>1, <2>2, <2>6 DEF OthersStay
  <2>7. CASE todo[t] # <<>> /\ todo'[t] = <<>> /\ todo[t] # Stop1
             /\ (Superseded(g) \/ (Head(todo[t]).do = "autoStop" /\ state # "STARTED"))
    <3>1. \A u \in SessionThread : todo[u] = Stop1 => todo'[u] = Stop1
      BY <2>2, <2>7 DEF OthersStay
    <3>2. AwaitsLifecycle' <=> AwaitsLifecycle
      BY <2>2 DEF AwaitsLifecycle
    <3>3. AwaitsLifecycle => \E c \in ClientThreads : todo[c] # <<>>
      <4>1. \A h \in 1..MaxGen : h # g => todo[LifecycleThread(h)] = <<>>
        BY <2>1, <2>7, OneLifecycleThread
      <4>2. InCharge(g) => ~Superseded(g)
        BY DEF InCharge, Superseded
      <4>3. Head(todo[t]).do = "autoStop" => state = "STARTED"
        BY <2>1, <2>7, AutoStopsActive
      <4>4. \A h \in 1..MaxGen : ~InCharge(h)
        BY <2>7, <4>1, <4>2, <4>3 DEF InCharge
      <4> QED BY <4>4 DEF LifecycleOwed
    <3>4. \A c \in ClientThreads : todo'[c] = todo[c]
      BY <1>0, <2>1, <2>2, Roles DEF OthersStay
    <3> QED BY <1>0, <2>2, <3>1, <3>2, <3>3, <3>4 DEF LifecycleOwed
  <2>8. at[t] = "wait" => todo[t] # Stop1
    <3>1. at[t] = "wait" => Waiting(todo[t])
      BY <2>2 DEF SessionWaits
    <3> QED BY <2>4, <3>1, WaitingHeads
  <2>9. /\ todo[t] # <<>> /\ Head(todo[t]).do \in {"wait", "check"} => Tail(todo[t]) # <<>>
        /\ todo[t] # <<>> /\ Head(todo[t]).do = "activate" => Activate \o Tail(todo[t]) # <<>>
    BY <2>3, FitsGoesOn DEF LastOp
  <2>10. AutoStop4 # <<>>
    BY StopParts DEF Parts
  <2> QED BY <2>2, <2>4, <2>5, <2>6, <2>7, <2>8, <2>9, <2>10
<1>3. ASSUME NEW k \in Kind, k # "lifecycle", NEW g \in 1..MaxGen, TimerStep(k, g)
      PROVE  LifecycleOwed'
  BY <1>1, <1>3, OtherTimerStepsAreAside DEF Aside, GenerationKind
<1>4. ASSUME NEW t \in Thread, Stop(t) \/ Close(t) PROVE LifecycleOwed'
  <2>1. PICK program \in {Stop5, Close4} : MovesOnly(t, program)
    BY <1>4, CallMoves, StopUnfolds DEF OneClientInv
  <2>2. /\ UNCHANGED <<state, startConfig>> /\ UNCHANGED timerVars
        /\ t \in ClientThreads /\ todo[t] = <<>>
    BY <1>4, Callers DEF Stop, Close, sensorVars, OneClientInv
  <2>3. Stop5 # <<>> /\ Close4 # <<>> /\ Stop1 # <<>>
    BY StopParts, CloseParts DEF Parts
  <2> QED BY <1>0, <1>1, <2>1, <2>2, <2>3 DEF MovesOnly, LifecycleTimerStays, timerVars
<1>5. ASSUME NEW t \in Thread, NEW cfg \in Configs, Start(t, cfg) PROVE LifecycleOwed'
  BY <1>5 DEF Start, LifecycleOwed, AwaitsLifecycle
<1>6. ASSUME NEW t \in InjectThreads, InjectMotionEvent(t) PROVE LifecycleOwed'
  <2>1. t \in Thread /\ t \notin SessionThread
    BY Roles, SessionThreads
  <2>2. /\ MovesOnly(t, <<Inject(stamps + 1)>>) /\ UNCHANGED <<state, startConfig>>
        /\ UNCHANGED timerVars
    BY <1>6, <2>1, CallMoves DEF OneClientInv, InjectMotionEvent, sensorVars
  <2> QED BY <1>0, <1>1, <2>1, <2>2 DEF MovesOnly, LifecycleTimerStays, timerVars
<1>7. ASSUME NEW t \in Thread, Open(t) \/ SetActiveWindows(t) PROVE LifecycleOwed'
  BY <1>1, <1>7 DEF Open, SetActiveWindows, threadVars, timerVars, LifecycleTimerStays
<1>8. ASSUME NEW l \in Listeners, RegisterEventListener(l) \/ UnregisterEventListener(l)
      PROVE  LifecycleOwed'
  BY <1>1, <1>8 DEF RegisterEventListener, UnregisterEventListener, threadVars, timerVars,
     LifecycleTimerStays
<1>9. CASE ClientDies \/ DeathNotice
  BY <1>9 DEF ClientDies, DeathNotice, SingleClient
<1>10. CASE Rest \/ UNCHANGED vars
  BY <1>1, <1>10 DEF Rest, vars, threadVars, sensorVars, timerVars, LifecycleTimerStays
<1> QED BY <1>2, <1>3, <1>4, <1>5, <1>6, <1>7, <1>8, <1>9, <1>10, StepLifecycleOwed
     DEF Next, ClientCall

-----------------------------------------------------------------------------
(* An active session with windows has a thread that watches for the next    *)
(* boundary, or one that is about to arrange for it.                        *)

WindowThread(g) == <<"window", g>>

\* what is left of the window thread's function
Boundary1 == Then(Simple("boundary"), <<>>)
Boundary2 == Then(Simple("wait"), Boundary1)
Schedule1 == Then(Simple("armWindow"), <<>>)
Schedule2 == Then(Cancel("window"), Schedule1)
Update1 == Then(Simple("update"), <<>>)

WindowWork(program) ==
    program \in {<<>>, Boundary2, Boundary1, Update1, Schedule2, Schedule1}

\* Window threads run the window thread's function, and wait in it for a
\* boundary.
WindowPrograms ==
    \A g \in 1..MaxGen :
        /\ WindowWork(todo[WindowThread(g)])
        /\ at[WindowThread(g)] = "wait" => todo[WindowThread(g)] = Boundary1

\* The window thread g is on its way to the next boundary, and will be heard.
Watches(g) ==
    /\ handle["window"] = WindowThread(g)
    /\ ~cancelled["window"] /\ gen["window"] = g
    /\ todo[WindowThread(g)] \in {Boundary2, Boundary1}

\* A program that ends the session or gives it a new window thread.
Schedules(program) ==
    \/ program \in {Update1, Schedule2, Schedule1}
    \/ Ends(program)
    \/ \E rest \in ActiveRest : program \in {Update(rest), Window2(rest), Window1(rest)}

\* The threads that have to do with the windows.
WindowParty == SessionThread \cup {WindowThread(g) : g \in 1..MaxGen}

WindowOwed ==
    state = "STARTED" /\ hasWindows =>
        \/ \E t \in WindowParty : Schedules(todo[t])
        \/ \E g \in 1..MaxGen : Watches(g)

LEMMA WindowParts ==
    /\ Parts(Boundary1, Simple("boundary"), <<>>)
    /\ Parts(Boundary2, Simple("wait"), Boundary1)
    /\ Parts(Schedule1, Simple("armWindow"), <<>>)
    /\ Parts(Schedule2, Cancel("window"), Schedule1)
    /\ Parts(Update1, Simple("update"), <<>>)
<1>1. /\ Simple("boundary") \in Op /\ Simple("wait") \in Op /\ Simple("armWindow") \in Op
      /\ Simple("update") \in Op /\ Cancel("window") \in Op /\ <<>> \in Program
  BY OpTypes, ProgramTypes DEF SimpleNames, Kind
<1>2. Parts(Boundary1, Simple("boundary"), <<>>) /\ Parts(Schedule1, Simple("armWindow"), <<>>)
      /\ Parts(Update1, Simple("update"), <<>>)
  BY <1>1, ThenParts DEF Boundary1, Schedule1, Update1
<1>3. Parts(Boundary2, Simple("wait"), Boundary1)
  BY <1>1, <1>2, ThenParts DEF Boundary2, Parts
<1>4. Parts(Schedule2, Cancel("window"), Schedule1)
  BY <1>1, <1>2, ThenParts DEF Schedule2, Parts
<1> QED BY <1>2, <1>3, <1>4

LEMMA WindowUnfolds ==
    /\ WindowProgram = Boundary2
    /\ <<Simple("update")>> = Update1
    /\ ScheduleActiveWindow \o <<>> = Schedule2
<1>1. /\ Simple("boundary") \in Op /\ Simple("wait") \in Op /\ Simple("armWindow") \in Op
      /\ Simple("update") \in Op /\ Cancel("window") \in Op /\ <<>> \in Program
  BY OpTypes, ProgramTypes DEF SimpleNames, Kind
<1>2. WindowProgram = Boundary2
  BY <1>1, TwoOps, ProgramTypes DEF WindowProgram, Boundary2, Boundary1
<1>3. ScheduleActiveWindow \o <<>> = Schedule2
  BY <1>1, TwoOps DEF ScheduleActiveWindow, Schedule2, Schedule1
<1>4. <<Simple("update")>> = Update1
  BY <1>1, ProgramTypes, ConcatEmptySeq DEF Update1, Then, Program
<1> QED BY <1>2, <1>3, <1>4

\* What a window thread is about to do, and what is left afterwards.
LEMMA WindowHeads ==
    ASSUME NEW program, WindowWork(program), program # <<>>
    PROVE  /\ Head(program).do \in {"wait", "boundary", "update", "cancel", "armWindow"}
           /\ Head(program).do = "wait" => program = Boundary2 /\ Tail(program) = Boundary1
           /\ Head(program).do = "boundary" => program = Boundary1
           /\ Head(program).do = "update" => program = Update1 /\ Tail(program) = <<>>
           /\ Head(program).do = "cancel" =>
                 /\ program = Schedule2 /\ Tail(program) = Schedule1
                 /\ Head(program).timer = "window"
           /\ Head(program).do = "armWindow" => program = Schedule1 /\ Tail(program) = <<>>
<1>1. /\ program = Boundary2 => Head(program) = Simple("wait") /\ Tail(program) = Boundary1
      /\ program = Boundary1 => Head(program) = Simple("boundary")
      /\ program = Update1 => Head(program) = Simple("update") /\ Tail(program) = <<>>
      /\ program = Schedule2 => Head(program) = Cancel("window") /\ Tail(program) = Schedule1
      /\ program = Schedule1 => Head(program) = Simple("armWindow") /\ Tail(program) = <<>>
  BY WindowParts DEF Parts
<1>2. /\ program = Boundary2 => Head(program).do = "wait"
      /\ program = Boundary1 => Head(program).do = "boundary"
      /\ program = Update1 => Head(program).do = "update"
      /\ program = Schedule2 => Head(program).do = "cancel" /\ Head(program).timer = "window"
      /\ program = Schedule1 => Head(program).do = "armWindow"
  BY <1>1, OpValues
<1> QED BY <1>1, <1>2 DEF WindowWork

\* A program that schedules starts with one of these operations, and a cancel
\* leaves a program that schedules.
LEMMA SchedulesGoOn ==
    ASSUME NEW program, Schedules(program)
    PROVE  /\ program # <<>>
           /\ Head(program).do \in {"update", "armWindow", "cancel", "invalidate", "change"}
           /\ Head(program).do \in {"cancel", "invalidate"} => Schedules(Tail(program))
           /\ Head(program).do = "change" => Head(program).to = "STOPPING"
<1>1. CASE program \in {Update1, Schedule2, Schedule1}
  <2>1. WindowWork(program) /\ program # <<>>
    BY <1>1, WindowParts DEF WindowWork, Parts
  <2>2. Head(program).do \in {"update", "armWindow", "cancel"}
    <3>1. /\ Head(program) \in {Simple("update"), Simple("armWindow"), Cancel("window")}
      BY <1>1, WindowParts DEF Parts
    <3> QED BY <3>1, OpValues
  <2>3. Head(program).do \in {"cancel", "invalidate"} => Tail(program) = Schedule1
    BY <2>1, <2>2, WindowHeads
  <2> QED BY <2>1, <2>2, <2>3 DEF Schedules
<1>2. CASE Ends(program)
  <2>1. program # <<>> /\ Head(program).do \in {"invalidate", "cancel", "change"}
    BY <1>2, EndHeads
  <2>2. program # Stop2 => Tail(program) \in {Stop4, Stop3, Stop2}
    BY <1>2, StopParts DEF Ends, Parts
  <2>3. program = Stop2 => Head(program).do = "change" /\ Head(program).to = "STOPPING"
    BY StopParts, OpValues DEF Parts
  <2>4. program # Stop2 => Head(program).do # "change"
    <3>1. program # Stop2 => Head(program) \in {Invalidate("lifecycle"), Invalidate("noMotion"),
                                               Cancel("window"), Cancel("noMotion")}
      BY <1>2, StopParts DEF Ends, Parts
    <3> QED BY <3>1, OpValues
  <2> QED BY <2>1, <2>2, <2>3, <2>4 DEF Schedules, Ends
<1>3. ASSUME NEW rest \in ActiveRest, program \in {Update(rest), Window2(rest), Window1(rest)}
      PROVE  /\ program # <<>>
             /\ Head(program).do \in {"update", "armWindow", "cancel"}
             /\ Head(program).do = "cancel" => Schedules(Tail(program))
  <2>1. rest \in Program
    BY RestHeads
  <2>2. /\ program # <<>>
        /\ Head(program) \in {Simple("update"), Simple("armWindow"), Cancel("window")}
        /\ Head(program) = Cancel("window") \/ program # Window2(rest)
        /\ program = Window2(rest) => Tail(program) = Window1(rest)
        /\ program # Window2(rest) => Head(program) \in {Simple("update"), Simple("armWindow")}
    BY <1>3, <2>1, ActivationParts DEF Parts
  <2>3. /\ Head(program).do \in {"update", "armWindow", "cancel"}
        /\ program # Window2(rest) => Head(program).do # "cancel"
    BY <2>2, OpValues
  <2> QED BY <2>2, <2>3 DEF Schedules
<1> QED BY <1>1, <1>2, <1>3 DEF Schedules


\* How the threads of the session arrange for the next boundary.
LEMMA SessionSchedules ==
    ASSUME NEW program, SessionProgram(program), program # <<>>
    PROVE  /\ Head(program).do = "update" => Schedules(ScheduleActiveWindow \o Tail(program))
           /\ Head(program).do = "armWindow" => Schedules(program)
           /\ /\ Head(program).do \in {"cancel", "invalidate"}
              /\ Head(program).timer = "window"
              => Schedules(Tail(program)) \/ program = Close2
<1>1. CASE program \in {Stop1, Stop2, Stop3, Stop4, Stop5, AutoStop4, Close1, Close2, Close3,
                        Close4, Limit1, Limit2, Limit3}
  <2>1. /\ Head(program) \in {Change("STOPPED"), Change("STOPPING"), Cancel("window"),
                              Invalidate("noMotion"), Invalidate("lifecycle"),
                              Cancel("noMotion"), Simple("release"), Simple("autoStop"),
                              Simple("wait"), Simple("check")}
        /\ program \notin {Stop3, Close2} =>
              Head(program) \in {Change("STOPPED"), Change("STOPPING"),
                              Invalidate("noMotion"), Invalidate("lifecycle"),
                              Cancel("noMotion"), Simple("release"), Simple("autoStop"),
                              Simple("wait"), Simple("check")}
        /\ program = Stop3 => Tail(program) = Stop2
    BY ZenonT(60), <1>1, StopParts, CloseParts, LifecycleParts DEF Parts
  <2>2. /\ Head(program).do \notin {"update", "armWindow"}
        /\ program \notin {Stop3, Close2} /\ Head(program).do \in {"cancel", "invalidate"} =>
              Head(program).timer # "window"
    BY <2>1, OpValues
  <2>3. Schedules(Stop2)
    BY DEF Schedules, Ends
  <2> QED BY <2>1, <2>2, <2>3
<1>2. ASSUME NEW arm \in DelayOp \cup LimitOp,
             program \in {Then(Change("STARTING"), Arm2(arm)), Arm2(arm), Arm1(arm)}
      PROVE  /\ Head(program).do \notin {"update", "armWindow"}
             /\ Head(program).do \in {"cancel", "invalidate"} => Head(program).timer # "window"
  <2>1. Head(program) \in {Change("STARTING"), Cancel("lifecycle"), arm}
    BY <1>2, ArmOps, ArmParts DEF Parts
  <2> QED BY <2>1, ArmOps, OpValues
<1>3. ASSUME NEW rest \in ActiveRest,
             program \in {Then(Change("STARTING"), Active(rest)), Active(rest), Delay1(rest),
                          Delay2(rest)} \cup Activation(rest)
      PROVE  /\ Head(program).do = "update" => Schedules(ScheduleActiveWindow \o Tail(program))
             /\ Head(program).do = "armWindow" => Schedules(program)
             /\ /\ Head(program).do \in {"cancel", "invalidate"}
                /\ Head(program).timer = "window"
                => Schedules(Tail(program))
  <2>1. rest \in Program
    BY RestHeads
  <2>2. CASE program = Update(rest)
    <3>1. Head(program) = Simple("update") /\ Tail(program) = Timer2(rest)
      BY <2>1, <2>2, ActivationParts DEF Parts
    <3>2. ScheduleActiveWindow \o Tail(program) = Window2(rest)
      BY <2>1, <3>1, ActivationUnfolds
    <3>3. Head(program).do = "update"
      BY <3>1, OpValues
    <3> QED BY <3>2, <3>3 DEF Schedules
  <2>3. CASE program = Window2(rest)
    <3>1. Head(program) = Cancel("window") /\ Tail(program) = Window1(rest)
      BY <2>1, <2>3, ActivationParts DEF Parts
    <3>2. Head(program).do = "cancel"
      BY <3>1, OpValues
    <3> QED BY <3>1, <3>2 DEF Schedules
  <2>4. CASE program = Window1(rest)
    <3>1. Head(program) = Simple("armWindow")
      BY <2>1, <2>4, ActivationParts DEF Parts
    <3>2. Head(program).do = "armWindow"
      BY <3>1, OpValues
    <3> QED BY <2>4, <3>2 DEF Schedules
  <2>5. CASE program \notin {Update(rest), Window2(rest), Window1(rest)}
    <3>1. Head(program) \in {Change("STARTED"), Change("STARTING"), Cancel("noMotion"),
                             Simple("armNoMotion"), Simple("wait"), Simple("activate")}
      BY <1>3, <2>1, <2>5, ActivationParts, LifecycleParts DEF Parts, Activation
    <3>2. /\ Head(program).do \notin {"update", "armWindow"}
          /\ Head(program).do \in {"cancel", "invalidate"} => Head(program).timer # "window"
      BY <3>1, OpValues
    <3> QED BY <3>2
  <2> QED BY <2>2, <2>3, <2>4, <2>5
<1>4. CASE \E arm \in DelayOp \cup LimitOp :
              program \in {Then(Change("STARTING"), Arm2(arm)), Arm2(arm), Arm1(arm)}
  BY <1>2, <1>4
<1>5. CASE \E rest \in ActiveRest :
              program \in {Then(Change("STARTING"), Active(rest)), Active(rest), Delay1(rest),
                          Delay2(rest)} \cup Activation(rest)
  BY <1>3, <1>5
<1> QED BY <1>1, <1>4, <1>5 DEF SessionProgram

\* close() cancels the window thread of a sensor that is stopped.
LEMMA ClosesWhenStopped ==
    ASSUME SingleClient, OneClientInv, NEW t \in SessionThread, todo[t] = Close2
    PROVE  state = "STOPPED"
<1>1. /\ Close2 # <<>> /\ Head(Close2) = Cancel("window") /\ Tail(Close2) = Close1
      /\ Head(Close1) = Simple("release")
  BY CloseParts DEF Parts
<1>2. Close2 \notin {Stop1, Stop2, Stop3, Stop4, Stop5, AutoStop4, Limit1, Limit2, Limit3}
  <2>1. \A p \in {Stop1, Stop2, Stop4, Stop5, AutoStop4, Limit1, Limit2, Limit3} :
           Head(p) \in {Change("STOPPED"), Change("STOPPING"), Invalidate("noMotion"),
                        Invalidate("lifecycle"), Cancel("noMotion"), Simple("autoStop"),
                        Simple("wait"), Simple("check")}
    BY StopParts, LifecycleParts DEF Parts
  <2>2. Tail(Stop3) = Stop2 /\ Head(Stop2) = Change("STOPPING")
    BY StopParts DEF Parts
  <2>3. Simple("release") # Change("STOPPING")
        /\ Cancel("window") \notin {Change("STOPPED"), Change("STOPPING"),
                                    Invalidate("noMotion"), Invalidate("lifecycle"),
                                    Cancel("noMotion"), Simple("autoStop"), Simple("wait"),
                                    Simple("check")}
    <3>1. \A op \in {Change("STOPPED"), Change("STOPPING"), Invalidate("noMotion"),
                     Invalidate("lifecycle"), Simple("autoStop"), Simple("wait"),
                     Simple("check")} : op.do # "cancel"
      BY OpValues
    <3>2. Cancel("window").do = "cancel" /\ Cancel("window").timer # Cancel("noMotion").timer
      BY OpValues
    <3>3. Simple("release").do # Change("STOPPING").do
      BY OpValues
    <3> QED BY <3>1, <3>2, <3>3
  <2> QED BY <1>1, <2>1, <2>2, <2>3
<1>3. ASSUME NEW arm \in DelayOp \cup LimitOp
      PROVE  Close2 \notin {Then(Change("STARTING"), Arm2(arm)), Arm2(arm), Arm1(arm)}
  <2>1. \A p \in {Then(Change("STARTING"), Arm2(arm)), Arm2(arm), Arm1(arm)} :
           Head(p) \in {Change("STARTING"), Cancel("lifecycle"), arm}
    BY ArmOps, ArmParts DEF Parts
  <2>2. \A op \in {Change("STARTING"), Cancel("lifecycle"), arm} : op # Cancel("window")
    BY ArmOps, OpValues
  <2> QED BY <1>1, <2>1, <2>2
<1>4. ASSUME NEW rest \in ActiveRest
      PROVE  Close2 \notin {Then(Change("STARTING"), Active(rest)), Active(rest), Delay1(rest),
                            Delay2(rest)} \cup Activation(rest)
  <2>1. rest \in Program
    BY RestHeads
  <2>2. \A p \in {Then(Change("STARTING"), Active(rest)), Active(rest), Delay1(rest),
                  Delay2(rest), Update(rest), Window1(rest), Timer2(rest), Timer1(rest)} :
           Head(p) \in {Change("STARTED"), Change("STARTING"), Simple("update"),
                        Simple("armWindow"), Cancel("noMotion"), Simple("armNoMotion"),
                        Simple("wait"), Simple("activate")}
    BY <2>1, ActivationParts, LifecycleParts DEF Parts
  <2>3. \A op \in {Change("STARTED"), Change("STARTING"), Simple("update"),
                   Simple("armWindow"), Cancel("noMotion"), Simple("armNoMotion"),
                   Simple("wait"), Simple("activate")} : op # Cancel("window")
    BY OpValues
  <2>4. Tail(Window2(rest)) = Window1(rest) /\ Head(Window1(rest)) = Simple("armWindow")
    BY <2>1, ActivationParts DEF Parts
  <2>5. Simple("armWindow") # Simple("release")
    BY OpValues
  <2> QED BY <1>1, <2>2, <2>3, <2>4, <2>5 DEF Activation
<1>5. CASE t \in ClientThreads
  <2>1. ClientPhase(t)
    BY <1>5 DEF OneClientInv, SessionInv
  <2> QED BY <1>1, <1>2, <1>3, <1>4, <2>1 DEF ClientPhase, Beginning, Delaying, Activating,
       Limiting, Stopping, Closing, ActiveRest
<1>6. ASSUME NEW g \in 1..MaxGen, t = LifecycleThread(g) PROVE FALSE
  <2>1. LifecyclePhase(g)
    BY DEF OneClientInv, SessionInv
  <2> QED BY <1>1, <1>2, <1>4, <1>6, <2>1 DEF LifecyclePhase, ActiveRest
<1> QED BY <1>5, <1>6 DEF SessionThread


LEMMA WindowThreads ==
    ASSUME SingleClient
    PROVE  /\ \A g \in 1..MaxGen : /\ WindowThread(g) \in Thread
                                   /\ WindowThread(g) \notin SessionThread
                                   /\ WindowThread(g) \notin InjectThreads
                                   /\ WindowThread(g) # Nobody
           /\ \A g \in 1..MaxGen, h \in 1..MaxGen :
                 /\ WindowThread(g) = WindowThread(h) => g = h
                 /\ WindowThread(g) # <<"noMotion", h>>
                 /\ WindowThread(g) # <<"lifecycle", h>>
           /\ WindowParty \subseteq Thread
           /\ SessionThread \subseteq Thread
<1>1. "window" \in Kind /\ "window" \in GenerationKind
  BY DEF Kind, GenerationKind
<1>2. \A g \in 1..MaxGen : /\ WindowThread(g) \in Thread
                           /\ WindowThread(g) \notin SessionThread
                           /\ WindowThread(g) \notin InjectThreads
                           /\ WindowThread(g) # Nobody
  BY <1>1, GenerationKinds, SessionThreads, Roles DEF WindowThread
<1> QED BY <1>2, SessionThreads DEF WindowThread, WindowParty

\* Which operations are carried out by threads that have to do with windows.
LEMMA WindowOps ==
    ASSUME SingleClient, OneClientInv, NEW t \in Thread, todo[t] # <<>>
    PROVE  /\ \/ Head(todo[t]).do \in {"update", "armWindow"}
              \/ /\ Head(todo[t]).do \in {"cancel", "invalidate"}
                 /\ Head(todo[t]).timer = "window"
              => t \in WindowParty
           /\ Head(todo[t]).do \in {"change", "release", "armLifecycle", "invalidate"}
              => t \in SessionThread
<1>1. CASE t \in SessionThread
  BY <1>1 DEF WindowParty
<1>2. \A op \in NoMotionOp \cup InjectOp :
         /\ op.do \notin {"update", "armWindow", "change", "release", "armLifecycle", "invalidate"}
         /\ op.do = "cancel" => op.timer # "window"
  BY OpValues DEF NoMotionOp, InjectOp
<1>3. CASE t \in InjectThreads
  BY <1>2, <1>3, HeadTailProperties DEF OneClientInv, OtherPrograms
<1>4. CASE \E g \in 1..MaxGen : t = <<"noMotion", g>>
  BY <1>2, <1>4, HeadTailProperties DEF OneClientInv, OtherPrograms
<1>5. CASE \E g \in 1..MaxGen : t = <<"window", g>>
  <2>1. \A op \in WindowOp : op.do \notin {"change", "release", "armLifecycle", "invalidate"}
    BY OpValues DEF WindowOp
  <2>2. t \in WindowParty
    BY <1>5 DEF WindowParty, WindowThread
  <2> QED BY <1>5, <2>1, <2>2, HeadTailProperties DEF OneClientInv, OtherPrograms
<1> QED BY <1>1, <1>3, <1>4, <1>5, Roles DEF SessionThread, LifecycleThread, Kind

LEMMA StepWindowPrograms ==
    ASSUME SingleClient, Types, TimerInv, OneClientInv, WindowPrograms, NEW t \in Thread, Step(t)
    PROVE  WindowPrograms'
<1> USE DEF Runs
<1>0. NoNewWait /\ \A g : WindowThread(g)' = WindowThread(g)
  BY StepsDoNotWait DEF WindowThread
<1>1. ASSUME \A g \in 1..MaxGen : \/ todo'[WindowThread(g)] = todo[WindowThread(g)]
                                  \/ WindowWork(todo'[WindowThread(g)])
      PROVE  WindowPrograms'
  <2>1. \A g \in 1..MaxGen : WindowWork(todo'[WindowThread(g)])
    BY <1>1 DEF WindowPrograms
  <2>2. \A g \in 1..MaxGen : at'[WindowThread(g)] = "wait" => todo'[WindowThread(g)] = Boundary1
    BY <1>0, WindowThreads DEF WindowPrograms, NoNewWait
  <2>3. Boundary1' = Boundary1 /\ \A p : WindowWork(p)' <=> WindowWork(p)
    BY DEF WindowWork
  <2> QED BY <1>0, <2>1, <2>2, <2>3 DEF WindowPrograms
<1>2. ASSUME NEW program, MovesOnly(t, program),
             (\E g \in 1..MaxGen : t = WindowThread(g)) => WindowWork(program)
      PROVE  WindowPrograms'
  BY <1>1, <1>2, WindowThreads DEF MovesOnly
<1>3. ASSUME NEW g \in 1..MaxGen, t = WindowThread(g), todo[t] # <<>>
      PROVE  /\ Head(todo[t]).do \in {"wait", "boundary", "update", "cancel", "armWindow"}
             /\ Head(todo[t]).do \in {"update", "cancel", "armWindow"} =>
                   WindowWork(Tail(todo[t]))
             /\ Head(todo[t]).do = "update" =>
                   WindowWork(ScheduleActiveWindow \o Tail(todo[t]))
  <2>1. WindowWork(todo[t])
    BY <1>3 DEF WindowPrograms
  <2>2. WindowWork(Schedule1) /\ WindowWork(Schedule2) /\ WindowWork(<<>>)
    BY DEF WindowWork
  <2> QED BY <1>3, <2>1, <2>2, WindowHeads, WindowUnfolds
<1>4. WindowWork(<<>>) /\ WindowWork(WindowProgram)
  BY WindowUnfolds DEF WindowWork
<1>5. CASE ChangeState(t) \/ Release(t) \/ InjectLocked(t) \/ EndSessionOfTheDead(t)
           \/ ReturnToCallback(t)
  <2>1. /\ todo[t] # <<>>
        /\ Head(todo[t]).do \in {"change", "release", "inject", "goDown", "return"}
    BY <1>5 DEF ChangeState, Release, InjectLocked, EndSessionOfTheDead, ReturnToCallback
  <2>2. ~\E g \in 1..MaxGen : t = WindowThread(g)
    BY <1>3, <2>1
  <2>3. PICK program : MovesOnly(t, program)
    BY <1>5, Moves DEF ChangeState, Release, InjectLocked, EndSessionOfTheDead, ReturnToCallback
  <2> QED BY <1>2, <2>2, <2>3
<1>6. CASE CancelTimer(t) \/ InvalidateTimer(t)
  <2>1. /\ todo[t] # <<>> /\ Head(todo[t]).do \in {"cancel", "invalidate"}
        /\ Head(todo[t]).timer \in Kind
        /\ CancelThread(t, Head(todo[t]).timer, Tail(todo[t]))
    BY <1>6, RunsType, OpFields DEF CancelTimer, InvalidateTimer, Types
  <2>2. MovesOnly(t, Tail(todo[t]))
    BY <2>1, CancelMoves
  <2> QED BY <1>2, <1>3, <2>1, <2>2
<1>7. CASE UpdateActiveWindow(t)
  <2>1. PICK program : /\ program \in {Tail(todo[t]), ScheduleActiveWindow \o Tail(todo[t])}
                       /\ Continue(t, program) \/ CallOut(t, program)
    BY <1>7 DEF UpdateActiveWindow
  <2>2. MovesOnly(t, program) /\ todo[t] # <<>> /\ Head(todo[t]).do = "update"
    BY <1>7, <2>1, Moves DEF UpdateActiveWindow
  <2> QED BY <1>2, <1>3, <2>1, <2>2
<1>8. CASE TakeMutex(t) \/ \E l \in Listeners : OnEvent(t, l)
  <2>1. todo' = todo
    BY <1>8 DEF TakeMutex, OnEvent
  <2> QED BY <1>1, <2>1
<1>9. CASE RecordEvent(t)
  <2>1. \A u \in Thread : todo'[u] \in {todo[u], <<>>}
    BY <1>9 DEF RecordEvent, Types, ThreadsOK, ThreadsTypeOK
  <2> QED BY <1>1, <1>4, <2>1, WindowThreads
<1>10. ASSUME NEW k \in Kind, NEW g \in 1..MaxGen, t # <<k, g>>, todo[t] # <<>>,
              Head(todo[t]).do \in {"armLifecycle", "armNoMotion", "armWindow"},
              k = "window" \/ Head(todo[t]).do # "armWindow",
              NEW work, k = "window" => WindowWork(work),
              Spawn(t, k, g, "begin", work, Tail(todo[t]))
       PROVE  WindowPrograms'
  <2>1. SpawnOutcome(t, k, g, work, Tail(todo[t]))
    BY <1>10, SpawnMoves
  <2>2. ASSUME NEW h \in 1..MaxGen
        PROVE  \/ todo'[WindowThread(h)] = todo[WindowThread(h)]
               \/ WindowWork(todo'[WindowThread(h)])
    <3>1. CASE WindowThread(h) = t
      <4>1. WindowWork(Tail(todo[t]))
        BY <1>3, <1>10, <3>1
      <4> QED BY <2>1, <3>1, <4>1 DEF SpawnOutcome
    <3>2. CASE WindowThread(h) # t /\ WindowThread(h) = <<k, g>>
      <4>1. k = "window"
        BY <3>2 DEF WindowThread
      <4> QED BY <1>10, <2>1, <3>2, <4>1 DEF SpawnOutcome
    <3>3. CASE WindowThread(h) # t /\ WindowThread(h) # <<k, g>>
      BY <2>1, <3>3, WindowThreads DEF SpawnOutcome
    <3> QED BY <3>1, <3>2, <3>3
  <2> QED BY <1>1, <2>2
<1>11. CASE ArmLifecycleTimer(t)
  <2>1. t \in ClientThreads /\ Head(todo[t]).timer \in 1..MaxGen
        /\ todo[t] # <<>> /\ Head(todo[t]).do = "armLifecycle"
    BY <1>11, ArmsFresh DEF ArmLifecycleTimer
  <2>2. t # <<"lifecycle", Head(todo[t]).timer>> /\ "lifecycle" \in Kind
    BY <2>1, Roles DEF Kind
  <2> QED BY <1>10, <1>11, <2>1, <2>2 DEF ArmLifecycleTimer
<1>12. ASSUME NEW k \in GenerationKind, gen[k] < MaxGen, todo[t] # <<>>, at[t] = "run",
              Head(todo[t]).do \in {"armNoMotion", "armWindow"},
              k = "window" \/ Head(todo[t]).do # "armWindow",
              NEW work, k = "window" => WindowWork(work),
              Spawn(t, k, gen[k] + 1, "begin", work, Tail(todo[t]))
       PROVE  WindowPrograms'
  <2>1. PICK g \in 1..MaxGen : g = gen[k] + 1
    BY <1>12, Bounds, GenerationKinds DEF Types, TimersTypeOK
  <2>2. at[<<k, g>>] = "idle" /\ k \in Kind
    BY <2>1, GenerationIsFresh DEF OneClientInv
  <2>3. t # <<k, g>>
    BY <1>12, <2>2
  <2> QED BY <1>10, <1>12, <2>1, <2>2, <2>3
<1>13. CASE ArmNoMotionTimer(t)
  <2>1. CASE Continue(t, Tail(todo[t]))
    <3>1. ~\E g \in 1..MaxGen : t = WindowThread(g)
      BY <1>3, <1>13 DEF ArmNoMotionTimer
    <3>2. MovesOnly(t, Tail(todo[t]))
      BY <2>1, Moves
    <3> QED BY <1>2, <3>1, <3>2
  <2>2. CASE /\ gen["noMotion"] < MaxGen
             /\ Spawn(t, "noMotion", gen["noMotion"] + 1, "begin", NoMotionProgram, Tail(todo[t]))
    <3>1. "noMotion" \in GenerationKind /\ todo[t] # <<>> /\ at[t] = "run"
          /\ Head(todo[t]).do = "armNoMotion"
      BY <1>13 DEF ArmNoMotionTimer, GenerationKind, Kind
    <3> QED BY <1>12, <2>2, <3>1
  <2> QED BY <1>13, <2>1, <2>2 DEF ArmNoMotionTimer
<1>14. CASE ArmWindowScheduler(t)
  <2>0. "window" \in GenerationKind /\ todo[t] # <<>> /\ at[t] = "run"
        /\ Head(todo[t]).do = "armWindow"
    BY <1>14 DEF ArmWindowScheduler, GenerationKind, Kind
  <2>1. CASE Continue(t, Tail(todo[t]))
    <3>1. MovesOnly(t, Tail(todo[t]))
      BY <2>1, Moves
    <3> QED BY <1>2, <1>3, <2>0, <3>1
  <2>2. CASE /\ gen["window"] < MaxGen
             /\ Spawn(t, "window", gen["window"] + 1, "begin", WindowProgram, Tail(todo[t]))
    BY <1>4, <1>12, <2>0, <2>2
  <2> QED BY <1>14, <2>1, <2>2 DEF ArmWindowScheduler
<1> QED BY <1>5, <1>6, <1>7, <1>8, <1>9, <1>11, <1>13, <1>14 DEF Step


LEMMA TimerStepMovesOne ==
    ASSUME Types, NEW k \in Kind, NEW g \in 1..MaxGen, TimerStep(k, g)
    PROVE  /\ <<k, g>> \in Thread
           /\ \A u \in Thread : u # <<k, g>> => todo'[u] = todo[u]
<1>0. PICK t : t = <<k, g>>
  OBVIOUS
<1>1. t \in Thread /\ todo \in [Thread -> Seq(Op)]
  BY <1>0, TimerThreadsAreThreads DEF Types, ThreadsOK, ThreadsTypeOK
<1>2. ASSUME NEW program, todo' = [todo EXCEPT ![t] = program]
      PROVE  \A u \in Thread : u # t => todo'[u] = todo[u]
  BY <1>1, <1>2
<1>3. \/ todo' = todo
      \/ \E program : todo' = [todo EXCEPT ![t] = program]
  <2>1. BeginWait(k, g) \/ WaitCancelled(k, g) => \E program : todo' = [todo EXCEPT ![t] = program]
    BY <1>0 DEF BeginWait, WaitCancelled, Leave
  <2>2. ActivateAfterDelay(k, g) \/ CheckBeforeWait(k, g) \/ AutoStop(k, g) \/ BoundaryReached(k, g)
        => \E program : Continue(t, program)
    BY <1>0 DEF ActivateAfterDelay, CheckBeforeWait, AutoStop, BoundaryReached
  <2>3. NoMotionExpires(k, g) => \E program : Continue(t, program) \/ Leave(t, "deliver", program)
    BY <1>0 DEF NoMotionExpires
  <2>4. WaitTimesOut(k, g) => todo' = todo
    BY DEF WaitTimesOut
  <2> QED BY <2>1, <2>2, <2>3, <2>4 DEF TimerStep, Continue, Leave
<1> QED BY <1>0, <1>1, <1>2, <1>3

\* What a window thread does with its own program.
LEMMA WindowTimerSteps ==
    ASSUME SingleClient, Types, WindowPrograms, NEW g \in 1..MaxGen, TimerStep("window", g)
    PROVE  \/ /\ BeginWait("window", g) /\ todo[WindowThread(g)] = Boundary2
              /\ todo'[WindowThread(g)] = Boundary1
           \/ /\ WaitOver("window", g) /\ todo[WindowThread(g)] = Boundary1
              /\ todo'[WindowThread(g)] = <<>> /\ ~BeginWait("window", g)
           \/ todo' = todo /\ ~BeginWait("window", g)
           \/ /\ todo[WindowThread(g)] = Boundary1 /\ ~BeginWait("window", g)
              /\ todo'[WindowThread(g)] = (IF gen["window"] # g \/ state # "STARTED"
                                           THEN <<>> ELSE Update1)
<1> USE DEF Runs
<1>0. PICK t : t = WindowThread(g)
  OBVIOUS
<1>1. /\ t \in Thread /\ <<"window", g>> = t /\ todo \in [Thread -> Seq(Op)]
      /\ WindowWork(todo[t]) /\ (at[t] = "wait" => todo[t] = Boundary1)
  BY <1>0, WindowThreads DEF WindowPrograms, Types, ThreadsOK, ThreadsTypeOK, WindowThread
<1>2. todo[t] # <<>> => /\ Head(todo[t]).do \in {"wait", "boundary", "update", "cancel", "armWindow"}
                        /\ Head(todo[t]).do = "wait" => todo[t] = Boundary2 /\ Tail(todo[t]) = Boundary1
                        /\ Head(todo[t]).do = "boundary" => todo[t] = Boundary1
  BY <1>1, WindowHeads
<1>3. CASE BeginWait("window", g)
  <2>1. todo[t] # <<>> /\ Head(todo[t]).do = "wait" /\ Leave(t, "wait", Tail(todo[t]))
    BY <1>1, <1>3 DEF BeginWait
  <2>2. todo'[t] = Tail(todo[t])
    BY <1>1, <2>1 DEF Leave
  <2> QED BY <1>0, <1>2, <1>3, <2>1, <2>2
<1>4. CASE WaitCancelled("window", g) /\ ~BeginWait("window", g)
  BY <1>0, <1>1, <1>4 DEF WaitCancelled
<1>5. CASE WaitTimesOut("window", g) /\ ~BeginWait("window", g)
  BY <1>5 DEF WaitTimesOut
<1>6. CASE BoundaryReached("window", g) /\ ~BeginWait("window", g)
  <2>1. /\ todo[t] # <<>> /\ Head(todo[t]).do = "boundary"
        /\ Continue(t, IF gen["window"] # g \/ state # "STARTED" THEN <<>>
                       ELSE <<Simple("update")>>)
    BY <1>1, <1>6 DEF BoundaryReached
  <2>2. todo'[t] = (IF gen["window"] # g \/ state # "STARTED" THEN <<>> ELSE Update1)
    BY <1>1, <2>1, WindowUnfolds DEF Continue
  <2> QED BY <1>0, <1>2, <1>6, <2>1, <2>2
<1>7. CASE \/ ActivateAfterDelay("window", g) \/ CheckBeforeWait("window", g)
           \/ AutoStop("window", g) \/ NoMotionExpires("window", g)
  BY <1>1, <1>2, <1>7 DEF ActivateAfterDelay, CheckBeforeWait, AutoStop, NoMotionExpires
<1> QED BY <1>3, <1>4, <1>5, <1>6, <1>7 DEF TimerStep

\* A call leaves the window threads alone.
LEMMA CallsLeaveWindows ==
    ASSUME SingleClient, Types, OneClientInv, ClientCall
    PROVE  \A g \in 1..MaxGen : todo'[WindowThread(g)] = todo[WindowThread(g)]
<1> USE DEF OneClientInv
<1>1. ASSUME NEW t \in Thread, t \in ClientThreads \cup InjectThreads, NEW program,
             MovesOnly(t, program)
      PROVE  \A g \in 1..MaxGen : todo'[WindowThread(g)] = todo[WindowThread(g)]
  <2>1. \A g \in 1..MaxGen : WindowThread(g) # t
    BY <1>1, WindowThreads DEF SessionThread
  <2> QED BY <1>1, <2>1, WindowThreads DEF MovesOnly
<1>2. ASSUME NEW t \in Thread, Stop(t) \/ Close(t)
      PROVE  \A g \in 1..MaxGen : todo'[WindowThread(g)] = todo[WindowThread(g)]
  BY <1>1, <1>2, CallMoves
<1>3. ASSUME NEW t \in Thread, NEW cfg \in Configs, Start(t, cfg)
      PROVE  \A g \in 1..MaxGen : todo'[WindowThread(g)] = todo[WindowThread(g)]
  BY <1>1, <1>3, CallMoves
<1>4. ASSUME NEW t \in InjectThreads, InjectMotionEvent(t)
      PROVE  \A g \in 1..MaxGen : todo'[WindowThread(g)] = todo[WindowThread(g)]
  <2>1. t \in Thread
    BY Roles
  <2> QED BY <1>1, <1>4, <2>1, CallMoves
<1>5. CASE \/ \E t \in Thread : Open(t) \/ SetActiveWindows(t)
           \/ \E l \in Listeners : RegisterEventListener(l) \/ UnregisterEventListener(l)
  BY <1>5 DEF Open, SetActiveWindows, RegisterEventListener, UnregisterEventListener,
     threadVars
<1> QED BY <1>2, <1>3, <1>4, <1>5 DEF ClientCall

LEMMA NextWindowPrograms ==
    ASSUME SingleClient, Types, TimerInv, OneClientInv, WindowPrograms, [Next]_vars
    PROVE  WindowPrograms'
<1>0. /\ \A g : WindowThread(g)' = WindowThread(g)
      /\ Boundary1' = Boundary1 /\ \A p : WindowWork(p)' <=> WindowWork(p)
  BY DEF WindowThread, WindowWork
<1>1. ASSUME NoNewWait,
             \A g \in 1..MaxGen : \/ todo'[WindowThread(g)] = todo[WindowThread(g)]
                                  \/ WindowWork(todo'[WindowThread(g)])
      PROVE  WindowPrograms'
  <2>1. \A g \in 1..MaxGen : WindowWork(todo'[WindowThread(g)])
    BY <1>1 DEF WindowPrograms
  <2>2. \A g \in 1..MaxGen : at'[WindowThread(g)] = "wait" => todo'[WindowThread(g)] = Boundary1
    BY <1>1, WindowThreads DEF WindowPrograms, NoNewWait
  <2> QED BY <1>0, <2>1, <2>2 DEF WindowPrograms
<1>2. ASSUME NEW k \in Kind, NEW g \in 1..MaxGen, TimerStep(k, g) PROVE WindowPrograms'
  <2>1. <<k, g>> \in Thread /\ \A u \in Thread : u # <<k, g>> => todo'[u] = todo[u]
    BY <1>2, TimerStepMovesOne
  <2>2. \A u \in Thread : u # <<k, g>> /\ at'[u] = "wait" => at[u] = "wait"
    <3>1. CASE BeginWait(k, g)
      BY <2>1, <3>1 DEF BeginWait, Leave, Types, ThreadsOK, ThreadsTypeOK
    <3> QED BY <1>2, <3>1, TimerStepsDoNotWait DEF NoNewWait
  <2>3. CASE k # "window"
    <3>1. \A h \in 1..MaxGen : WindowThread(h) # <<k, g>> /\ WindowThread(h) \in Thread
      BY <2>3, WindowThreads DEF WindowThread
    <3> QED BY <1>0, <2>1, <2>2, <3>1 DEF WindowPrograms
  <2>4. CASE k = "window"
    <3>1. PICK t : t = WindowThread(g)
      OBVIOUS
    <3>2. t = <<k, g>>
      BY <2>4, <3>1 DEF WindowThread
    <3>3. WindowWork(<<>>) /\ WindowWork(Boundary1) /\ WindowWork(Update1)
      BY DEF WindowWork
    <3>4. WindowWork(todo'[t]) \/ todo'[t] = todo[t]
      BY <1>2, <2>4, <3>1, <3>3, WindowTimerSteps
    <3>5. at'[t] = "wait" => todo'[t] = Boundary1
      <4>1. CASE BeginWait(k, g)
        BY <1>2, <2>4, <3>1, <4>1, WindowTimerSteps
      <4>2. CASE ~BeginWait(k, g)
        <5>1. NoNewWait
          BY <1>2, <4>2, TimerStepsDoNotWait
        <5> QED BY <2>1, <3>1, <3>2, <5>1 DEF NoNewWait, WindowPrograms
      <4> QED BY <4>1, <4>2
    <3>6. \A h \in 1..MaxGen : h # g => WindowThread(h) # t /\ WindowThread(h) \in Thread
      BY <3>1, WindowThreads
    <3> QED BY <1>0, <2>1, <2>2, <3>1, <3>2, <3>4, <3>5, <3>6 DEF WindowPrograms
  <2> QED BY <2>3, <2>4
<1>3. CASE ClientCall
  BY <1>1, <1>3, CallsDoNotWait, CallsLeaveWindows
<1>4. CASE ClientDies \/ DeathNotice
  BY <1>4 DEF ClientDies, DeathNotice, SingleClient
<1>5. CASE Rest \/ UNCHANGED vars
  BY <1>1, <1>5 DEF Rest, vars, threadVars, NoNewWait
<1> QED BY <1>2, <1>3, <1>4, <1>5, StepWindowPrograms DEF Next


\* The timer of the window threads stays as it is.
WindowTimerStays ==
    /\ handle'["window"] = handle["window"]
    /\ cancelled'["window"] = cancelled["window"]
    /\ gen'["window"] = gen["window"]

LEMMA SchedulesIsConstant == \A p : Schedules(p)' <=> Schedules(p)
BY DEF Schedules, Ends, ActiveRest, StartRest, LifecycleRest, LimitOp

\* A step in which every thread goes on scheduling or watching.
LEMMA WindowOwedKeeps ==
    ASSUME SingleClient, WindowOwed, hasWindows' = hasWindows, state' = state, WindowTimerStays,
           \A u \in WindowParty : Schedules(todo[u]) => Schedules(todo'[u]),
           \A g \in 1..MaxGen : \/ todo'[WindowThread(g)] = todo[WindowThread(g)]
                                \/ todo[WindowThread(g)] \notin {Boundary2, Boundary1}
                                \/ /\ todo[WindowThread(g)] = Boundary2
                                   /\ todo'[WindowThread(g)] = Boundary1
    PROVE  WindowOwed'
<1>0. /\ WindowParty' = WindowParty /\ Boundary1' = Boundary1 /\ Boundary2' = Boundary2
      /\ \A g : WindowThread(g)' = WindowThread(g)
  BY DEF WindowParty, SessionThread, WindowThread, LifecycleThread
<1>1. ASSUME NEW g \in 1..MaxGen, Watches(g) PROVE Watches(g)'
  BY <1>0, <1>1 DEF Watches, WindowTimerStays
<1> QED BY <1>0, <1>1, SchedulesIsConstant DEF WindowOwed

\* A step that leaves a thread to schedule.
LEMMA WindowOwedBy ==
    ASSUME NEW t \in WindowParty, Schedules(todo'[t])
    PROVE  WindowOwed'
<1>1. WindowParty' = WindowParty
  BY DEF WindowParty, SessionThread, WindowThread, LifecycleThread
<1> QED BY <1>1, SchedulesIsConstant DEF WindowOwed

LEMMA BoundaryHeads ==
    /\ Head(Boundary2).do = "wait" /\ Head(Boundary1).do = "boundary"
    /\ ~Schedules(<<>>) /\ ~Schedules(Boundary2) /\ ~Schedules(Boundary1)
<1>1. Head(Boundary2).do = "wait" /\ Head(Boundary1).do = "boundary"
  BY WindowParts, OpValues DEF Parts
<1> QED BY <1>1, SchedulesGoOn

\* What is left after an operation on the windows schedules.
LEMMA WindowOpsSchedule ==
    ASSUME SingleClient, OneClientInv, WindowPrograms, NEW t \in WindowParty, todo[t] # <<>>
    PROVE  /\ Head(todo[t]).do = "update" => Schedules(ScheduleActiveWindow \o Tail(todo[t]))
           /\ Head(todo[t]).do = "armWindow" => Schedules(todo[t])
           /\ /\ Head(todo[t]).do \in {"cancel", "invalidate"}
              /\ Head(todo[t]).timer = "window"
              => Schedules(Tail(todo[t])) \/ state = "STOPPED"
<1>1. CASE t \in SessionThread
  <2>1. SessionProgram(todo[t])
    BY <1>1, SessionPrograms DEF OneClientInv
  <2> QED BY <1>1, <2>1, SessionSchedules, ClosesWhenStopped
<1>2. ASSUME NEW g \in 1..MaxGen, t = WindowThread(g)
      PROVE  /\ Head(todo[t]).do = "update" => Schedules(ScheduleActiveWindow \o Tail(todo[t]))
             /\ Head(todo[t]).do = "armWindow" => Schedules(todo[t])
             /\ Head(todo[t]).do \in {"cancel", "invalidate"} => Schedules(Tail(todo[t]))
  <2>1. WindowWork(todo[t])
    BY <1>2 DEF WindowPrograms
  <2>2. Schedules(Schedule2) /\ Schedules(Schedule1)
    BY DEF Schedules
  <2> QED BY <2>1, <2>2, WindowHeads, WindowUnfolds
<1> QED BY <1>1, <1>2 DEF WindowParty


LEMMA StepWindowOwed ==
    ASSUME SingleClient, Types, TimerInv, OneClientInv, WindowPrograms, WindowOwed,
           NEW t \in Thread, Step(t)
    PROVE  WindowOwed'
<1> USE DEF Runs
<1>0. /\ hasWindows' = hasWindows /\ "window" \in Kind
      /\ state' = state \/ ChangeState(t)
      /\ WindowParty \subseteq Thread /\ SessionThread \subseteq WindowParty
      /\ \A g \in 1..MaxGen : WindowThread(g) \in WindowParty
  BY StepsLeaveSettings, WindowThreads DEF Kind, WindowParty
<1>1. state' # "STARTED" => WindowOwed'
  BY DEF WindowOwed
<1>2. ~hasWindows => WindowOwed'
  BY <1>0 DEF WindowOwed
<1>3. ASSUME NEW program, MovesOnly(t, program), todo[t] # <<>>, state' = state,
             Head(todo[t]).do \notin {"wait", "boundary"}, WindowTimerStays,
             Schedules(todo[t]) => Schedules(program)
      PROVE  WindowOwed'
  <2>1. todo[t] \notin {Boundary2, Boundary1}
    BY <1>3, BoundaryHeads
  <2>2. \A u \in WindowParty : Schedules(todo[u]) => Schedules(todo'[u])
    BY <1>0, <1>3 DEF MovesOnly
  <2>3. \A g \in 1..MaxGen : \/ todo'[WindowThread(g)] = todo[WindowThread(g)]
                             \/ todo[WindowThread(g)] \notin {Boundary2, Boundary1}
    BY <1>0, <1>3, <2>1 DEF MovesOnly
  <2> QED BY <1>0, <1>3, <2>2, <2>3, WindowOwedKeeps
<1>4. todo[t] # <<>> /\ Schedules(todo[t]) =>
         /\ Head(todo[t]).do \in {"update", "armWindow", "cancel", "invalidate", "change"}
         /\ Head(todo[t]).do \in {"cancel", "invalidate"} => Schedules(Tail(todo[t]))
  BY SchedulesGoOn
<1>5. CASE ChangeState(t)
  <2>1. /\ todo[t] # <<>> /\ Head(todo[t]).do = "change" /\ state' = Head(todo[t]).to
        /\ CallOut(t, Tail(todo[t])) \/ Continue(t, Tail(todo[t]))
    BY <1>5 DEF ChangeState
  <2>2. t \in SessionThread
    BY <2>1, WindowOps
  <2>3. todo'[t] = Tail(todo[t])
    BY <2>1, Moves DEF MovesOnly
  <2>4. CASE state' = "STARTED"
    <3>1. \E rest \in ActiveRest : Tail(todo[t]) = Update(rest)
      BY <2>1, <2>2, <2>4, StartsByActivation
    <3>2. Schedules(todo'[t])
      BY <2>3, <3>1 DEF Schedules
    <3> QED BY <1>0, <2>2, <3>2, WindowOwedBy
  <2> QED BY <1>1, <2>4
<1>6. CASE InjectLocked(t) \/ Release(t) \/ EndSessionOfTheDead(t) \/ ReturnToCallback(t)
  <2>1. /\ todo[t] # <<>> /\ Head(todo[t]).do \in {"inject", "release", "goDown", "return"}
        /\ UNCHANGED <<state, timerVars>>
    BY <1>6 DEF InjectLocked, Release, EndSessionOfTheDead, ReturnToCallback, sensorVars
  <2>2. PICK program : MovesOnly(t, program)
    BY <1>6, Moves DEF InjectLocked, Release, EndSessionOfTheDead, ReturnToCallback
  <2>3. ~Schedules(todo[t])
    BY <1>4, <2>1
  <2>4. WindowTimerStays
    BY <2>1 DEF timerVars, WindowTimerStays
  <2> QED BY <1>3, <2>1, <2>2, <2>3, <2>4
<1>7. CASE RecordEvent(t)
  <2>1. at[t] = "deliver" /\ UNCHANGED <<state, timerVars, target>>
        /\ todo' = [todo EXCEPT ![t] = <<>>] /\ at' = [at EXCEPT ![t] = "idle"]
    BY <1>7 DEF RecordEvent
  <2>2. todo[t] # <<>> /\ Head(todo[t]).do = "record"
    BY <2>1 DEF Types, ThreadsOK, DeliveryIsRecorded
  <2>3. MovesOnly(t, <<>>)
    BY <2>1 DEF MovesOnly, Types, ThreadsOK, ThreadsTypeOK
  <2>4. WindowTimerStays
    BY <2>1 DEF timerVars, WindowTimerStays
  <2> QED BY <1>3, <1>4, <2>1, <2>2, <2>3, <2>4
<1>8. CASE TakeMutex(t) \/ \E l \in Listeners : OnEvent(t, l)
  <2>1. todo' = todo /\ UNCHANGED <<state, timerVars>>
    BY <1>8 DEF TakeMutex, OnEvent, sensorVars
  <2>2. WindowTimerStays
    BY <2>1 DEF timerVars, WindowTimerStays
  <2> QED BY <1>0, <2>1, <2>2, WindowOwedKeeps
<1>9. CASE CancelTimer(t) \/ InvalidateTimer(t)
  <2>1. PICK k \in Kind :
           /\ todo[t] # <<>> /\ Head(todo[t]).do \in {"cancel", "invalidate"}
           /\ Head(todo[t]).timer = k /\ CancelThread(t, k, Tail(todo[t]))
           /\ gen' = gen \/ gen' = [gen EXCEPT ![k] = @ + 1]
           /\ state' = state
    BY <1>9, RunsType, OpFields DEF CancelTimer, InvalidateTimer, Types, sensorVars
  <2>2. /\ MovesOnly(t, Tail(todo[t]))
        /\ \A j \in Kind : j # k => handle'[j] = handle[j] /\ cancelled'[j] = cancelled[j]
    BY <2>1, CancelMoves
  <2>3. CASE k # "window"
    <3>1. WindowTimerStays
      BY <1>0, <2>1, <2>2, <2>3 DEF WindowTimerStays, Types, TimersTypeOK
    <3> QED BY <1>3, <1>4, <2>1, <2>2, <3>1
  <2>4. CASE k = "window"
    <3>1. t \in WindowParty
      BY <2>1, <2>4, WindowOps
    <3>2. Schedules(Tail(todo[t])) \/ state = "STOPPED"
      BY <2>1, <2>4, <3>1, WindowOpsSchedule
    <3>3. todo'[t] = Tail(todo[t])
      BY <2>2 DEF MovesOnly
    <3> QED BY <1>1, <2>1, <3>1, <3>2, <3>3, WindowOwedBy
  <2> QED BY <2>3, <2>4
<1>10. CASE UpdateActiveWindow(t)
  <2>1. /\ todo[t] # <<>> /\ Head(todo[t]).do = "update" /\ state' = state
        /\ state = "STARTED" =>
              \/ Continue(t, ScheduleActiveWindow \o Tail(todo[t]))
              \/ CallOut(t, ScheduleActiveWindow \o Tail(todo[t]))
    BY <1>10 DEF UpdateActiveWindow
  <2>2. t \in WindowParty
    BY <2>1, WindowOps
  <2>3. Schedules(ScheduleActiveWindow \o Tail(todo[t]))
    BY <2>1, <2>2, WindowOpsSchedule
  <2>4. state = "STARTED" => todo'[t] = ScheduleActiveWindow \o Tail(todo[t])
    BY <2>1, Moves DEF MovesOnly
  <2> QED BY <1>1, <2>1, <2>2, <2>3, <2>4, WindowOwedBy
<1>11. ASSUME NEW k \in Kind, k # "window", NEW g \in 1..MaxGen, t # <<k, g>>,
              todo[t] # <<>>, Head(todo[t]).do \in {"armLifecycle", "armNoMotion"},
              k = "lifecycle" => ~Schedules(todo[<<k, g>>]) \/ handle[k] # Nobody,
              NEW work, state' = state,
              Spawn(t, k, g, "begin", work, Tail(todo[t]))
       PROVE  WindowOwed'
  <2>1. SpawnOutcome(t, k, g, work, Tail(todo[t]))
    BY <1>11, SpawnMoves
  <2>2. gen'["window"] = gen["window"]
    BY <1>0, <1>11 DEF Spawn, Types, TimersTypeOK
  <2>3. handle'["window"] = handle["window"] /\ cancelled'["window"] = cancelled["window"]
    BY <1>0, <1>11, <2>1 DEF SpawnOutcome
  <2>4. ~Schedules(todo[t]) /\ todo[t] \notin {Boundary2, Boundary1}
    BY <1>4, <1>11, BoundaryHeads
  <2>5. /\ \A h \in 1..MaxGen : WindowThread(h) # <<k, g>>
        /\ k = "noMotion" => <<k, g>> \notin WindowParty
    <3>1. k = "noMotion" => <<k, g>> \notin SessionThread
      BY SessionThreads DEF GenerationKind
    <3> QED BY <1>11, <3>1 DEF WindowThread, WindowParty
  <2>6. ASSUME NEW u \in WindowParty, Schedules(todo[u]) PROVE Schedules(todo'[u])
    <3>1. u # t
      BY <2>4, <2>6
    <3>2. CASE u # <<k, g>>
      BY <1>0, <2>1, <2>6, <3>1, <3>2 DEF SpawnOutcome
    <3>3. CASE u = <<k, g>>
      <4>1. k = "lifecycle"
        BY <1>11, <2>5, <3>3 DEF Kind
      <4>2. handle[k] # Nobody
        BY <1>11, <2>6, <3>3, <4>1
      <4> QED BY <2>1, <2>6, <4>2 DEF SpawnOutcome
    <3> QED BY <3>2, <3>3
  <2>7. ASSUME NEW h \in 1..MaxGen
        PROVE  \/ todo'[WindowThread(h)] = todo[WindowThread(h)]
               \/ todo[WindowThread(h)] \notin {Boundary2, Boundary1}
    <3>1. CASE WindowThread(h) = t
      BY <2>4, <3>1
    <3>2. CASE WindowThread(h) # t
      BY <1>0, <2>1, <2>5, <3>2 DEF SpawnOutcome
    <3> QED BY <3>1, <3>2
  <2> QED BY <1>0, <1>11, <2>2, <2>3, <2>6, <2>7, WindowOwedKeeps DEF WindowTimerStays
<1>12. CASE ArmLifecycleTimer(t)
  <2>1. /\ t \in ClientThreads /\ Head(todo[t]).timer \in 1..MaxGen
        /\ todo[t] # <<>> /\ Head(todo[t]).do = "armLifecycle" /\ state' = state
        /\ handle["lifecycle"] = Nobody => \A g \in 1..MaxGen : at[LifecycleThread(g)] = "idle"
    BY <1>12, ArmsFresh DEF ArmLifecycleTimer, sensorVars
  <2>2. PICK g \in 1..MaxGen : g = Head(todo[t]).timer
    BY <2>1
  <2>3. t # <<"lifecycle", g>> /\ "lifecycle" \in Kind
    BY <2>1, Roles DEF Kind
  <2>4. handle["lifecycle"] = Nobody => todo[<<"lifecycle", g>>] = <<>>
    BY <2>1, Roles DEF OneClientInv, PlacesOK, LifecycleThread
  <2>5. PICK work : Spawn(t, "lifecycle", g, "begin", work, Tail(todo[t]))
    BY <1>12, <2>2 DEF ArmLifecycleTimer
  <2>6. ~Schedules(todo[<<"lifecycle", g>>]) \/ handle["lifecycle"] # Nobody
    BY <2>4, BoundaryHeads
  <2> QED BY <1>11, <2>1, <2>3, <2>5, <2>6
<1>13. CASE ArmNoMotionTimer(t)
  <2>0. todo[t] # <<>> /\ Head(todo[t]).do = "armNoMotion" /\ state' = state /\ at[t] = "run"
        /\ "noMotion" \in GenerationKind
    BY <1>13 DEF ArmNoMotionTimer, sensorVars, GenerationKind, Kind
  <2>1. CASE Continue(t, Tail(todo[t])) /\ UNCHANGED timerVars
    <3>1. MovesOnly(t, Tail(todo[t])) /\ WindowTimerStays
      BY <2>1, Moves DEF timerVars, WindowTimerStays
    <3> QED BY <1>3, <1>4, <2>0, <3>1
  <2>2. CASE /\ gen["noMotion"] < MaxGen
             /\ Spawn(t, "noMotion", gen["noMotion"] + 1, "begin", NoMotionProgram, Tail(todo[t]))
    <3>1. PICK g \in 1..MaxGen : g = gen["noMotion"] + 1
      BY <2>0, <2>2, Bounds, GenerationKinds DEF Types, TimersTypeOK
    <3>2. at[<<"noMotion", g>>] = "idle" /\ "noMotion" \in Kind
      BY <2>0, <3>1, GenerationIsFresh DEF OneClientInv
    <3>3. t # <<"noMotion", g>>
      BY <2>0, <3>2
    <3> QED BY <1>11, <2>0, <2>2, <3>1, <3>2, <3>3
  <2> QED BY <1>13, <2>1, <2>2 DEF ArmNoMotionTimer
<1>14. CASE ArmWindowScheduler(t)
  <2>0. todo[t] # <<>> /\ Head(todo[t]).do = "armWindow" /\ state' = state /\ at[t] = "run"
        /\ "window" \in GenerationKind
    BY <1>14 DEF ArmWindowScheduler, sensorVars, GenerationKind, Kind
  <2>1. t \in WindowParty /\ Schedules(todo[t])
    BY <2>0, WindowOps, WindowOpsSchedule
  <2>2. CASE ~(state = "STARTED" /\ hasWindows)
    BY <1>1, <1>2, <2>0, <2>2
  <2>3. CASE state = "STARTED" /\ hasWindows
    <3>1. /\ gen["window"] < MaxGen
          /\ Spawn(t, "window", gen["window"] + 1, "begin", WindowProgram, Tail(todo[t]))
      BY <1>14, <2>3 DEF ArmWindowScheduler
    <3>2. PICK g \in 1..MaxGen : g = gen["window"] + 1
      BY <2>0, <3>1, Bounds, GenerationKinds DEF Types, TimersTypeOK
    <3>3. at[<<"window", g>>] = "idle"
      BY <2>0, <3>2, GenerationIsFresh DEF OneClientInv
    <3>4. t # <<"window", g>>
      BY <2>0, <3>3
    <3>5. SpawnOutcome(t, "window", g, WindowProgram, Tail(todo[t]))
      BY <1>0, <3>1, <3>2, <3>4, SpawnMoves
    <3>6. CASE todo' = todo
      BY <2>1, <3>6, WindowOwedBy
    <3>7. CASE handle'["window"] = <<"window", g>> /\ todo'[<<"window", g>>] = WindowProgram
      <4>1. ~cancelled'["window"] /\ gen'["window"] = g
        BY <1>0, <3>1, <3>2 DEF Spawn, Types, TimersTypeOK
      <4>2. todo'[WindowThread(g)] = Boundary2 /\ handle'["window"] = WindowThread(g)
        BY <3>7, WindowUnfolds DEF WindowThread
      <4>3. Watches(g)'
        <5>1. WindowThread(g)' = WindowThread(g) /\ Boundary1' = Boundary1 /\ Boundary2' = Boundary2
          BY DEF WindowThread
        <5> QED BY <4>1, <4>2, <5>1 DEF Watches
      <4> QED BY <4>3 DEF WindowOwed
    <3> QED BY <3>5, <3>6, <3>7 DEF SpawnOutcome
  <2> QED BY <2>2, <2>3
<1> QED BY <1>5, <1>6, <1>7, <1>8, <1>9, <1>10, <1>12, <1>13, <1>14 DEF Step


LEMMA NextWindowOwed ==
    ASSUME SingleClient, Types, TimerInv, OneClientInv, SessionWaits, WindowPrograms,
           WindowOwed, [Next]_vars
    PROVE  WindowOwed'
<1>0. /\ WindowParty \subseteq Thread /\ SessionThread \subseteq WindowParty
      /\ \A g \in 1..MaxGen : WindowThread(g) \in WindowParty
      /\ WindowParty' = WindowParty /\ Boundary1' = Boundary1 /\ Boundary2' = Boundary2
      /\ \A g : WindowThread(g)' = WindowThread(g)
  BY WindowThreads DEF WindowParty, SessionThread, WindowThread, LifecycleThread
<1>1. ASSUME UNCHANGED <<state, hasWindows, handle, cancelled, gen>>,
             NEW t \in Thread, ~Schedules(todo[t]),
             todo[t] \notin {Boundary2, Boundary1},
             \A u \in Thread : u # t => todo'[u] = todo[u]
      PROVE  WindowOwed'
  BY <1>0, <1>1, WindowOwedKeeps DEF WindowTimerStays
<1>2. ASSUME UNCHANGED <<state, hasWindows, handle, cancelled, gen>>, todo' = todo
      PROVE  WindowOwed'
  BY <1>2, WindowOwedKeeps DEF WindowTimerStays
<1>3. ASSUME NEW g \in 1..MaxGen, TimerStep("lifecycle", g) PROVE WindowOwed'
  <2>1. PICK t : t = LifecycleThread(g)
    OBVIOUS
  <2>2. t \in Thread /\ t \in SessionThread /\ t = <<"lifecycle", g>> /\ "lifecycle" \in Kind
    BY <2>1, SessionThreads DEF LifecycleThread, Kind, SessionThread
  <2>3. /\ UNCHANGED <<state, hasWindows, handle, cancelled, gen>>
        /\ \A u \in Thread : u # t => todo'[u] = todo[u]
    BY <1>3, <2>2, TimerStepsLeaveSettings, TimerStepMovesOne
  <2>4. \/ todo' = todo
        \/ at[t] = "wait"
        \/ todo[t] # <<>> /\ Head(todo[t]).do \in {"wait", "activate", "check", "autoStop", "expire", "boundary"}
    BY <1>3, <2>2 DEF TimerStep, BeginWait, WaitCancelled, WaitTimesOut, ActivateAfterDelay,
       CheckBeforeWait, AutoStop, NoMotionExpires, BoundaryReached, Runs
  <2>5. todo[t] # <<>> => Head(todo[t]).do \notin {"expire", "boundary"}
    BY <2>2, SessionHeads DEF OneClientInv
  <2>6. at[t] = "wait" => todo[t] # <<>> /\ Head(todo[t]).do \in {"activate", "autoStop"}
    BY <2>2, WaitingHeads DEF SessionWaits
  <2>7. CASE todo' = todo
    BY <1>2, <2>3, <2>7
  <2>8. CASE todo[t] # <<>> /\ Head(todo[t]).do \in {"wait", "activate", "check", "autoStop"}
    <3>1. ~Schedules(todo[t])
      BY <2>8, SchedulesGoOn
    <3>2. \A h \in 1..MaxGen : WindowThread(h) # t
      BY <2>2, WindowThreads
    <3>3. \A u \in WindowParty : Schedules(todo[u]) => Schedules(todo'[u])
      BY <1>0, <2>3, <3>1
    <3>4. \A h \in 1..MaxGen : todo'[WindowThread(h)] = todo[WindowThread(h)]
      BY <1>0, <2>3, <3>2
    <3> QED BY <2>3, <3>3, <3>4, WindowOwedKeeps DEF WindowTimerStays
  <2> QED BY <2>4, <2>5, <2>6, <2>7, <2>8
<1>4. ASSUME NEW g \in 1..MaxGen, TimerStep("noMotion", g) PROVE WindowOwed'
  <2>1. PICK t : t = <<"noMotion", g>>
    OBVIOUS
  <2>2. t \in Thread /\ t \notin WindowParty /\ "noMotion" \in Kind
    BY <1>4, <2>1, TimerStepMovesOne, SessionThreads DEF WindowParty, WindowThread, Kind,
       GenerationKind
  <2>3. /\ UNCHANGED <<state, hasWindows, handle, cancelled, gen>>
        /\ \A u \in Thread : u # t => todo'[u] = todo[u]
    BY <1>4, <2>1, <2>2, TimerStepsLeaveSettings, TimerStepMovesOne
  <2>4. \A u \in WindowParty : todo'[u] = todo[u]
    BY <1>0, <2>2, <2>3
  <2> QED BY <1>0, <2>3, <2>4, WindowOwedKeeps DEF WindowTimerStays
<1>5. ASSUME NEW g \in 1..MaxGen, TimerStep("window", g) PROVE WindowOwed'
  <2>1. PICK t : t = WindowThread(g)
    OBVIOUS
  <2>2. t \in Thread /\ t \in WindowParty /\ t = <<"window", g>> /\ "window" \in Kind
    BY <1>0, <2>1 DEF WindowThread, Kind
  <2>3. /\ UNCHANGED <<state, hasWindows, handle, cancelled, gen>>
        /\ \A u \in Thread : u # t => todo'[u] = todo[u]
    BY <1>5, <2>2, TimerStepsLeaveSettings, TimerStepMovesOne
  <2>4. CASE todo' = todo
    BY <1>2, <2>3, <2>4
  <2>5. ASSUME ~Schedules(todo[t]), ~Watches(g) PROVE WindowOwed'
    <3>1. \A u \in WindowParty : Schedules(todo[u]) => Schedules(todo'[u])
      BY <1>0, <2>3, <2>5
    <3>2. \A h \in 1..MaxGen : Watches(h) => Watches(h)'
      <4>1. ASSUME NEW h \in 1..MaxGen, Watches(h) PROVE Watches(h)'
        <5>1. h # g /\ WindowThread(h) # t
          BY <2>1, <2>5, <4>1, WindowThreads
        <5>2. todo'[WindowThread(h)] = todo[WindowThread(h)]
          BY <1>0, <2>3, <5>1
        <5> QED BY <1>0, <2>3, <4>1, <5>2 DEF Watches
      <4> QED BY <4>1
    <3> QED BY <1>0, <2>3, <3>1, <3>2, SchedulesIsConstant DEF WindowOwed
  <2>6. CASE todo[t] = Boundary2 /\ todo'[t] = Boundary1
    <3>1. \A u \in WindowParty : Schedules(todo[u]) => Schedules(todo'[u])
      BY <1>0, <2>3, <2>6, BoundaryHeads
    <3>2. \A h \in 1..MaxGen : \/ todo'[WindowThread(h)] = todo[WindowThread(h)]
                               \/ /\ todo[WindowThread(h)] = Boundary2
                                  /\ todo'[WindowThread(h)] = Boundary1
      BY <1>0, <2>1, <2>3, <2>6
    <3> QED BY <2>3, <3>1, <3>2, WindowOwedKeeps DEF WindowTimerStays
  <2>7. CASE todo[t] = Boundary1 /\ WaitOver("window", g)
    <3>1. ~Watches(g)
      BY <2>7 DEF Watches, WaitOver
    <3> QED BY <2>5, <2>7, <3>1, BoundaryHeads
  <2>8. CASE /\ todo[t] = Boundary1
             /\ todo'[t] = (IF gen["window"] # g \/ state # "STARTED" THEN <<>> ELSE Update1)
    <3>1. CASE gen["window"] # g
      BY <2>5, <2>8, <3>1, BoundaryHeads DEF Watches
    <3>2. CASE state # "STARTED"
      BY <2>3, <3>2 DEF WindowOwed
    <3>3. CASE gen["window"] = g /\ state = "STARTED"
      <4>1. Schedules(todo'[t])
        BY <2>8, <3>3 DEF Schedules
      <4> QED BY <2>2, <4>1, WindowOwedBy
    <3> QED BY <3>1, <3>2, <3>3
  <2> QED BY <1>5, <2>1, <2>4, <2>6, <2>7, <2>8, WindowTimerSteps
<1>6. ASSUME NEW t \in Thread, Stop(t) \/ Close(t) PROVE WindowOwed'
  <2>1. /\ UNCHANGED <<state, hasWindows, handle, cancelled, gen>>
        /\ t \in ClientThreads /\ todo[t] = <<>>
    BY <1>6, Callers DEF Stop, Close, sensorVars, timerVars, OneClientInv
  <2>2. PICK program : MovesOnly(t, program)
    BY <1>6, CallMoves DEF OneClientInv
  <2>3. \A u \in Thread : u # t => todo'[u] = todo[u]
    BY <2>2 DEF MovesOnly
  <2>4. <<>> \notin {Boundary2, Boundary1}
    BY WindowParts DEF Parts
  <2> QED BY <1>1, <2>1, <2>3, <2>4, BoundaryHeads
<1>7. ASSUME NEW t \in Thread, NEW cfg \in Configs, Start(t, cfg) PROVE WindowOwed'
  BY <1>7 DEF Start, WindowOwed
<1>8. ASSUME NEW t \in InjectThreads, InjectMotionEvent(t) PROVE WindowOwed'
  <2>1. t \in Thread /\ t \notin WindowParty
    BY Roles, SessionThreads DEF WindowParty, WindowThread, Kind
  <2>2. MovesOnly(t, <<Inject(stamps + 1)>>) /\ UNCHANGED <<state, hasWindows, handle, cancelled, gen>>
    BY <1>8, <2>1, CallMoves DEF OneClientInv, InjectMotionEvent, sensorVars, timerVars
  <2>3. \A u \in WindowParty : todo'[u] = todo[u]
    BY <1>0, <2>1, <2>2 DEF MovesOnly
  <2> QED BY <1>0, <2>2, <2>3, WindowOwedKeeps DEF WindowTimerStays
<1>9. ASSUME NEW t \in Thread, Open(t) \/ SetActiveWindows(t) PROVE WindowOwed'
  <2>1. CASE Open(t)
    BY <1>2, <2>1 DEF Open, threadVars, timerVars
  <2>2. CASE SetActiveWindows(t)
    BY <2>2 DEF SetActiveWindows, WindowOwed
  <2> QED BY <1>9, <2>1, <2>2
<1>10. ASSUME NEW l \in Listeners, RegisterEventListener(l) \/ UnregisterEventListener(l)
       PROVE  WindowOwed'
  BY <1>2, <1>10 DEF RegisterEventListener, UnregisterEventListener, threadVars, timerVars
<1>11. CASE ClientDies \/ DeathNotice
  BY <1>11 DEF ClientDies, DeathNotice, SingleClient
<1>12. CASE Rest \/ UNCHANGED vars
  BY <1>2, <1>12 DEF Rest, vars, threadVars, sensorVars, timerVars
<1>13. ASSUME NEW k \in Kind, NEW g \in 1..MaxGen, TimerStep(k, g) PROVE WindowOwed'
  BY <1>3, <1>4, <1>5, <1>13 DEF Kind
<1> QED BY <1>6, <1>7, <1>8, <1>9, <1>10, <1>11, <1>12, <1>13, StepWindowOwed
     DEF Next, ClientCall


\* What makes a session at rest complete.
RestInv ==
    /\ SessionWaits /\ PoolNeverWaits /\ ProgramsFit
    /\ LifecycleOwed /\ WindowPrograms /\ WindowOwed

LEMMA InitRestInv == ASSUME SingleClient, Init PROVE RestInv
<1>1. PoolThreads \subseteq Thread /\ SessionThread \subseteq Thread
      /\ \A g \in 1..MaxGen : WindowThread(g) \in Thread
  BY TimerThreadsAreThreads, SessionThreads, WindowThreads
<1>2. SessionWaits /\ PoolNeverWaits
  BY <1>1, InitSessionWaits DEF Init, PoolNeverWaits
<1>3. ProgramsFit
  BY <1>1 DEF Init, ProgramsFit, Fits
<1>4. LifecycleOwed /\ WindowOwed
  BY DEF Init, LifecycleOwed, AwaitsLifecycle, WindowOwed
<1>5. WindowPrograms
  BY <1>1 DEF Init, WindowPrograms, WindowWork
<1> QED BY <1>2, <1>3, <1>4, <1>5 DEF RestInv

LEMMA NextRestInv ==
    ASSUME SingleClient, Types, TimerInv, OneClientInv, RestInv, [Next]_vars
    PROVE  RestInv'
<1> USE DEF RestInv
<1>1. SessionWaits' /\ PoolNeverWaits'
  BY NextSessionWaits, NextPoolNeverWaits
<1>2. ProgramsFit' /\ LifecycleOwed'
  BY NextProgramsFit, NextLifecycleOwed
<1>3. WindowPrograms' /\ WindowOwed'
  BY NextWindowPrograms, NextWindowOwed
<1> QED BY <1>1, <1>2, <1>3

\* At rest nobody is in the middle of anything: the threads with work left are
\* timer threads that wait for what the session owes.
LEMMA RestArmsTimers ==
    ASSUME SingleClient, OneClientInv, RestInv
    PROVE  TimersArmed
<1> SUFFICES ASSUME Settled
             PROVE  /\ state # "STOPPING"
                    /\ state = "STARTING" => Pending("lifecycle")
                    /\ state = "STARTED" /\ startConfig.activeStop => Pending("lifecycle")
                    /\ state = "STARTED" /\ hasWindows => Pending("window")
  BY DEF TimersArmed
<1> USE DEF RestInv
<1>0. /\ WindowParty \subseteq Thread /\ SessionThread \subseteq Thread
      /\ \A c \in ClientThreads : c \in PoolThreads /\ c \in SessionThread
      /\ \A g \in 1..MaxGen : LifecycleThread(g) \in SessionThread /\ WindowThread(g) \in Thread
  BY WindowThreads DEF PoolThreads, SessionThread
<1>1. \A t \in Thread : (at[t] = "idle" /\ todo[t] = <<>>) \/ at[t] = "wait"
  BY DEF Settled, OneClientInv, PlacesOK
<1>2. \A c \in ClientThreads : todo[c] = <<>>
  BY <1>0, <1>1 DEF PoolNeverWaits
<1>3. \A t \in SessionThread : \/ todo[t] = <<>>
                               \/ at[t] = "wait" /\ Waiting(todo[t])
  BY <1>0, <1>1 DEF SessionWaits
<1>4. \A t \in SessionThread : ~Schedules(todo[t]) /\ todo[t] # Stop1
  <2>1. Stop1 # <<>> /\ Head(Stop1).do = "change"
    BY StopParts, OpValues DEF Parts
  <2>2. \A p : Waiting(p) => p # Stop1 /\ ~Schedules(p)
    BY <2>1, WaitingHeads, SchedulesGoOn
  <2> QED BY <1>3, <2>1, <2>2, BoundaryHeads
<1>5. state # "STOPPING"
  BY <1>4 DEF LifecycleOwed
<1>6. ASSUME AwaitsLifecycle PROVE Pending("lifecycle")
  <2>1. PICK g \in 1..MaxGen : InCharge(g)
    BY <1>2, <1>6 DEF LifecycleOwed
  <2>2. at[LifecycleThread(g)] = "wait"
    BY <1>0, <1>3, <2>1 DEF InCharge
  <2>3. LifecycleThread(g) # Nobody /\ LifecycleThread(g)[2] = g
    BY Roles DEF LifecycleThread
  <2> QED BY <2>1, <2>2, <2>3 DEF InCharge, Pending
<1>7. ASSUME state = "STARTED", hasWindows PROVE Pending("window")
  <2>1. \A g \in 1..MaxGen : ~Schedules(todo[WindowThread(g)])
    BY <1>0, <1>1, BoundaryHeads DEF WindowPrograms
  <2>2. \A t \in WindowParty : ~Schedules(todo[t])
    BY <1>4, <2>1 DEF WindowParty
  <2>3. PICK g \in 1..MaxGen : Watches(g)
    BY <1>7, <2>2 DEF WindowOwed
  <2>4. Boundary2 # <<>> /\ Boundary1 # <<>>
    BY WindowParts DEF Parts
  <2>5. at[WindowThread(g)] = "wait"
    BY <1>0, <1>1, <2>3, <2>4 DEF Watches
  <2>6. WindowThread(g) # Nobody /\ WindowThread(g)[2] = g
    BY WindowThreads DEF WindowThread
  <2> QED BY <2>3, <2>5, <2>6 DEF Watches, Pending
<1> QED BY <1>5, <1>6, <1>7 DEF AwaitsLifecycle

\* At rest, a session has the threads its future depends on, whatever windows
\* it has, whether or not motion is injected, and however the joins and
\* callbacks of earlier sessions ran: a start with a delay has the thread that
\* will activate it, a session with activeStopSeconds the one that will stop
\* it, and one with windows the one that will notice the next boundary.
THEOREM SettledSessionsAreArmed == SingleClient => (Spec => []TimersArmed)
<1> SUFFICES ASSUME SingleClient PROVE Spec => []TimersArmed
  OBVIOUS
<1>1. Init => RestInv
  BY InitRestInv
<1>2. Types /\ TimerInv /\ OneClientInv /\ RestInv /\ [Next]_vars => RestInv'
  BY NextRestInv
<1>3. OneClientInv /\ RestInv => TimersArmed
  BY RestArmsTimers
<1> QED BY <1>1, <1>2, <1>3, TypesInvariant, TimerInvariant, OneClientInvariant, PTL DEF Spec

=============================================================================
