-------------------------- MODULE OneClientProofs --------------------------
(***************************************************************************)
(* Theorems about a motion sensor whose client makes one call at a time.   *)
(*                                                                         *)
(* The calls of one client, the lifecycle thread and the callbacks of both *)
(* still interleave in every way the mutex allows, with injected motion,   *)
(* with inactivity timers and with window schedulers.  What is left out is *)
(* what the code does not survive: two calls at once, a call made from a   *)
(* callback, and a death while start() runs (runs lost_activation and      *)
(* death_during_start).                                                    *)
(***************************************************************************)
EXTENDS MotionSensorProofs

\* One client thread, which calls from no callback and whose process does not
\* die while it has the sensor open.
SingleClient ==
    /\ \A t \in ClientThreads, u \in ClientThreads : t = u
    /\ ClientThreads \cap InjectThreads = {}
    /\ DeathThreads = {}
    /\ Reentrant = FALSE

LifecycleThread(g) == <<"lifecycle", g>>

-----------------------------------------------------------------------------
(* The programs of the client and of the lifecycle thread, from their ends. *)

Then(op, rest) == <<op>> \o rest

\* what is left of stop(), and of an automatic stop
Stop1 == Then(Change("STOPPED"), <<>>)
Stop2 == Then(Change("STOPPING"), Stop1)
Stop3 == Then(Cancel("window"), Stop2)
Stop4 == Then(Invalidate("noMotion"), Stop3)
Stop5 == Then(Invalidate("lifecycle"), Stop4)
AutoStop4 == Then(Cancel("noMotion"), Stop3)

\* what is left of close()
Close1 == Then(Simple("release"), <<>>)
Close2 == Then(Cancel("window"), Close1)
Close3 == Then(Invalidate("noMotion"), Close2)
Close4 == Then(Invalidate("lifecycle"), Close3)

\* what is left of an activation that goes on with rest
Timer1(rest)  == Then(Simple("armNoMotion"), rest)
Timer2(rest)  == Then(Cancel("noMotion"), Timer1(rest))
Window1(rest) == Then(Simple("armWindow"), Timer2(rest))
Window2(rest) == Then(Cancel("window"), Window1(rest))
Update(rest)  == Then(Simple("update"), Timer2(rest))
Active(rest)  == Then(Change("STARTED"), Update(rest))

Activation(rest) ==
    {Update(rest), Window2(rest), Window1(rest), Timer2(rest), Timer1(rest)}

\* what is left of start() once the lifecycle thread is all that is missing
Arm1(arm) == Then(arm, <<>>)
Arm2(arm) == Then(Cancel("lifecycle"), Arm1(arm))

\* arming a lifecycle thread that activates the session, or one that limits it
DelayOp == {op \in Op : op.do = "armLifecycle" /\ op.delayed}
LimitOp == {op \in Op : op.do = "armLifecycle" /\ ~op.delayed /\ op.stops}

\* what start() does after an activation
StartRest == {<<>>} \cup {Arm2(arm) : arm \in LimitOp}

\* what the lifecycle thread does after an activation
Limit1 == Then(Simple("autoStop"), <<>>)
Limit2 == Then(Simple("wait"), Limit1)
LifecycleRest == {<<>>, Limit2}

Delay1(rest) == Then(Simple("activate"), rest)
Delay2(rest) == Then(Simple("wait"), Delay1(rest))
Limit3 == Then(Simple("check"), Limit2)

LEMMA ThenFacts ==
    ASSUME NEW op \in Op, NEW rest \in Program
    PROVE  /\ Then(op, rest) \in Program
           /\ Then(op, rest) # <<>>
           /\ Head(Then(op, rest)) = op
           /\ Tail(Then(op, rest)) = rest
<1> DEFINE s == Then(op, rest)
<1>1. <<op>> \in Program /\ Len(<<op>>) = 1 /\ <<op>>[1] = op
  BY ProgramTypes
<1>2. Len(rest) \in Nat
  BY LenProperties DEF Program
<1>3. /\ s \in Program
      /\ Len(s) = 1 + Len(rest)
      /\ \A i \in 1..(1 + Len(rest)) : s[i] = IF i <= 1 THEN op ELSE rest[i - 1]
  BY <1>1, <1>2, ConcatProperties DEF Then, Program
<1>4. s # <<>>
  BY <1>2, <1>3, EmptySeq
<1>5. Head(s) = op
  BY <1>2, <1>3, <1>4
<1>6. /\ Tail(s) \in Program
      /\ Len(Tail(s)) = Len(rest)
      /\ \A i \in 1..Len(Tail(s)) : Tail(s)[i] = s[i + 1]
  BY <1>2, <1>3, <1>4, HeadTailProperties DEF Program
<1>7. \A i \in 1..Len(rest) : s[i + 1] = rest[i]
  BY <1>2, <1>3
<1>8. Tail(s) = rest
  BY <1>6, <1>7, SeqEqual DEF Program
<1> QED BY <1>3, <1>4, <1>5, <1>8

LEMMA TwoOps ==
    ASSUME NEW a \in Op, NEW b \in Op, NEW rest \in Program
    PROVE  /\ <<a, b>> = Then(a, Then(b, <<>>))
           /\ <<a, b>> \o rest = Then(a, Then(b, rest))
<1>1. <<a>> \in Program /\ <<b>> \in Program /\ <<a, b>> \in Program
  BY ProgramTypes
<1>2. <<a>> \o <<b>> = <<a, b>>
  <2>1. /\ <<a>> \o <<b>> \in Program
        /\ Len(<<a>> \o <<b>>) = 2
        /\ \A i \in 1..2 : (<<a>> \o <<b>>)[i] = IF i <= 1 THEN <<a>>[i] ELSE <<b>>[i - 1]
    BY <1>1, ConcatProperties DEF Program
  <2>2. \A i \in 1..2 : (<<a>> \o <<b>>)[i] = <<a, b>>[i]
    BY <2>1
  <2> QED BY <1>1, <2>1, <2>2, SeqEqual DEF Program
<1>3. Then(b, <<>>) = <<b>>
  BY <1>1, ConcatEmptySeq DEF Then, Program
<1>4. (<<a>> \o <<b>>) \o rest = <<a>> \o (<<b>> \o rest)
  BY <1>1, ConcatAssociative DEF Program
<1> QED BY <1>2, <1>3, <1>4 DEF Then

LEMMA ThreeOps ==
    ASSUME NEW a \in Op, NEW b \in Op, NEW c \in Op, NEW rest \in Program
    PROVE  <<a, b, c>> \o rest = Then(a, Then(b, Then(c, rest)))
<1>1. <<a>> \in Program /\ <<b, c>> \in Program /\ <<a, b, c>> \in Program
  BY ProgramTypes
<1>2. <<a>> \o <<b, c>> = <<a, b, c>>
  <2>1. /\ <<a>> \o <<b, c>> \in Program
        /\ Len(<<a>> \o <<b, c>>) = 3
        /\ \A i \in 1..3 :
              (<<a>> \o <<b, c>>)[i] = IF i <= 1 THEN <<a>>[i] ELSE <<b, c>>[i - 1]
    BY <1>1, ConcatProperties DEF Program
  <2>2. \A i \in 1..3 : (<<a>> \o <<b, c>>)[i] = <<a, b, c>>[i]
    <3>1. (<<a>> \o <<b, c>>)[1] = a /\ (<<a>> \o <<b, c>>)[2] = b
      BY <2>1
    <3>2. (<<a>> \o <<b, c>>)[3] = c
      BY <2>1
    <3> QED BY <3>1, <3>2
  <2> QED BY <1>1, <2>1, <2>2, SeqEqual DEF Program
<1>3. (<<a>> \o <<b, c>>) \o rest = <<a>> \o (<<b, c>> \o rest)
  BY <1>1, ConcatAssociative DEF Program
<1> QED BY <1>2, <1>3, TwoOps DEF Then

\* A program that starts with op and goes on with rest.
Parts(program, op, rest) ==
    /\ program \in Program /\ program # <<>>
    /\ Head(program) = op /\ Tail(program) = rest

LEMMA OpValues ==
    /\ \A s : Change(s).do = "change" /\ Change(s).to = s
    /\ \A k : Cancel(k).do = "cancel" /\ Cancel(k).timer = k
    /\ \A k : Invalidate(k).do = "invalidate" /\ Invalidate(k).timer = k
    /\ \A n : Inject(n).do = "inject" /\ Record(n).do = "record"
    /\ \A n : Inject(n).stamp = n /\ Record(n).stamp = n
    /\ \A g, d, s : /\ ArmLifecycle(g, d, s).do = "armLifecycle"
                    /\ ArmLifecycle(g, d, s).timer = g
                    /\ ArmLifecycle(g, d, s).delayed = d
                    /\ ArmLifecycle(g, d, s).stops = s
    /\ \A name : Simple(name).do = name
BY DEF Change, Cancel, Invalidate, Inject, Record, ArmLifecycle, Simple

LEMMA ThenParts ==
    ASSUME NEW op \in Op, NEW rest \in Program
    PROVE  Parts(Then(op, rest), op, rest)
BY ThenFacts DEF Parts

LEMMA StopParts ==
    /\ Parts(Stop1, Change("STOPPED"), <<>>)
    /\ Parts(Stop2, Change("STOPPING"), Stop1)
    /\ Parts(Stop3, Cancel("window"), Stop2)
    /\ Parts(Stop4, Invalidate("noMotion"), Stop3)
    /\ Parts(Stop5, Invalidate("lifecycle"), Stop4)
    /\ Parts(AutoStop4, Cancel("noMotion"), Stop3)
<1>1. /\ Change("STOPPED") \in Op /\ Change("STOPPING") \in Op /\ Cancel("window") \in Op
      /\ Invalidate("noMotion") \in Op /\ Invalidate("lifecycle") \in Op
      /\ Cancel("noMotion") \in Op /\ <<>> \in Program
  BY OpTypes, ProgramTypes DEF State, Kind
<1>2. Parts(Stop1, Change("STOPPED"), <<>>)
  BY <1>1, ThenParts DEF Stop1
<1>3. Parts(Stop2, Change("STOPPING"), Stop1)
  BY <1>1, <1>2, ThenParts DEF Stop2, Parts
<1>4. Parts(Stop3, Cancel("window"), Stop2)
  BY <1>1, <1>3, ThenParts DEF Stop3, Parts
<1>5. Parts(Stop4, Invalidate("noMotion"), Stop3)
  BY <1>1, <1>4, ThenParts DEF Stop4, Parts
<1>6. Parts(Stop5, Invalidate("lifecycle"), Stop4)
  BY <1>1, <1>5, ThenParts DEF Stop5, Parts
<1>7. Parts(AutoStop4, Cancel("noMotion"), Stop3)
  BY <1>1, <1>4, ThenParts DEF AutoStop4, Parts
<1> QED BY <1>2, <1>3, <1>4, <1>5, <1>6, <1>7

LEMMA CloseParts ==
    /\ Parts(Close1, Simple("release"), <<>>)
    /\ Parts(Close2, Cancel("window"), Close1)
    /\ Parts(Close3, Invalidate("noMotion"), Close2)
    /\ Parts(Close4, Invalidate("lifecycle"), Close3)
<1>1. /\ Simple("release") \in Op /\ Cancel("window") \in Op
      /\ Invalidate("noMotion") \in Op /\ Invalidate("lifecycle") \in Op
      /\ <<>> \in Program
  BY OpTypes, ProgramTypes DEF SimpleNames, Kind
<1>2. Parts(Close1, Simple("release"), <<>>)
  BY <1>1, ThenParts DEF Close1
<1>3. Parts(Close2, Cancel("window"), Close1)
  BY <1>1, <1>2, ThenParts DEF Close2, Parts
<1>4. Parts(Close3, Invalidate("noMotion"), Close2)
  BY <1>1, <1>3, ThenParts DEF Close3, Parts
<1>5. Parts(Close4, Invalidate("lifecycle"), Close3)
  BY <1>1, <1>4, ThenParts DEF Close4, Parts
<1> QED BY <1>2, <1>3, <1>4, <1>5

LEMMA ActivationParts ==
    ASSUME NEW rest \in Program
    PROVE  /\ Parts(Timer1(rest), Simple("armNoMotion"), rest)
           /\ Parts(Timer2(rest), Cancel("noMotion"), Timer1(rest))
           /\ Parts(Window1(rest), Simple("armWindow"), Timer2(rest))
           /\ Parts(Window2(rest), Cancel("window"), Window1(rest))
           /\ Parts(Update(rest), Simple("update"), Timer2(rest))
           /\ Parts(Active(rest), Change("STARTED"), Update(rest))
           /\ Parts(Then(Change("STARTING"), Active(rest)), Change("STARTING"), Active(rest))
<1>1. /\ Simple("armNoMotion") \in Op /\ Simple("armWindow") \in Op /\ Simple("update") \in Op
      /\ Cancel("noMotion") \in Op /\ Cancel("window") \in Op /\ Change("STARTED") \in Op
      /\ Change("STARTING") \in Op
  BY OpTypes DEF SimpleNames, Kind, State
<1>2. Parts(Timer1(rest), Simple("armNoMotion"), rest)
  BY <1>1, ThenParts DEF Timer1
<1>3. Parts(Timer2(rest), Cancel("noMotion"), Timer1(rest))
  BY <1>1, <1>2, ThenParts DEF Timer2, Parts
<1>4. Parts(Window1(rest), Simple("armWindow"), Timer2(rest))
  BY <1>1, <1>3, ThenParts DEF Window1, Parts
<1>5. Parts(Window2(rest), Cancel("window"), Window1(rest))
  BY <1>1, <1>4, ThenParts DEF Window2, Parts
<1>6. Parts(Update(rest), Simple("update"), Timer2(rest))
  BY <1>1, <1>3, ThenParts DEF Update, Parts
<1>7. Parts(Active(rest), Change("STARTED"), Update(rest))
  BY <1>1, <1>6, ThenParts DEF Active, Parts
<1>8. Parts(Then(Change("STARTING"), Active(rest)), Change("STARTING"), Active(rest))
  BY <1>1, <1>7, ThenParts DEF Parts
<1> QED BY <1>2, <1>3, <1>4, <1>5, <1>6, <1>7, <1>8

LEMMA ArmParts ==
    ASSUME NEW arm \in Op
    PROVE  /\ Parts(Arm1(arm), arm, <<>>)
           /\ Parts(Arm2(arm), Cancel("lifecycle"), Arm1(arm))
           /\ Parts(Then(Change("STARTING"), Arm2(arm)), Change("STARTING"), Arm2(arm))
<1>1. Cancel("lifecycle") \in Op /\ Change("STARTING") \in Op /\ <<>> \in Program
  BY OpTypes, ProgramTypes DEF Kind, State
<1>2. Parts(Arm1(arm), arm, <<>>)
  BY <1>1, ThenParts DEF Arm1
<1>3. Parts(Arm2(arm), Cancel("lifecycle"), Arm1(arm))
  BY <1>1, <1>2, ThenParts DEF Arm2, Parts
<1> QED BY <1>1, <1>2, <1>3, ThenParts DEF Parts

LEMMA ArmOps ==
    /\ DelayOp \subseteq Op /\ LimitOp \subseteq Op
    /\ \A arm \in DelayOp \cup LimitOp :
          arm.do = "armLifecycle" /\ arm.timer \in 1..MaxGen
BY OpFields DEF DelayOp, LimitOp

LEMMA LifecycleParts ==
    /\ Parts(Limit1, Simple("autoStop"), <<>>)
    /\ Parts(Limit2, Simple("wait"), Limit1)
    /\ Parts(Limit3, Simple("check"), Limit2)
    /\ \A rest \in Program : /\ Parts(Delay1(rest), Simple("activate"), rest)
                              /\ Parts(Delay2(rest), Simple("wait"), Delay1(rest))
<1>1. /\ Simple("autoStop") \in Op /\ Simple("wait") \in Op /\ Simple("check") \in Op
      /\ Simple("activate") \in Op /\ <<>> \in Program
  BY OpTypes, ProgramTypes DEF SimpleNames
<1>2. Parts(Limit1, Simple("autoStop"), <<>>)
  BY <1>1, ThenParts DEF Limit1
<1>3. Parts(Limit2, Simple("wait"), Limit1)
  BY <1>1, <1>2, ThenParts DEF Limit2, Parts
<1>4. Parts(Limit3, Simple("check"), Limit2)
  BY <1>1, <1>3, ThenParts DEF Limit3, Parts
<1>5. ASSUME NEW rest \in Program
      PROVE  /\ Parts(Delay1(rest), Simple("activate"), rest)
             /\ Parts(Delay2(rest), Simple("wait"), Delay1(rest))
  <2>1. Parts(Delay1(rest), Simple("activate"), rest)
    BY <1>1, ThenParts DEF Delay1
  <2> QED BY <1>1, <2>1, ThenParts DEF Delay2, Parts
<1> QED BY <1>2, <1>3, <1>4, <1>5

LEMMA RestPrograms == StartRest \subseteq Program /\ LifecycleRest \subseteq Program
<1>1. \A arm \in LimitOp : Arm2(arm) \in Program
  BY ArmParts, ArmOps DEF Parts
<1>2. <<>> \in Program /\ Limit2 \in Program
  BY LifecycleParts, ProgramTypes DEF Parts
<1> QED BY <1>1, <1>2 DEF StartRest, LifecycleRest

-----------------------------------------------------------------------------
(* The programs of MotionSensor are these.                                  *)

LEMMA StopUnfolds ==
    /\ StopProgram = Stop5
    /\ <<Cancel("noMotion"), Cancel("window")>> \o GoDown = AutoStop4
    /\ ReleaseController = Close4
<1>1. /\ Change("STOPPED") \in Op /\ Change("STOPPING") \in Op /\ Cancel("window") \in Op
      /\ Invalidate("noMotion") \in Op /\ Invalidate("lifecycle") \in Op
      /\ Cancel("noMotion") \in Op /\ Simple("release") \in Op /\ <<>> \in Program
  BY OpTypes, ProgramTypes DEF State, Kind, SimpleNames
<1>2. GoDown = Stop2 /\ Stop2 \in Program
  BY <1>1, TwoOps, StopParts DEF GoDown, Stop2, Stop1, Parts
<1>3. <<Simple("release")>> = Close1 /\ Close1 \in Program
  BY <1>1, CloseParts, ProgramTypes, ConcatEmptySeq DEF Close1, Then, Parts, Program
<1>4. StopProgram = Stop5
  BY <1>1, <1>2, ThreeOps DEF StopProgram, InvalidateTimers, Stop5, Stop4, Stop3
<1>5. <<Cancel("noMotion"), Cancel("window")>> \o GoDown = AutoStop4
  BY <1>1, <1>2, TwoOps DEF AutoStop4, Stop3
<1>6. ReleaseController = Close4
  <2>1. InvalidateTimers \o Close1
          = Then(Invalidate("lifecycle"),
                 Then(Invalidate("noMotion"), Then(Cancel("window"), Close1)))
    BY <1>1, <1>3, ThreeOps DEF InvalidateTimers
  <2>2. ReleaseController = InvalidateTimers \o Close1
    BY <1>3 DEF ReleaseController
  <2> QED BY <2>1, <2>2 DEF Close4, Close3, Close2
<1> QED BY <1>4, <1>5, <1>6

LEMMA ActivationUnfolds ==
    ASSUME NEW rest \in Program
    PROVE  /\ Activate \o rest = Active(rest)
           /\ ScheduleActiveWindow \o Timer2(rest) = Window2(rest)
<1>1. /\ Simple("armNoMotion") \in Op /\ Simple("armWindow") \in Op /\ Simple("update") \in Op
      /\ Cancel("noMotion") \in Op /\ Cancel("window") \in Op /\ Change("STARTED") \in Op
  BY OpTypes DEF SimpleNames, Kind, State
<1>2. StartNoMotionTimer \in Program /\ <<Change("STARTED"), Simple("update")>> \in Program
  BY <1>1, TimerProgramTypes, ProgramTypes
<1>3. Activate \o rest = <<Change("STARTED"), Simple("update")>> \o (StartNoMotionTimer \o rest)
  BY <1>2, ConcatAssociative DEF Activate, Program
<1>4. StartNoMotionTimer \o rest = Timer2(rest) /\ Timer2(rest) \in Program
  <2>1. StartNoMotionTimer \o rest
          = Then(Cancel("noMotion"), Then(Simple("armNoMotion"), rest))
    BY <1>1, TwoOps DEF StartNoMotionTimer
  <2>2. Timer2(rest) \in Program
    BY ActivationParts DEF Parts
  <2> QED BY <2>1, <2>2 DEF Timer2, Timer1
<1>5. Activate \o rest = Active(rest)
  BY <1>1, <1>3, <1>4, TwoOps DEF Active, Update
<1>6. ScheduleActiveWindow \o Timer2(rest) = Window2(rest)
  BY <1>1, <1>4, TwoOps DEF ScheduleActiveWindow, Window2, Window1
<1> QED BY <1>5, <1>6

LEMMA StartUnfolds ==
    ASSUME NEW cfg \in StartConfig, NEW g \in 1..MaxGen
    PROVE  \/ \E arm \in DelayOp : StartProgram(cfg, g) = Then(Change("STARTING"), Arm2(arm))
           \/ \E rest \in StartRest : StartProgram(cfg, g) = Then(Change("STARTING"), Active(rest))
<1>1. \A d \in BOOLEAN, s \in BOOLEAN :
         StartLifecycleTimer(g, d, s) = Arm2(ArmLifecycle(g, d, s))
  <2> SUFFICES ASSUME NEW d \in BOOLEAN, NEW s \in BOOLEAN
               PROVE  StartLifecycleTimer(g, d, s) = Arm2(ArmLifecycle(g, d, s))
    OBVIOUS
  <2>1. Cancel("lifecycle") \in Op /\ ArmLifecycle(g, d, s) \in Op /\ <<>> \in Program
    BY OpTypes, ProgramTypes DEF Kind
  <2>2. <<Cancel("lifecycle"), ArmLifecycle(g, d, s)>>
          = Then(Cancel("lifecycle"), Then(ArmLifecycle(g, d, s), <<>>))
    BY <2>1, TwoOps
  <2> QED BY <2>2 DEF StartLifecycleTimer, Arm2, Arm1
<1>2. /\ ArmLifecycle(g, FALSE, TRUE) \in LimitOp
      /\ ArmLifecycle(g, TRUE, cfg.activeStop) \in DelayOp
  BY DEF StartConfig, Op, ArmLifecycle, DelayOp, LimitOp
<1>3. <<>> \in StartRest /\ Arm2(ArmLifecycle(g, FALSE, TRUE)) \in StartRest
  BY <1>2 DEF StartRest
<1>4. CASE cfg.activeStart
  <2>1. cfg.activeStop \in BOOLEAN
    BY DEF StartConfig
  <2>2. StartLifecycleTimer(g, TRUE, cfg.activeStop) = Arm2(ArmLifecycle(g, TRUE, cfg.activeStop))
    BY <1>1, <2>1
  <2>3. StartProgram(cfg, g)
          = Then(Change("STARTING"), Arm2(ArmLifecycle(g, TRUE, cfg.activeStop)))
    BY <1>4, <2>2 DEF StartProgram, Then
  <2> QED BY <1>2, <2>3
<1>5. CASE ~cfg.activeStart
  <2>1. StartLifecycleTimer(g, FALSE, TRUE) = Arm2(ArmLifecycle(g, FALSE, TRUE))
    BY <1>1
  <2>2. \E rest \in StartRest : StartProgram(cfg, g) = <<Change("STARTING")>> \o (Activate \o rest)
    BY <1>3, <1>5, <2>1 DEF StartProgram
  <2> QED BY <2>2, RestPrograms, ActivationUnfolds DEF Then
<1> QED BY <1>4, <1>5

LEMMA LifecycleUnfolds ==
    ASSUME NEW stops \in BOOLEAN
    PROVE  /\ \E rest \in LifecycleRest : LifecycleProgram(TRUE, stops) = Delay2(rest)
           /\ LifecycleProgram(FALSE, TRUE) = Limit3
<1>1. /\ Simple("wait") \in Op /\ Simple("activate") \in Op /\ Simple("check") \in Op
      /\ Simple("autoStop") \in Op /\ <<>> \in Program
  BY OpTypes, ProgramTypes DEF SimpleNames
<1>2. <<Simple("wait"), Simple("autoStop")>> = Limit2
  BY <1>1, TwoOps DEF Limit2, Limit1
<1>3. \A rest \in Program : <<Simple("wait"), Simple("activate")>> \o rest = Delay2(rest)
  BY <1>1, TwoOps DEF Delay2, Delay1
<1>4. <<>> \in LifecycleRest /\ Limit2 \in LifecycleRest
  BY DEF LifecycleRest
<1>5. \E rest \in LifecycleRest : LifecycleProgram(TRUE, stops) = Delay2(rest)
  BY <1>2, <1>3, <1>4, RestPrograms DEF LifecycleProgram
<1>6. LifecycleProgram(FALSE, TRUE) = Limit3
  BY <1>2 DEF LifecycleProgram, Limit3, Then
<1> QED BY <1>5, <1>6

-----------------------------------------------------------------------------
(* The inductive invariant.                                                 *)

\* No lifecycle thread has anything left to do.
LifecycleIdle == \A g \in 1..MaxGen : todo[LifecycleThread(g)] = <<>>

\* A lifecycle thread has work only in the state that its work is for.
LifecyclePhase(g) ==
    LET program == todo[LifecycleThread(g)]
    IN  \/ program = <<>>
        \/ /\ state = "STARTING"
           /\ \E rest \in LifecycleRest :
                 program \in {Delay2(rest), Delay1(rest), Active(rest)}
        \/ /\ state = "STARTED"
           /\ \/ \E rest \in LifecycleRest : program \in Activation(rest)
              \/ program \in {Limit3, Limit2, Limit1, AutoStop4, Stop3, Stop2}
        \/ state = "STOPPING" /\ program = Stop1

\* Where the client is in its call decides the state, and whether a lifecycle
\* thread may be at work besides: while start() runs there is none, and
\* stop() has joined it before it changes the state.
Beginning(c) ==
    /\ state = "STOPPED" /\ owner # 0
    /\ \/ \E arm \in DelayOp : todo[c] = Then(Change("STARTING"), Arm2(arm))
       \/ \E rest \in StartRest : todo[c] = Then(Change("STARTING"), Active(rest))

Delaying(c) ==
    /\ state = "STARTING" /\ owner # 0 /\ LifecycleIdle
    /\ \E arm \in DelayOp : \/ todo[c] = Arm2(arm)
                            \/ (todo[c] = Arm1(arm) /\ handle["lifecycle"] = Nobody)

Activating(c) ==
    /\ owner # 0 /\ LifecycleIdle
    /\ \E rest \in StartRest : \/ (state = "STARTING" /\ todo[c] = Active(rest))
                               \/ (state = "STARTED" /\ todo[c] \in Activation(rest))

Limiting(c) ==
    /\ state = "STARTED" /\ owner # 0 /\ LifecycleIdle
    /\ \E arm \in LimitOp : \/ todo[c] = Arm2(arm)
                            \/ (todo[c] = Arm1(arm) /\ handle["lifecycle"] = Nobody)

Stopping(c) ==
    \/ state # "STARTING" /\ todo[c] = Stop5
    \/ /\ state # "STARTING" /\ todo[c] = Stop4
       /\ \/ LifecycleIdle
          \/ \E g \in 1..MaxGen : at[c] = "join" /\ target[c] = LifecycleThread(g)
    \/ state # "STARTING" /\ todo[c] \in {Stop3, Stop2} /\ LifecycleIdle
    \/ state = "STOPPING" /\ todo[c] = Stop1 /\ LifecycleIdle

Closing(c) == state = "STOPPED" /\ todo[c] \in {Close4, Close3, Close2, Close1}

ClientPhase(c) ==
    \/ todo[c] = <<>>
    \/ Beginning(c) \/ Delaying(c) \/ Activating(c) \/ Limiting(c)
    \/ Stopping(c) \/ Closing(c)

\* A lifecycle thread that is alive is within reach: the handle owns it, or
\* the client is joining it.
LifecycleWithinReach ==
    \A g \in 1..MaxGen :
        at[LifecycleThread(g)] # "idle" =>
            \/ handle["lifecycle"] = LifecycleThread(g)
            \/ \E c \in ClientThreads : target[c] = LifecycleThread(g)

\* Only the client joins lifecycle threads, and no new one exists meanwhile.
LifecycleJoins ==
    \A t \in Thread, g \in 1..MaxGen :
        target[t] = LifecycleThread(g) =>
            /\ t \in ClientThreads
            /\ handle["lifecycle"] = Nobody
            /\ cancelled["lifecycle"]

\* The operations of the other threads.
NoMotionOp == {op \in Op : op.do \in {"wait", "expire", "record"}}
WindowOp == {op \in Op : \/ op.do \in {"wait", "boundary", "update", "armWindow"}
                         \/ op = Cancel("window")}
InjectOp == {op \in Op : \/ op.do \in {"inject", "record", "armNoMotion"}
                         \/ op = Cancel("noMotion")}

OtherPrograms ==
    /\ \A g \in 1..MaxGen : /\ todo[<<"noMotion", g>>] \in Seq(NoMotionOp)
                            /\ todo[<<"window", g>>] \in Seq(WindowOp)
    /\ \A t \in InjectThreads : todo[t] \in Seq(InjectOp)

\* A thread joins only while it is at the join, and an idle one has no work.
PlacesOK ==
    \A t \in Thread : /\ target[t] # Nobody => at[t] = "join"
                      /\ at[t] = "idle" => todo[t] = <<>>

\* What the invariant says of the session.
SessionInv ==
    /\ \A g \in 1..MaxGen : LifecyclePhase(g)
    /\ \A c \in ClientThreads : ClientPhase(c)
    /\ LifecycleWithinReach
    /\ LifecycleJoins

OneClientInv == SessionInv /\ OtherPrograms /\ PlacesOK

-----------------------------------------------------------------------------
(* Which threads there are, and how their moves look from the others.       *)

LEMMA Roles ==
    ASSUME SingleClient
    PROVE  /\ \A c \in ClientThreads : c \in Thread /\ c \notin InjectThreads
           /\ \A c \in ClientThreads, k \in Kind, g \in 1..MaxGen : c # <<k, g>>
           /\ \A t \in InjectThreads : t \in Thread
           /\ \A t \in InjectThreads, k \in Kind, g \in 1..MaxGen : t # <<k, g>>
           /\ \A g \in 1..MaxGen : LifecycleThread(g) \in Thread
           /\ \A t \in Thread : \/ t \in ClientThreads \/ t \in InjectThreads
                                \/ \E k \in Kind, g \in 1..MaxGen : t = <<k, g>>
           /\ \A c \in ClientThreads, g \in 1..MaxGen : c # LifecycleThread(g)
           /\ \A g \in 1..MaxGen : LifecycleThread(g) # Nobody
           /\ \A g \in 1..MaxGen, h \in 1..MaxGen :
                 LifecycleThread(g) = LifecycleThread(h) => g = h
           /\ \A g \in 1..MaxGen, k \in GenerationKind, h \in 1..MaxGen :
                 <<k, h>> # LifecycleThread(g)
<1>1. "lifecycle" \in Kind
  BY DEF Kind
<1>2. \A t \in PoolThreads, k \in Kind, g \in 1..MaxGen : t # <<k, g>>
  BY TimerThreadsAreThreads
<1>3. ClientThreads \subseteq PoolThreads /\ InjectThreads \subseteq PoolThreads
  BY DEF PoolThreads
<1>4. PoolThreads \subseteq Thread
  BY TimerThreadsAreThreads
<1>5. \A g \in 1..MaxGen : LifecycleThread(g) \in Thread /\ LifecycleThread(g) # Nobody
  BY <1>1, TimerThreadsAreThreads DEF LifecycleThread
<1>6. \A t \in Thread : \/ t \in ClientThreads \/ t \in InjectThreads
                        \/ \E k \in Kind, g \in 1..MaxGen : t = <<k, g>>
  BY DEF Thread, PoolThreads, TimerThreads, SingleClient
<1>7. \A c \in ClientThreads : c \notin InjectThreads
  BY DEF SingleClient
<1>8. \A g \in 1..MaxGen, k \in GenerationKind, h \in 1..MaxGen :
         <<k, h>> # LifecycleThread(g)
  BY GenerationKinds DEF LifecycleThread
<1>9. \A g \in 1..MaxGen, h \in 1..MaxGen : LifecycleThread(g) = LifecycleThread(h) => g = h
  BY DEF LifecycleThread
<1>10. \A c \in ClientThreads, g \in 1..MaxGen : c # LifecycleThread(g)
  BY <1>1, <1>2, <1>3 DEF LifecycleThread
<1> QED BY <1>2, <1>3, <1>4, <1>5, <1>6, <1>7, <1>8, <1>9, <1>10

\* The threads whose programs are about the session.
SessionThread == ClientThreads \cup {LifecycleThread(g) : g \in 1..MaxGen}

\* A step of t that leaves the session and the lifecycle timer alone, and the
\* other threads of the session where they are.
Frame(t) ==
    /\ state' = state
    /\ owner' = owner \/ owner' # 0
    /\ handle'["lifecycle"] = handle["lifecycle"]
    /\ cancelled'["lifecycle"] = cancelled["lifecycle"]
    /\ \A u \in SessionThread : u # t => /\ todo'[u] = todo[u]
                                        /\ at'[u] = at[u]
                                        /\ target'[u] = target[u]
    /\ \A u \in Thread : u # t => target'[u] = target[u]
    /\ \A g \in 1..MaxGen : target'[t] = LifecycleThread(g) => target[t] = LifecycleThread(g)

LEMMA ClientFrame ==
    ASSUME SingleClient, Types, SessionInv, NEW c \in ClientThreads, Frame(c), ClientPhase(c)',
           \A g \in 1..MaxGen : target[c] = LifecycleThread(g) =>
               target'[c] = target[c] \/ at[LifecycleThread(g)] = "idle"
    PROVE  SessionInv'
<1>1. \A g \in 1..MaxGen : /\ todo'[LifecycleThread(g)] = todo[LifecycleThread(g)]
                           /\ at'[LifecycleThread(g)] = at[LifecycleThread(g)]
  BY Roles DEF Frame, SessionThread
<1>2. ASSUME NEW g \in 1..MaxGen PROVE LifecyclePhase(g)'
  <2>1. LifecyclePhase(g)
    BY DEF SessionInv
  <2> QED BY <1>1, <2>1 DEF LifecyclePhase, Frame
<1>3. ASSUME NEW d \in ClientThreads PROVE ClientPhase(d)'
  <2>1. d = c
    BY DEF SingleClient
  <2> QED BY <2>1
<1>4. LifecycleWithinReach'
  BY <1>1 DEF SessionInv, LifecycleWithinReach, Frame, SingleClient
<1>5. LifecycleJoins'
  BY DEF SessionInv, LifecycleJoins, Frame
<1> QED BY <1>2, <1>3, <1>4, <1>5 DEF SessionInv

LEMMA ClientPhaseStays ==
    ASSUME NEW c \in ClientThreads, ClientPhase(c),
           todo'[c] = todo[c], at'[c] = at[c] \/ at[c] # "join", target'[c] = target[c],
           state' = state, owner' = owner \/ owner' # 0,
           handle'["lifecycle"] = handle["lifecycle"],
           LifecycleIdle => LifecycleIdle'
    PROVE  ClientPhase(c)'
<1>1. CASE todo[c] = <<>> \/ Closing(c)
  BY <1>1 DEF ClientPhase, Closing
<1>2. CASE Beginning(c)
  BY <1>2 DEF ClientPhase, Beginning
<1>3. CASE Delaying(c)
  BY <1>3 DEF ClientPhase, Delaying
<1>4. CASE Activating(c)
  BY <1>4 DEF ClientPhase, Activating
<1>5. CASE Limiting(c)
  BY <1>5 DEF ClientPhase, Limiting
<1>6. CASE Stopping(c)
  BY <1>6 DEF ClientPhase, Stopping
<1> QED BY <1>1, <1>2, <1>3, <1>4, <1>5, <1>6 DEF ClientPhase

LEMMA OtherFrame ==
    ASSUME SingleClient, Types, SessionInv, NEW t \in Thread, Frame(t),
           t \notin SessionThread
    PROVE  SessionInv'
<1>1. \A u \in SessionThread :
         todo'[u] = todo[u] /\ at'[u] = at[u] /\ target'[u] = target[u]
  BY DEF Frame
<1>2. \A g \in 1..MaxGen : LifecycleThread(g) \in SessionThread
  BY DEF SessionThread
<1>3. LifecycleIdle => LifecycleIdle'
  BY <1>1, <1>2 DEF LifecycleIdle
<1>4. ASSUME NEW g \in 1..MaxGen PROVE LifecyclePhase(g)'
  <2>1. LifecyclePhase(g)
    BY DEF SessionInv
  <2> QED BY <1>1, <1>2, <2>1 DEF LifecyclePhase, Frame
<1>5. ASSUME NEW c \in ClientThreads PROVE ClientPhase(c)'
  <2>1. c \in SessionThread /\ ClientPhase(c)
    BY DEF SessionThread, SessionInv
  <2> QED BY <1>1, <1>3, <2>1, ClientPhaseStays DEF Frame
<1>6. LifecycleWithinReach'
  BY <1>1, <1>2 DEF SessionInv, LifecycleWithinReach, Frame, SessionThread
<1>7. LifecycleJoins'
  BY DEF SessionInv, LifecycleJoins, Frame
<1> QED BY <1>4, <1>5, <1>6, <1>7 DEF SessionInv

LEMMA LifecycleFrame ==
    ASSUME SingleClient, Types, SessionInv, NEW g \in 1..MaxGen, Frame(LifecycleThread(g)),
           LifecyclePhase(g)',
           todo[LifecycleThread(g)] = <<>> => todo'[LifecycleThread(g)] = <<>>,
           at[LifecycleThread(g)] = "idle" => at'[LifecycleThread(g)] = "idle"
    PROVE  SessionInv'
<1> DEFINE t == LifecycleThread(g)
<1>1. \A u \in SessionThread : u # t =>
         todo'[u] = todo[u] /\ at'[u] = at[u] /\ target'[u] = target[u]
  BY DEF Frame
<1>2. \A h \in 1..MaxGen : /\ LifecycleThread(h) \in SessionThread
                           /\ LifecycleThread(h) = t => h = g
  BY Roles DEF SessionThread
<1>3. LifecycleIdle => LifecycleIdle'
  BY <1>1, <1>2 DEF LifecycleIdle
<1>4. ASSUME NEW h \in 1..MaxGen PROVE LifecyclePhase(h)'
  <2>1. CASE h = g
    BY <2>1
  <2>2. CASE h # g
    <3>1. LifecyclePhase(h)
      BY DEF SessionInv
    <3> QED BY <1>1, <1>2, <2>2, <3>1 DEF LifecyclePhase, Frame
  <2> QED BY <2>1, <2>2
<1>5. ASSUME NEW c \in ClientThreads PROVE ClientPhase(c)'
  <2>1. c \in SessionThread /\ ClientPhase(c) /\ c # t
    BY Roles DEF SessionThread, SessionInv
  <2> QED BY <1>1, <1>3, <2>1, ClientPhaseStays DEF Frame
<1>6. LifecycleWithinReach'
  <2>1. \A c \in ClientThreads : target'[c] = target[c]
    BY <1>1, Roles DEF SessionThread
  <2>2. \A h \in 1..MaxGen : at'[LifecycleThread(h)] # "idle" => at[LifecycleThread(h)] # "idle"
    BY <1>1, <1>2
  <2> QED BY <2>1, <2>2 DEF SessionInv, LifecycleWithinReach, Frame
<1>7. LifecycleJoins'
  BY DEF SessionInv, LifecycleJoins, Frame
<1> QED BY <1>4, <1>5, <1>6, <1>7 DEF SessionInv

\* Thread t goes on with program and the others stay where they are.
MovesOnly(t, program) ==
    /\ todo'[t] = program
    /\ \A u \in Thread : u # t => /\ todo'[u] = todo[u]
                                  /\ at'[u] = at[u]
                                  /\ target'[u] = target[u]

LEMMA Moves ==
    ASSUME Types, NEW t \in Thread, NEW program
    PROVE  /\ Continue(t, program) =>
                 /\ MovesOnly(t, program)
                 /\ target' = target /\ at'[t] = IF program = <<>> THEN "idle" ELSE "run"
           /\ \A pc : Leave(t, pc, program) /\ target' = target =>
                 MovesOnly(t, program) /\ at'[t] = pc
           /\ CallOut(t, program) =>
                 /\ MovesOnly(t, program) /\ target' = target
                 /\ at'[t] = "callback" \/ Continue(t, program)
           /\ Enter(t, program) /\ at[t] # "callback" =>
                 MovesOnly(t, program) /\ target' = target /\ at'[t] = "run"
<1>1. /\ todo \in [Thread -> Program] /\ at \in [Thread -> Place]
      /\ target \in [Thread -> Thread \cup {Nobody}]
  BY DEF Types, ThreadsOK, ThreadsTypeOK, Program
<1>2. Continue(t, program) =>
         /\ MovesOnly(t, program)
         /\ target' = target /\ at'[t] = IF program = <<>> THEN "idle" ELSE "run"
  BY <1>1 DEF Continue, MovesOnly
<1>3. \A pc : Leave(t, pc, program) /\ target' = target =>
         MovesOnly(t, program) /\ at'[t] = pc
  BY <1>1 DEF Leave, MovesOnly
<1>4. CallOut(t, program) =>
         /\ MovesOnly(t, program) /\ target' = target
         /\ at'[t] = "callback" \/ Continue(t, program)
  BY <1>2, <1>3 DEF CallOut
<1>5. Enter(t, program) /\ at[t] # "callback" =>
         MovesOnly(t, program) /\ target' = target /\ at'[t] = "run"
  BY <1>1 DEF Enter, MovesOnly
<1> QED BY <1>2, <1>3, <1>4, <1>5

LEMMA CancelMoves ==
    ASSUME Types, NEW t \in Thread, NEW k \in Kind, NEW program, CancelThread(t, k, program)
    PROVE  /\ MovesOnly(t, program)
           /\ \/ handle[k] \in {Nobody, t} /\ Continue(t, program) /\ target' = target
              \/ /\ handle[k] \notin {Nobody, t}
                 /\ at'[t] = "join" /\ target'[t] = handle[k]
           /\ handle'[k] = Nobody /\ cancelled'[k]
           /\ \A j \in Kind : j # k => handle'[j] = handle[j] /\ cancelled'[j] = cancelled[j]
<1>1. /\ todo \in [Thread -> Program] /\ at \in [Thread -> Place]
      /\ target \in [Thread -> Thread \cup {Nobody}]
      /\ handle \in [Kind -> TimerThreads \cup {Nobody}] /\ cancelled \in [Kind -> BOOLEAN]
  BY DEF Types, ThreadsOK, ThreadsTypeOK, TimersTypeOK, Program
<1>2. handle' = [handle EXCEPT ![k] = Nobody] /\ cancelled' = [cancelled EXCEPT ![k] = TRUE]
  BY DEF CancelThread
<1>3. CASE handle[k] \in {Nobody, t}
  <2>1. Continue(t, program)
    BY <1>3 DEF CancelThread
  <2> QED BY <1>1, <1>2, <1>3, <2>1, Moves
<1>4. CASE handle[k] \notin {Nobody, t}
  <2>1. Leave(t, "join", program) /\ target' = [target EXCEPT ![t] = handle[k]]
    BY <1>4 DEF CancelThread
  <2>2. MovesOnly(t, program) /\ at'[t] = "join" /\ target'[t] = handle[k]
    BY <1>1, <2>1 DEF Leave, MovesOnly
  <2> QED BY <1>1, <1>2, <1>4, <2>2
<1> QED BY <1>3, <1>4

\* What Spawn does: the process ends, or thread <<k, g>> runs program.
SpawnOutcome(t, k, g, program, rest) ==
    /\ target' = target
    /\ \A j \in Kind : j # k => handle'[j] = handle[j] /\ cancelled'[j] = cancelled[j]
    /\ \/ /\ handle[k] # Nobody /\ handle' = handle /\ todo' = todo
          /\ at'[t] = "terminated"
          /\ \A u \in Thread : u # t => at'[u] = at[u]
       \/ /\ handle[k] = Nobody /\ handle'[k] = <<k, g>>
          /\ todo'[t] = rest /\ todo'[<<k, g>>] = program
          /\ at'[t] = (IF rest = <<>> THEN "idle" ELSE "run") /\ at'[<<k, g>>] = "begin"
          /\ \A u \in Thread : u # t /\ u # <<k, g>> =>
                todo'[u] = todo[u] /\ at'[u] = at[u]

LEMMA SpawnMoves ==
    ASSUME Types, NEW t \in Thread, NEW k \in Kind, NEW g \in 1..MaxGen, t # <<k, g>>,
           NEW program, NEW rest, Spawn(t, k, g, "begin", program, rest)
    PROVE  SpawnOutcome(t, k, g, program, rest)
<1> USE DEF SpawnOutcome
<1>1. /\ todo \in [Thread -> Program] /\ at \in [Thread -> Place]
      /\ handle \in [Kind -> TimerThreads \cup {Nobody}] /\ cancelled \in [Kind -> BOOLEAN]
      /\ <<k, g>> \in Thread
  BY TimerThreadsAreThreads
     DEF Types, ThreadsOK, ThreadsTypeOK, TimersTypeOK, Program
<1>2. target' = target /\ cancelled' = [cancelled EXCEPT ![k] = FALSE]
  BY DEF Spawn
<1>3. CASE handle[k] # Nobody
  <2>1. at' = [at EXCEPT ![t] = "terminated"] /\ handle' = handle /\ todo' = todo
    BY <1>3 DEF Spawn
  <2> QED BY <1>1, <1>2, <1>3, <2>1
<1>4. CASE handle[k] = Nobody
  <2>1. /\ handle' = [handle EXCEPT ![k] = <<k, g>>]
        /\ todo' = [todo EXCEPT ![t] = rest, ![<<k, g>>] = program]
        /\ at' = [at EXCEPT ![t] = IF rest = <<>> THEN "idle" ELSE "run",
                            ![<<k, g>>] = "begin"]
    BY <1>4 DEF Spawn
  <2> QED BY <1>1, <1>2, <1>4, <2>1
<1> QED BY <1>3, <1>4

-----------------------------------------------------------------------------
(* What the client and the lifecycle thread may run, and where it leads.    *)

\* The operations on the timers that are not about the lifecycle thread
PlainOp(op) ==
    \/ op.do \in {"update", "armWindow", "armNoMotion"}
    \/ op.do = "cancel" /\ op.timer # "lifecycle"

LEMMA ClientHead ==
    ASSUME NEW c \in ClientThreads, ClientPhase(c), todo[c] # <<>>
    PROVE  LET op == Head(todo[c])
           IN  \/ PlainOp(op)
               \/ op.do \in {"change", "armLifecycle", "release"}
               \/ op.do \in {"cancel", "invalidate"} /\ op.timer = "lifecycle"
               \/ op.do = "invalidate" /\ op.timer = "noMotion"
<1> USE OpValues DEF Parts, PlainOp
<1>1. CASE Beginning(c)
  <2>1. CASE \E arm \in DelayOp : todo[c] = Then(Change("STARTING"), Arm2(arm))
    BY <2>1, ArmParts, ArmOps
  <2>2. CASE \E rest \in StartRest : todo[c] = Then(Change("STARTING"), Active(rest))
    BY <2>2, RestPrograms, ActivationParts
  <2> QED BY <1>1, <2>1, <2>2 DEF Beginning
<1>2. CASE Delaying(c)
  <2>1. PICK arm \in DelayOp : todo[c] \in {Arm2(arm), Arm1(arm)}
    BY <1>2 DEF Delaying
  <2>2. Head(todo[c]) \in {Cancel("lifecycle"), arm}
    BY <2>1, ArmParts, ArmOps
  <2> QED BY <2>2, ArmOps
<1>3. CASE Activating(c)
  <2>1. Head(todo[c]) \in {Change("STARTED"), Simple("update"), Cancel("window"),
                          Simple("armWindow"), Cancel("noMotion"), Simple("armNoMotion")}
    BY <1>3, RestPrograms, ActivationParts DEF Activating, Activation
  <2> QED BY <2>1
<1>4. CASE Limiting(c)
  <2>1. PICK arm \in LimitOp : todo[c] \in {Arm2(arm), Arm1(arm)}
    BY <1>4 DEF Limiting
  <2>2. Head(todo[c]) \in {Cancel("lifecycle"), arm}
    BY <2>1, ArmParts, ArmOps
  <2> QED BY <2>2, ArmOps
<1>5. CASE Stopping(c)
  <2>1. Head(todo[c]) \in {Invalidate("lifecycle"), Invalidate("noMotion"), Cancel("window"),
                          Change("STOPPING"), Change("STOPPED")}
    BY <1>5, StopParts DEF Stopping
  <2> QED BY <2>1
<1>6. CASE Closing(c)
  <2>1. Head(todo[c]) \in {Invalidate("lifecycle"), Invalidate("noMotion"), Cancel("window"),
                          Simple("release")}
    BY <1>6, CloseParts DEF Closing
  <2> QED BY <2>1
<1> QED BY <1>1, <1>2, <1>3, <1>4, <1>5, <1>6 DEF ClientPhase

\* An operation that is not about the session leads on in the same phase.
LEMMA ClientGoesOn ==
    ASSUME NEW c \in ClientThreads, ClientPhase(c), todo[c] # <<>>,
           PlainOp(Head(todo[c])) \/ (Head(todo[c]) = Invalidate("noMotion") /\ at[c] # "join"),
           todo'[c] = Tail(todo[c]), UNCHANGED <<state, owner>>,
           LifecycleIdle => LifecycleIdle'
    PROVE  ClientPhase(c)'
<1> USE OpValues DEF Parts, PlainOp
<1>1. CASE Beginning(c)
  <2>1. CASE \E arm \in DelayOp : todo[c] = Then(Change("STARTING"), Arm2(arm))
    BY <2>1, ArmParts, ArmOps
  <2>2. CASE \E rest \in StartRest : todo[c] = Then(Change("STARTING"), Active(rest))
    BY <2>2, RestPrograms, ActivationParts
  <2> QED BY <1>1, <2>1, <2>2 DEF Beginning
<1>2. CASE Delaying(c)
  <2>1. PICK arm \in DelayOp : todo[c] \in {Arm2(arm), Arm1(arm)}
    BY <1>2 DEF Delaying
  <2>2. Head(todo[c]) \in {Cancel("lifecycle"), arm}
    BY <2>1, ArmParts, ArmOps
  <2> QED BY <2>2, ArmOps
<1>3. CASE Activating(c)
  <2>1. PICK rest \in StartRest : \/ (state = "STARTING" /\ todo[c] = Active(rest))
                                  \/ (state = "STARTED" /\ todo[c] \in Activation(rest))
    BY <1>3 DEF Activating
  <2>2. rest \in Program
    BY RestPrograms
  <2>3. state = "STARTED" /\ todo[c] \in Activation(rest)
    BY <2>1, <2>2, ActivationParts
  <2>4. CASE todo[c] = Timer1(rest)
    <3>1. todo'[c] = rest
      BY <2>2, <2>4, ActivationParts
    <3>2. CASE rest = <<>>
      BY <3>1, <3>2 DEF ClientPhase
    <3>3. CASE rest # <<>>
      <4>1. \E arm \in LimitOp : rest = Arm2(arm)
        BY <3>3 DEF StartRest
      <4> QED BY <1>3, <2>3, <3>1, <4>1 DEF ClientPhase, Activating, Limiting
    <3> QED BY <3>2, <3>3
  <2>5. CASE todo[c] # Timer1(rest)
    <3>1. todo'[c] \in Activation(rest)
      BY <2>2, <2>3, <2>5, ActivationParts DEF Activation
    <3> QED BY <1>3, <2>3, <3>1 DEF ClientPhase, Activating
  <2> QED BY <2>4, <2>5
<1>4. CASE Limiting(c)
  <2>1. PICK arm \in LimitOp : todo[c] \in {Arm2(arm), Arm1(arm)}
    BY <1>4 DEF Limiting
  <2>2. Head(todo[c]) \in {Cancel("lifecycle"), arm}
    BY <2>1, ArmParts, ArmOps
  <2> QED BY <2>2, ArmOps
<1>5. CASE Stopping(c)
  <2>1. CASE todo[c] = Stop5 \/ todo[c] = Stop2 \/ todo[c] = Stop1
    BY <2>1, StopParts
  <2>2. CASE todo[c] = Stop4
    <3>1. todo[c] # Stop5 /\ todo[c] \notin {Stop3, Stop2} /\ todo[c] # Stop1
      BY <2>2, StopParts
    <3>2. state # "STARTING" /\ at[c] # "join"
      BY <1>5, <2>2, <3>1, StopParts DEF Stopping
    <3>3. LifecycleIdle /\ todo'[c] = Stop3
      BY <1>5, <2>2, <3>1, <3>2, StopParts DEF Stopping
    <3> QED BY <3>2, <3>3 DEF ClientPhase, Stopping
  <2>3. CASE todo[c] = Stop3
    <3>1. todo[c] # Stop5 /\ todo[c] # Stop4 /\ todo[c] # Stop1
      BY <2>3, StopParts
    <3>2. state # "STARTING" /\ LifecycleIdle /\ todo'[c] = Stop2
      BY <1>5, <2>3, <3>1, StopParts DEF Stopping
    <3> QED BY <3>2 DEF ClientPhase, Stopping
  <2> QED BY <1>5, <2>1, <2>2, <2>3 DEF Stopping
<1>6. CASE Closing(c)
  <2>1. todo'[c] \in {Close3, Close2, Close1, <<>>}
    BY <1>6, CloseParts DEF Closing
  <2> QED BY <1>6, <2>1 DEF ClientPhase, Closing
<1> QED BY <1>1, <1>2, <1>3, <1>4, <1>5, <1>6 DEF ClientPhase

LEMMA LifecycleHead ==
    ASSUME NEW g \in 1..MaxGen, LifecyclePhase(g), todo[LifecycleThread(g)] # <<>>
    PROVE  LET op == Head(todo[LifecycleThread(g)])
           IN  \/ PlainOp(op)
               \/ op.do \in {"change", "wait", "activate", "check", "autoStop"}
<1> DEFINE program == todo[LifecycleThread(g)]
           op == Head(program)
<1> USE OpValues DEF Parts, PlainOp
<1>1. CASE \E rest \in LifecycleRest : program \in {Delay2(rest), Delay1(rest), Active(rest)}
  <2>1. op \in {Simple("wait"), Simple("activate"), Change("STARTED")}
    BY <1>1, RestPrograms, LifecycleParts, ActivationParts
  <2> QED BY <2>1
<1>2. CASE \E rest \in LifecycleRest : program \in Activation(rest)
  <2>1. op \in {Simple("update"), Cancel("window"), Simple("armWindow"), Cancel("noMotion"),
               Simple("armNoMotion")}
    BY <1>2, RestPrograms, ActivationParts DEF Activation
  <2> QED BY <2>1
<1>3. CASE program \in {Limit3, Limit2, Limit1, AutoStop4, Stop3, Stop2, Stop1}
  <2>1. op \in {Simple("check"), Simple("wait"), Simple("autoStop"), Cancel("noMotion"),
               Cancel("window"), Change("STOPPING"), Change("STOPPED")}
    BY <1>3, LifecycleParts, StopParts
  <2> QED BY <2>1
<1> QED BY <1>1, <1>2, <1>3 DEF LifecyclePhase

LEMMA LifecycleGoesOn ==
    ASSUME NEW g \in 1..MaxGen, LifecyclePhase(g), todo[LifecycleThread(g)] # <<>>,
           LET op == Head(todo[LifecycleThread(g)])
           IN  PlainOp(op) \/ op.do \in {"wait", "check"},
           todo'[LifecycleThread(g)] = Tail(todo[LifecycleThread(g)]), state' = state
    PROVE  LifecyclePhase(g)'
<1> DEFINE program == todo[LifecycleThread(g)]
<1> USE OpValues DEF Parts, PlainOp
<1>1. CASE state = "STARTING" /\ \E rest \in LifecycleRest :
             program \in {Delay2(rest), Delay1(rest), Active(rest)}
  <2>1. PICK rest \in LifecycleRest : program \in {Delay2(rest), Delay1(rest), Active(rest)}
    BY <1>1
  <2>2. rest \in Program
    BY RestPrograms
  <2>3. program # Delay1(rest) /\ program # Active(rest)
    <3>1. Head(Delay1(rest)).do = "activate" /\ Head(Active(rest)).do = "change"
      BY SMTT(30), <2>2, LifecycleParts, ActivationParts
    <3> QED BY <3>1
  <2>4. Tail(program) = Delay1(rest)
    BY <2>1, <2>2, <2>3, LifecycleParts
  <2> QED BY <1>1, <2>4 DEF LifecyclePhase
<1>2. CASE state = "STARTED" /\ \E rest \in LifecycleRest : program \in Activation(rest)
  <2>1. PICK rest \in LifecycleRest : program \in Activation(rest)
    BY <1>2
  <2>2. Tail(program) \in Activation(rest) \cup {rest}
    BY <2>1, RestPrograms, ActivationParts DEF Activation
  <2> QED BY <1>2, <2>2 DEF LifecyclePhase, LifecycleRest
<1>3. CASE state = "STARTED"
           /\ program \in {Limit3, Limit2, Limit1, AutoStop4, Stop3, Stop2}
  <2>1. program # Limit1 /\ program # Stop2
    BY SMTT(30), LifecycleParts, StopParts
  <2>2. Tail(program) \in {Limit2, Limit1, Stop3, Stop2}
    BY <1>3, <2>1, LifecycleParts, StopParts
  <2> QED BY <1>3, <2>2 DEF LifecyclePhase
<1>4. CASE state = "STOPPING" /\ program = Stop1
  BY <1>4, StopParts
<1> QED BY <1>1, <1>2, <1>3, <1>4 DEF LifecyclePhase

LEMMA OtherHead ==
    ASSUME SingleClient, OtherPrograms, NEW t \in Thread, t \notin SessionThread,
           todo[t] # <<>>
    PROVE  /\ Head(todo[t]) \in NoMotionOp \cup WindowOp \cup InjectOp
           /\ Tail(todo[t]) \in Seq(NoMotionOp) \/ t \notin Kind \X (1..MaxGen) \/ t[1] # "noMotion"
           /\ Tail(todo[t]) \in Seq(WindowOp) \/ t \notin Kind \X (1..MaxGen) \/ t[1] # "window"
           /\ Tail(todo[t]) \in Seq(InjectOp) \/ t \notin InjectThreads
<1>1. CASE t \in InjectThreads
  <2>1. todo[t] \in Seq(InjectOp)
    BY <1>1 DEF OtherPrograms
  <2>2. t \notin Kind \X (1..MaxGen)
    BY <1>1, Roles
  <2> QED BY <2>1, <2>2, HeadTailProperties
<1>2. CASE \E g \in 1..MaxGen : t = <<"noMotion", g>>
  <2>0. PICK g \in 1..MaxGen : t = <<"noMotion", g>>
    BY <1>2
  <2>1. todo[t] \in Seq(NoMotionOp) /\ t[1] = "noMotion"
    BY <2>0 DEF OtherPrograms
  <2>2. t \notin InjectThreads
    BY <1>2, Roles DEF Kind
  <2> QED BY <2>1, <2>2, HeadTailProperties
<1>3. CASE \E g \in 1..MaxGen : t = <<"window", g>>
  <2>0. PICK g \in 1..MaxGen : t = <<"window", g>>
    BY <1>3
  <2>1. todo[t] \in Seq(WindowOp) /\ t[1] = "window"
    BY <2>0 DEF OtherPrograms
  <2>2. t \notin InjectThreads
    BY <1>3, Roles DEF Kind
  <2> QED BY <2>1, <2>2, HeadTailProperties
<1> QED BY <1>1, <1>2, <1>3, Roles DEF SessionThread, LifecycleThread, Kind

LEMMA FrameOfMove ==
    ASSUME SingleClient, Types, NEW t \in Thread, NEW program, MovesOnly(t, program),
           UNCHANGED <<state, owner>>,
           handle'["lifecycle"] = handle["lifecycle"],
           cancelled'["lifecycle"] = cancelled["lifecycle"],
           \A g \in 1..MaxGen : target'[t] = LifecycleThread(g) => target[t] = LifecycleThread(g)
    PROVE  Frame(t)
BY Roles DEF Frame, MovesOnly, SessionThread

\* The operations on the timers that are not about the lifecycle thread leave
\* the session alone.
LEMMA PlainSteps ==
    ASSUME SingleClient, Types, TimerInv, PlacesOK, NEW t \in Thread,
           todo[t] # <<>>, PlainOp(Head(todo[t])),
           CancelTimer(t) \/ ArmNoMotionTimer(t) \/ ArmWindowScheduler(t) \/ UpdateActiveWindow(t)
    PROVE  /\ Frame(t) /\ at[t] = "run"
           /\ \/ todo'[t] = Tail(todo[t])
              \/ todo'[t] = todo[t] /\ target'[t] = target[t]
              \/ /\ Head(todo[t]).do = "update" /\ state = "STARTED"
                 /\ todo'[t] = ScheduleActiveWindow \o Tail(todo[t])
<1> USE DEF Runs
<1>1. CASE CancelTimer(t)
  <2> DEFINE k == Head(todo[t]).timer
  <2>1. k \in Kind /\ k # "lifecycle" /\ at[t] = "run" /\ CancelThread(t, k, Tail(todo[t]))
    BY <1>1, RunsType, OpFields DEF CancelTimer, PlainOp, Types
  <2>2. MovesOnly(t, Tail(todo[t])) /\ UNCHANGED <<state, owner>>
    BY <1>1, <2>1, CancelMoves DEF CancelTimer, sensorVars
  <2>3. /\ handle'["lifecycle"] = handle["lifecycle"]
        /\ cancelled'["lifecycle"] = cancelled["lifecycle"]
    BY <2>1, CancelMoves DEF Kind
  <2>4. \A g \in 1..MaxGen : target'[t] = LifecycleThread(g) => target[t] = LifecycleThread(g)
    <3>1. ASSUME NEW g \in 1..MaxGen PROVE handle[k] # LifecycleThread(g)
      <4>1. LifecycleThread(g) # Nobody /\ LifecycleThread(g)[1] = "lifecycle"
        BY Roles DEF LifecycleThread
      <4>2. handle[k] # Nobody => handle[k][1] = k
        BY <2>1 DEF Types, TimersTypeOK
      <4> QED BY <2>1, <4>1, <4>2
    <3> QED BY <2>1, <3>1, CancelMoves
  <2>5. todo'[t] = Tail(todo[t])
    BY <2>2 DEF MovesOnly
  <2> QED BY <2>1, <2>2, <2>3, <2>4, <2>5, FrameOfMove
<1>2. ASSUME NEW k \in GenerationKind, NEW program, gen[k] + 1 \in 1..MaxGen, at[t] = "run",
             Spawn(t, k, gen[k] + 1, "begin", program, Tail(todo[t])),
             UNCHANGED <<state, owner>>
      PROVE  Frame(t) /\ (todo'[t] = Tail(todo[t]) \/ (todo'[t] = todo[t] /\ target'[t] = target[t]))
  <2>0. PICK g \in 1..MaxGen : g = gen[k] + 1
    BY <1>2
  <2>1. k \in Kind /\ k # "lifecycle"
    BY <1>2, GenerationKinds
  <2>2. t # <<k, g>>
    <3>1. ~(g <= gen[k])
      BY <1>2, <2>0, <2>1, Bounds DEF Types, TimersTypeOK
    <3>2. at[<<k, g>>] = "idle"
      BY <1>2, <3>1 DEF TimerInv, FreshGenerations
    <3> QED BY <1>2, <3>2
  <2>3. "lifecycle" \in Kind /\ "lifecycle" # k
    BY <1>2, <2>1 DEF Kind
  <2>5. Spawn(t, k, g, "begin", program, Tail(todo[t]))
    BY <1>2, <2>0
  <2>6. SpawnOutcome(t, k, g, program, Tail(todo[t]))
    BY <2>1, <2>2, <2>5, SpawnMoves
  <2>7. /\ target' = target
        /\ handle'["lifecycle"] = handle["lifecycle"]
        /\ cancelled'["lifecycle"] = cancelled["lifecycle"]
        /\ todo'[t] \in {todo[t], Tail(todo[t])}
        /\ \A u \in Thread : u # t /\ u # <<k, g>> => todo'[u] = todo[u] /\ at'[u] = at[u]
    BY <2>3, <2>6 DEF SpawnOutcome
  <2>8. \A u \in SessionThread : u \in Thread /\ u # <<k, g>>
    BY <1>2, <2>1, <2>3, Roles DEF SessionThread
  <2> QED BY <1>2, <2>7, <2>8 DEF Frame
<1>3. ASSUME NEW program \in Program, Continue(t, program) \/ CallOut(t, program),
             UNCHANGED <<state, owner>>, UNCHANGED <<handle, cancelled>>
      PROVE  Frame(t) /\ todo'[t] = program
  <2>1. MovesOnly(t, program) /\ target' = target
    BY <1>3, Moves
  <2> QED BY <1>3, <2>1, FrameOfMove DEF MovesOnly
<1>4. CASE ArmNoMotionTimer(t)
  <2>1. at[t] = "run" /\ UNCHANGED <<state, owner>> /\ Tail(todo[t]) \in Program
    BY <1>4, RunsType DEF ArmNoMotionTimer, sensorVars, Types
  <2>2. CASE state = "STARTED" /\ startConfig.mode = "NO_MOTION" /\ startConfig.noMotion
    <3>1. gen["noMotion"] + 1 \in 1..MaxGen /\ "noMotion" \in GenerationKind
      BY <1>4, <2>2, Bounds DEF ArmNoMotionTimer, Types, TimersTypeOK, Kind, GenerationKind
    <3> QED BY <1>2, <1>4, <2>1, <2>2, <3>1 DEF ArmNoMotionTimer
  <2>3. CASE ~(state = "STARTED" /\ startConfig.mode = "NO_MOTION" /\ startConfig.noMotion)
    BY <1>3, <1>4, <2>1, <2>3 DEF ArmNoMotionTimer, timerVars
  <2> QED BY <2>1, <2>2, <2>3
<1>5. CASE ArmWindowScheduler(t)
  <2>1. at[t] = "run" /\ UNCHANGED <<state, owner>> /\ Tail(todo[t]) \in Program
    BY <1>5, RunsType DEF ArmWindowScheduler, sensorVars, Types
  <2>2. CASE state = "STARTED" /\ hasWindows
    <3>1. gen["window"] + 1 \in 1..MaxGen /\ "window" \in GenerationKind
      BY <1>5, <2>2, Bounds DEF ArmWindowScheduler, Types, TimersTypeOK, Kind, GenerationKind
    <3> QED BY <1>2, <1>5, <2>1, <2>2, <3>1 DEF ArmWindowScheduler
  <2>3. CASE ~(state = "STARTED" /\ hasWindows)
    BY <1>3, <1>5, <2>1, <2>3 DEF ArmWindowScheduler, timerVars
  <2> QED BY <2>1, <2>2, <2>3
<1>6. CASE UpdateActiveWindow(t)
  <2>1. /\ at[t] = "run" /\ UNCHANGED <<state, owner>> /\ UNCHANGED <<handle, cancelled>>
        /\ Head(todo[t]).do = "update"
        /\ Tail(todo[t]) \in Program /\ ScheduleActiveWindow \o Tail(todo[t]) \in Program
    BY <1>6, RunsType, TimerProgramTypes, ProgramTypes DEF UpdateActiveWindow, timerVars, Types
  <2>2. CASE state # "STARTED"
    BY <1>3, <1>6, <2>1, <2>2 DEF UpdateActiveWindow
  <2>3. CASE state = "STARTED"
    <3>1. \/ Continue(t, ScheduleActiveWindow \o Tail(todo[t]))
          \/ CallOut(t, ScheduleActiveWindow \o Tail(todo[t]))
      BY <1>6, <2>3 DEF UpdateActiveWindow
    <3> QED BY <1>3, <2>1, <2>3, <3>1
  <2> QED BY <2>1, <2>2, <2>3
<1> QED BY <1>1, <1>4, <1>5, <1>6

-----------------------------------------------------------------------------
(* Places and the programs of the other threads.                            *)

\* Only the client arms the lifecycle timer, and the thread it names is new.
LEMMA ArmsFresh ==
    ASSUME SingleClient, Types, OneClientInv, NEW t \in Thread,
           Runs(t, "armLifecycle")
    PROVE  /\ t \in ClientThreads
           /\ Head(todo[t]).timer \in 1..MaxGen
           /\ target[t] = Nobody
           /\ handle["lifecycle"] = Nobody =>
                 \A g \in 1..MaxGen : at[LifecycleThread(g)] = "idle"
<1> USE DEF OneClientInv
<1>1. todo[t] # <<>> /\ Head(todo[t]).do = "armLifecycle" /\ at[t] = "run"
  BY DEF Runs
<1>2. t \in SessionThread
  <2>1. \A op \in NoMotionOp \cup WindowOp \cup InjectOp : op.do # "armLifecycle"
    BY OpValues DEF NoMotionOp, WindowOp, InjectOp
  <2> QED BY <1>1, <2>1, OtherHead
<1>3. ASSUME NEW g \in 1..MaxGen, t = LifecycleThread(g) PROVE FALSE
  BY <1>1, <1>3, LifecycleHead DEF PlainOp, SessionInv
<1>4. t \in ClientThreads
  BY <1>2, <1>3 DEF SessionThread
<1>5. target[t] = Nobody
  BY <1>1 DEF PlacesOK
<1>6. Head(todo[t]).timer \in 1..MaxGen
  BY <1>1, RunsType, OpFields DEF Types
<1>7. ASSUME handle["lifecycle"] = Nobody, NEW g \in 1..MaxGen
      PROVE  at[LifecycleThread(g)] = "idle"
  <2>1. \A c \in ClientThreads : target[c] = Nobody
    BY <1>4, <1>5 DEF SingleClient
  <2> QED BY <1>7, <2>1, Roles DEF SessionInv, LifecycleWithinReach
<1> QED BY <1>4, <1>5, <1>6, <1>7

LEMMA SpawnPlaces ==
    ASSUME Types, PlacesOK, NEW t \in Thread, target[t] = Nobody, NEW k \in Kind,
           NEW g \in 1..MaxGen, t # <<k, g>>, target[<<k, g>>] = Nobody,
           NEW program, NEW rest, SpawnOutcome(t, k, g, program, rest)
    PROVE  PlacesOK'
<1>1. target' = target
  BY DEF SpawnOutcome
<1>2. ASSUME NEW u \in Thread, u # t, u # <<k, g>>
      PROVE  /\ target'[u] # Nobody => at'[u] = "join"
             /\ at'[u] = "idle" => todo'[u] = <<>>
  BY <1>1, <1>2 DEF SpawnOutcome, PlacesOK
<1>3. at'[t] = "idle" => todo'[t] = <<>>
  BY DEF SpawnOutcome
<1>4. \/ at'[<<k, g>>] = "begin"
      \/ at'[<<k, g>>] = at[<<k, g>>] /\ todo'[<<k, g>>] = todo[<<k, g>>]
  BY TimerThreadsAreThreads DEF SpawnOutcome
<1>5. at'[<<k, g>>] = "idle" => todo'[<<k, g>>] = <<>>
  BY <1>4, TimerThreadsAreThreads DEF PlacesOK
<1> QED BY <1>1, <1>2, <1>3, <1>5 DEF PlacesOK

\* A timer of a generation that is not given out yet is idle.
LEMMA GenerationIsFresh ==
    ASSUME Types, TimerInv, PlacesOK, NEW k \in GenerationKind, NEW g \in 1..MaxGen,
           g = gen[k] + 1
    PROVE  at[<<k, g>>] = "idle" /\ target[<<k, g>>] = Nobody /\ k \in Kind
<1>1. k \in Kind /\ <<k, g>> \in Thread /\ ~(g <= gen[k])
  BY GenerationKinds, Bounds DEF Types, TimersTypeOK
<1> QED BY <1>1 DEF TimerInv, FreshGenerations, PlacesOK

LEMMA StepPlaces ==
    ASSUME SingleClient, Types, TimerInv, OneClientInv, NEW t \in Thread, Step(t)
    PROVE  PlacesOK'
<1> USE DEF OneClientInv, Runs
<1>1. ASSUME NEW program,
             \/ Continue(t, program) \/ CallOut(t, program)
             \/ (Leave(t, "callback", program) /\ target' = target)
             \/ (Leave(t, "deliver", program) /\ target' = target),
             at[t] = "run"
      PROVE  PlacesOK'
  <2>1. target' = target /\ target[t] = Nobody
    BY <1>1, Moves DEF PlacesOK
  <2>2. MovesOnly(t, program) /\ (at'[t] = "idle" => program = <<>>)
    BY <1>1, <2>1, Moves
  <2> QED BY <2>1, <2>2 DEF PlacesOK, MovesOnly
<1>2. ASSUME NEW k \in Kind, CancelThread(t, k, Tail(todo[t])), at[t] = "run"
      PROVE  PlacesOK'
  <2>1. MovesOnly(t, Tail(todo[t]))
    BY <1>2, CancelMoves
  <2>2. CASE Continue(t, Tail(todo[t]))
    BY <1>1, <1>2, <2>2
  <2>3. CASE at'[t] = "join"
    BY <2>1, <2>3 DEF PlacesOK, MovesOnly
  <2> QED BY <1>2, <2>2, <2>3, CancelMoves
<1>3. ASSUME NEW k \in GenerationKind, NEW program, gen[k] + 1 \in 1..MaxGen, at[t] = "run",
             Spawn(t, k, gen[k] + 1, "begin", program, Tail(todo[t]))
      PROVE  PlacesOK'
  <2>1. PICK g \in 1..MaxGen : g = gen[k] + 1
    BY <1>3
  <2>2. k \in Kind /\ target[<<k, g>>] = Nobody /\ at[<<k, g>>] = "idle"
    BY <2>1, GenerationIsFresh
  <2>3. t # <<k, g>> /\ target[t] = Nobody
    BY <1>3, <2>2 DEF PlacesOK
  <2>4. Spawn(t, k, g, "begin", program, Tail(todo[t]))
    BY <1>3, <2>1
  <2>5. SpawnOutcome(t, k, g, program, Tail(todo[t]))
    BY <2>2, <2>3, <2>4, SpawnMoves
  <2> QED BY <2>2, <2>3, <2>5, SpawnPlaces
<1>4. CASE ChangeState(t)
  BY <1>1, <1>4 DEF ChangeState
<1>5. CASE CancelTimer(t)
  <2>1. Head(todo[t]).timer \in Kind
    BY <1>5, RunsType, OpFields DEF CancelTimer, Types
  <2> QED BY <1>2, <1>5, <2>1 DEF CancelTimer
<1>6. CASE InvalidateTimer(t)
  <2>1. Head(todo[t]).timer \in Kind
    BY <1>6, RunsType, OpFields DEF InvalidateTimer, Types
  <2> QED BY <1>2, <1>6, <2>1 DEF InvalidateTimer
<1>7. CASE ArmLifecycleTimer(t)
  <2>1. Runs(t, "armLifecycle")
    BY <1>7 DEF ArmLifecycleTimer
  <2>2. PICK g \in 1..MaxGen : g = Head(todo[t]).timer
    BY <2>1, ArmsFresh
  <2>3. PICK program : Spawn(t, "lifecycle", g, "begin", program, Tail(todo[t]))
    BY <1>7, <2>2 DEF ArmLifecycleTimer
  <2>4. /\ target[t] = Nobody /\ t # <<"lifecycle", g>> /\ "lifecycle" \in Kind
        /\ t \in ClientThreads
    BY <2>1, ArmsFresh, Roles DEF LifecycleThread, Kind
  <2>5. SpawnOutcome(t, "lifecycle", g, program, Tail(todo[t]))
    BY <2>3, <2>4, SpawnMoves
  <2>6. CASE handle["lifecycle"] = Nobody
    <3>1. at[LifecycleThread(g)] = "idle"
      BY <2>1, <2>6, ArmsFresh
    <3>2. target[<<"lifecycle", g>>] = Nobody
      BY <3>1, Roles DEF PlacesOK, LifecycleThread
    <3> QED BY <2>4, <2>5, <3>2, SpawnPlaces
  <2>7. CASE handle["lifecycle"] # Nobody
    BY <2>4, <2>5, <2>7 DEF SpawnOutcome, PlacesOK
  <2> QED BY <2>6, <2>7
<1>8. CASE ArmNoMotionTimer(t)
  <2>1. CASE state = "STARTED" /\ startConfig.mode = "NO_MOTION" /\ startConfig.noMotion
    <3>1. gen["noMotion"] + 1 \in 1..MaxGen /\ "noMotion" \in GenerationKind
      BY <1>8, <2>1, Bounds DEF ArmNoMotionTimer, Types, TimersTypeOK, Kind, GenerationKind
    <3> QED BY <1>3, <1>8, <2>1, <3>1 DEF ArmNoMotionTimer
  <2> QED BY <1>1, <1>8, <2>1 DEF ArmNoMotionTimer
<1>9. CASE ArmWindowScheduler(t)
  <2>1. CASE state = "STARTED" /\ hasWindows
    <3>1. gen["window"] + 1 \in 1..MaxGen /\ "window" \in GenerationKind
      BY <1>9, <2>1, Bounds DEF ArmWindowScheduler, Types, TimersTypeOK, Kind, GenerationKind
    <3> QED BY <1>3, <1>9, <2>1, <3>1 DEF ArmWindowScheduler
  <2> QED BY <1>1, <1>9, <2>1 DEF ArmWindowScheduler
<1>10. CASE UpdateActiveWindow(t)
  BY <1>1, <1>10 DEF UpdateActiveWindow
<1>11. CASE InjectLocked(t)
  BY <1>1, <1>11 DEF InjectLocked
<1>12. CASE EndSessionOfTheDead(t) \/ Release(t)
  BY <1>1, <1>12 DEF EndSessionOfTheDead, Release
<1>13. CASE ReturnToCallback(t)
  BY <1>1, <1>13 DEF ReturnToCallback
<1>14. CASE TakeMutex(t)
  BY <1>14 DEF TakeMutex, PlacesOK, Types, ThreadsOK, ThreadsTypeOK
<1>15. CASE RecordEvent(t)
  BY <1>15 DEF RecordEvent, PlacesOK, Types, ThreadsOK, ThreadsTypeOK
<1>16. CASE \E l \in Listeners : OnEvent(t, l)
  BY <1>16 DEF OnEvent, PlacesOK
<1> QED BY <1>4, <1>5, <1>6, <1>7, <1>8, <1>9, <1>10, <1>11, <1>12, <1>13, <1>14, <1>15, <1>16
     DEF Step

LEMMA TimerStepPlaces ==
    ASSUME Types, PlacesOK, NEW k \in Kind, NEW g \in 1..MaxGen, TimerStep(k, g)
    PROVE  PlacesOK'
<1> DEFINE t == <<k, g>>
<1>0. t \in Thread
  BY TimerThreadsAreThreads
<1> HIDE DEF t
<1>1. ASSUME NEW pc \in {"wait", "deliver"}, NEW program, at[t] = "run",
             \/ Continue(t, program)
             \/ (Leave(t, pc, program) /\ target' = target)
      PROVE  PlacesOK'
  <2>1. target' = target /\ target[t] = Nobody
    BY <1>0, <1>1, Moves DEF PlacesOK
  <2>2. MovesOnly(t, program) /\ (at'[t] = "idle" => program = <<>>)
    BY <1>0, <1>1, <2>1, Moves
  <2> QED BY <1>0, <2>1, <2>2 DEF PlacesOK, MovesOnly
<1> USE DEF t, Runs
<1>2. CASE BeginWait(k, g)
  BY <1>1, <1>2 DEF BeginWait
<1>3. CASE WaitCancelled(k, g)
  BY <1>0, <1>3 DEF WaitCancelled, PlacesOK, Types, ThreadsOK, ThreadsTypeOK
<1>4. CASE WaitTimesOut(k, g)
  BY <1>0, <1>4 DEF WaitTimesOut, PlacesOK, Types, ThreadsOK, ThreadsTypeOK
<1>5. CASE ActivateAfterDelay(k, g) \/ CheckBeforeWait(k, g) \/ AutoStop(k, g)
  BY <1>1, <1>5 DEF ActivateAfterDelay, CheckBeforeWait, AutoStop
<1>6. CASE NoMotionExpires(k, g) \/ BoundaryReached(k, g)
  BY <1>1, <1>6 DEF NoMotionExpires, BoundaryReached
<1> QED BY <1>2, <1>3, <1>4, <1>5, <1>6 DEF TimerStep

\* Calls are served by the client when it is in no other call.
LEMMA Callers ==
    ASSUME SingleClient, PlacesOK, NEW t \in Thread, MayCall(t)
    PROVE  /\ t \in ClientThreads /\ at[t] = "idle"
           /\ todo[t] = <<>> /\ target[t] = Nobody
BY DEF SingleClient, MayCall, PlacesOK

\* What a call does to the threads: nothing, unless the caller enters.
LEMMA CallMoves ==
    ASSUME SingleClient, Types, PlacesOK, NEW t \in Thread
    PROVE  /\ Open(t) \/ SetActiveWindows(t) => UNCHANGED <<at, todo, target, timerVars>>
           /\ \A cfg \in Configs : Start(t, cfg) =>
                 /\ t \in ClientThreads
                 /\ MovesOnly(t, StartProgram(cfg, gen["lifecycle"] + 1))
                 /\ target' = target /\ at'[t] = "run" /\ UNCHANGED <<handle, cancelled>>
           /\ Stop(t) => /\ t \in ClientThreads /\ MovesOnly(t, StopProgram)
                         /\ target' = target /\ at'[t] = "run" /\ UNCHANGED timerVars
           /\ Close(t) => /\ t \in ClientThreads /\ MovesOnly(t, ReleaseController)
                          /\ target' = target /\ at'[t] = "run" /\ UNCHANGED timerVars
           /\ t \in InjectThreads /\ InjectMotionEvent(t) =>
                 /\ MovesOnly(t, <<Inject(stamps + 1)>>)
                 /\ target' = target /\ at'[t] = "begin" /\ UNCHANGED timerVars
<1>1. Open(t) \/ SetActiveWindows(t) => UNCHANGED <<at, todo, target, timerVars>>
  BY DEF Open, SetActiveWindows, threadVars
<1>2. \A cfg \in Configs : Start(t, cfg) =>
         /\ t \in ClientThreads
         /\ MovesOnly(t, StartProgram(cfg, gen["lifecycle"] + 1))
         /\ target' = target /\ at'[t] = "run" /\ UNCHANGED <<handle, cancelled>>
  BY Callers, Moves DEF Start
<1>3. Stop(t) => /\ t \in ClientThreads /\ MovesOnly(t, StopProgram)
                 /\ target' = target /\ at'[t] = "run" /\ UNCHANGED timerVars
  BY Callers, Moves DEF Stop
<1>4. Close(t) => /\ t \in ClientThreads /\ MovesOnly(t, ReleaseController)
                  /\ target' = target /\ at'[t] = "run" /\ UNCHANGED timerVars
  BY Callers, Moves DEF Close
<1>5. t \in InjectThreads /\ InjectMotionEvent(t) =>
         /\ MovesOnly(t, <<Inject(stamps + 1)>>)
         /\ target' = target /\ at'[t] = "begin" /\ UNCHANGED timerVars
  BY DEF InjectMotionEvent, MovesOnly, Types, ThreadsOK, ThreadsTypeOK
<1> QED BY <1>1, <1>2, <1>3, <1>4, <1>5

LEMMA ListenerCalls ==
    ASSUME NEW l \in Listeners, RegisterEventListener(l) \/ UnregisterEventListener(l)
    PROVE  UNCHANGED <<at, todo, target, timerVars, state, owner>>
BY DEF RegisterEventListener, UnregisterEventListener, threadVars

LEMMA CallPlaces ==
    ASSUME SingleClient, Types, PlacesOK, ClientCall
    PROVE  PlacesOK'
<1>1. ASSUME NEW t \in Thread, at[t] = "idle" \/ t \in InjectThreads,
             at[t] = "idle", NEW program, MovesOnly(t, program), target' = target,
             at'[t] \in {"run", "begin"}
      PROVE  PlacesOK'
  BY <1>1 DEF PlacesOK, MovesOnly
<1>2. ASSUME UNCHANGED <<at, todo, target>> PROVE PlacesOK'
  BY <1>2 DEF PlacesOK
<1>3. ASSUME NEW t \in Thread, Open(t) \/ SetActiveWindows(t) PROVE PlacesOK'
  BY <1>2, <1>3, CallMoves
<1>4. ASSUME NEW t \in Thread, NEW cfg \in Configs, Start(t, cfg) PROVE PlacesOK'
  <2>1. at[t] = "idle"
    BY <1>4, Callers DEF Start
  <2> QED BY <1>1, <1>4, <2>1, CallMoves
<1>5. ASSUME NEW t \in Thread, Stop(t) \/ Close(t) PROVE PlacesOK'
  <2>1. at[t] = "idle"
    BY <1>5, Callers DEF Stop, Close
  <2> QED BY <1>1, <1>5, <2>1, CallMoves
<1>6. ASSUME NEW l \in Listeners, RegisterEventListener(l) \/ UnregisterEventListener(l)
      PROVE PlacesOK'
  BY <1>2, <1>6, ListenerCalls
<1>7. ASSUME NEW t \in InjectThreads, InjectMotionEvent(t) PROVE PlacesOK'
  <2>1. at[t] = "idle" /\ t \in Thread
    BY <1>7, Roles DEF InjectMotionEvent
  <2> QED BY <1>1, <1>7, <2>1, CallMoves
<1> QED BY <1>3, <1>4, <1>5, <1>6, <1>7 DEF ClientCall

\* What a thread other than the client and the lifecycle thread may have to do.
OtherProgram(t, program) ==
    /\ t \in InjectThreads => program \in Seq(InjectOp)
    /\ \A g \in 1..MaxGen : /\ t = <<"noMotion", g>> => program \in Seq(NoMotionOp)
                            /\ t = <<"window", g>> => program \in Seq(WindowOp)

LEMMA OtherProgramsPointwise ==
    ASSUME SingleClient
    PROVE  OtherPrograms <=> \A t \in Thread : OtherProgram(t, todo[t])
<1>1. \A g \in 1..MaxGen : <<"noMotion", g>> \in Thread /\ <<"window", g>> \in Thread
  BY TimerThreadsAreThreads DEF Kind
<1> QED BY <1>1, Roles DEF OtherPrograms, OtherProgram

LEMMA OtherMoves ==
    ASSUME SingleClient, OtherPrograms, NEW t \in Thread, NEW program,
           OtherProgram(t, program), \A u \in Thread : u # t => todo'[u] = todo[u],
           todo'[t] = program
    PROVE  OtherPrograms'
<1>1. \A u \in Thread : OtherProgram(u, todo[u])
  BY OtherProgramsPointwise
<1>2. \A u \in Thread : OtherProgram(u, todo'[u])
  BY <1>1
<1>3. \A g \in 1..MaxGen : <<"noMotion", g>> \in Thread /\ <<"window", g>> \in Thread
  BY TimerThreadsAreThreads DEF Kind
<1> QED BY <1>2, <1>3, Roles DEF OtherPrograms, OtherProgram

\* Which of those programs there are.
LEMMA OtherProgramsHere ==
    ASSUME SingleClient, NEW t \in Thread
    PROVE  /\ OtherProgram(t, <<>>)
           /\ t \in SessionThread => \A program : OtherProgram(t, program)
           /\ OtherPrograms /\ todo[t] # <<>> =>
                 /\ OtherProgram(t, Tail(todo[t]))
                 /\ Head(todo[t]).do = "inject" =>
                       \A program \in Seq(InjectOp) : OtherProgram(t, program)
                 /\ Head(todo[t]).do = "expire" =>
                       \A program \in Seq(NoMotionOp) : OtherProgram(t, program)
                 /\ Head(todo[t]).do \in {"update", "boundary"} =>
                       \A program \in Seq(WindowOp) : OtherProgram(t, program)
                 /\ Head(todo[t]).do \in {"activate", "check", "autoStop", "armLifecycle",
                                          "change", "release", "goDown", "return",
                                          "invalidate"} =>
                       \A program : OtherProgram(t, program)
<1>1. \A g \in 1..MaxGen : <<"noMotion", g>> \in Thread /\ <<"window", g>> \in Thread
  BY TimerThreadsAreThreads DEF Kind
<1>2. OtherProgram(t, <<>>)
  BY EmptySeq DEF OtherProgram
<1>3. ASSUME t \in SessionThread, NEW program PROVE OtherProgram(t, program)
  <2>1. t \notin InjectThreads
    BY <1>3, Roles DEF SessionThread, LifecycleThread, Kind
  <2>2. \A g \in 1..MaxGen : t # <<"noMotion", g>> /\ t # <<"window", g>>
    BY <1>3, Roles DEF SessionThread, LifecycleThread, Kind
  <2> QED BY <2>1, <2>2 DEF OtherProgram
<1>4. ASSUME OtherPrograms, todo[t] # <<>>, t \notin SessionThread
      PROVE  \/ /\ todo[t] \in Seq(InjectOp)
                /\ \A program \in Seq(InjectOp) : OtherProgram(t, program)
             \/ /\ todo[t] \in Seq(NoMotionOp)
                /\ \A program \in Seq(NoMotionOp) : OtherProgram(t, program)
             \/ /\ todo[t] \in Seq(WindowOp)
                /\ \A program \in Seq(WindowOp) : OtherProgram(t, program)
  <2>1. CASE t \in InjectThreads
    <3>1. \A g \in 1..MaxGen : t # <<"noMotion", g>> /\ t # <<"window", g>>
      BY <2>1, Roles DEF Kind
    <3> QED BY <1>4, <2>1, <3>1 DEF OtherPrograms, OtherProgram
  <2>2. CASE \E g \in 1..MaxGen : t = <<"noMotion", g>>
    <3>1. PICK h \in 1..MaxGen : t = <<"noMotion", h>>
      BY <2>2
    <3>2. t \notin InjectThreads /\ \A g \in 1..MaxGen : t # <<"window", g>>
      BY <3>1, Roles DEF Kind
    <3> QED BY <1>4, <3>1, <3>2 DEF OtherPrograms, OtherProgram
  <2>3. CASE \E g \in 1..MaxGen : t = <<"window", g>>
    <3>1. PICK h \in 1..MaxGen : t = <<"window", h>>
      BY <2>3
    <3>2. t \notin InjectThreads /\ \A g \in 1..MaxGen : t # <<"noMotion", g>>
      BY <3>1, Roles DEF Kind
    <3> QED BY <1>4, <3>1, <3>2 DEF OtherPrograms, OtherProgram
  <2> QED BY <1>4, <2>1, <2>2, <2>3, Roles DEF SessionThread, LifecycleThread, Kind
<1>5. ASSUME OtherPrograms, todo[t] # <<>>, t \notin SessionThread
      PROVE  \/ /\ Head(todo[t]).do \in {"inject", "record", "armNoMotion", "cancel"}
                /\ Tail(todo[t]) \in Seq(InjectOp)
                /\ \A program \in Seq(InjectOp) : OtherProgram(t, program)
             \/ /\ Head(todo[t]).do \in {"wait", "expire", "record"}
                /\ Tail(todo[t]) \in Seq(NoMotionOp)
                /\ \A program \in Seq(NoMotionOp) : OtherProgram(t, program)
             \/ /\ Head(todo[t]).do \in {"wait", "boundary", "update", "armWindow", "cancel"}
                /\ Tail(todo[t]) \in Seq(WindowOp)
                /\ \A program \in Seq(WindowOp) : OtherProgram(t, program)
  <2>1. /\ \A op \in InjectOp : op.do \in {"inject", "record", "armNoMotion", "cancel"}
        /\ \A op \in NoMotionOp : op.do \in {"wait", "expire", "record"}
        /\ \A op \in WindowOp : op.do \in {"wait", "boundary", "update", "armWindow", "cancel"}
    BY OpValues DEF InjectOp, NoMotionOp, WindowOp
  <2> QED BY <1>4, <1>5, <2>1, HeadTailProperties
<1>6. ASSUME OtherPrograms, todo[t] # <<>>
      PROVE  /\ OtherProgram(t, Tail(todo[t]))
             /\ Head(todo[t]).do = "inject" =>
                   \A program \in Seq(InjectOp) : OtherProgram(t, program)
             /\ Head(todo[t]).do = "expire" =>
                   \A program \in Seq(NoMotionOp) : OtherProgram(t, program)
             /\ Head(todo[t]).do \in {"update", "boundary"} =>
                   \A program \in Seq(WindowOp) : OtherProgram(t, program)
             /\ Head(todo[t]).do \in {"activate", "check", "autoStop", "armLifecycle",
                                      "change", "release", "goDown", "return",
                                      "invalidate"} =>
                   \A program : OtherProgram(t, program)
  <2>1. CASE t \in SessionThread
    BY <1>3, <2>1
  <2>2. CASE t \notin SessionThread
    BY <1>5, <1>6, <2>2
  <2> QED BY <2>1, <2>2
<1> QED BY <1>2, <1>3, <1>6

\* The programs such threads get.
LEMMA OtherProgramTypes ==
    /\ <<>> \in Seq(InjectOp) /\ <<>> \in Seq(NoMotionOp) /\ <<>> \in Seq(WindowOp)
    /\ \A n \in Nat : /\ <<Inject(n)>> \in Seq(InjectOp)
                      /\ <<Record(n)>> \in Seq(InjectOp) /\ <<Record(n)>> \in Seq(NoMotionOp)
    /\ StartNoMotionTimer \in Seq(InjectOp)
    /\ NoMotionProgram \in Seq(NoMotionOp)
    /\ WindowProgram \in Seq(WindowOp) /\ <<Simple("update")>> \in Seq(WindowOp)
    /\ \A rest \in Seq(WindowOp) : ScheduleActiveWindow \o rest \in Seq(WindowOp)
<1>1. /\ \A n \in Nat : /\ Inject(n) \in InjectOp /\ Record(n) \in InjectOp
                        /\ Record(n) \in NoMotionOp
      /\ Cancel("noMotion") \in InjectOp /\ Cancel("window") \in WindowOp
      /\ Simple("armNoMotion") \in InjectOp
      /\ Simple("wait") \in NoMotionOp /\ Simple("expire") \in NoMotionOp
      /\ Simple("wait") \in WindowOp /\ Simple("boundary") \in WindowOp
      /\ Simple("update") \in WindowOp /\ Simple("armWindow") \in WindowOp
  BY OpTypes, OpValues DEF InjectOp, NoMotionOp, WindowOp, Kind, SimpleNames
<1>2. \A n \in Nat : /\ <<Inject(n)>> \in Seq(InjectOp)
                     /\ <<Record(n)>> \in Seq(InjectOp) /\ <<Record(n)>> \in Seq(NoMotionOp)
  BY <1>1
<1>3. /\ StartNoMotionTimer \in Seq(InjectOp) /\ NoMotionProgram \in Seq(NoMotionOp)
      /\ WindowProgram \in Seq(WindowOp) /\ <<Simple("update")>> \in Seq(WindowOp)
  BY <1>1 DEF StartNoMotionTimer, NoMotionProgram, WindowProgram
<1>4. ScheduleActiveWindow \in Seq(WindowOp)
  BY <1>1 DEF ScheduleActiveWindow
<1> QED BY <1>2, <1>3, <1>4, EmptySeq, ConcatProperties

LEMMA SpawnOther ==
    ASSUME SingleClient, OtherPrograms, NEW t \in Thread, todo[t] # <<>>,
           NEW k \in Kind, NEW g \in 1..MaxGen, t # <<k, g>>, NEW program,
           OtherProgram(<<k, g>>, program),
           SpawnOutcome(t, k, g, program, Tail(todo[t]))
    PROVE  OtherPrograms'
<1>1. \A u \in Thread : OtherProgram(u, todo[u])
  BY OtherProgramsPointwise
<1>2. OtherProgram(t, Tail(todo[t])) /\ <<k, g>> \in Thread
  BY OtherProgramsHere, TimerThreadsAreThreads
<1>3. \A u \in Thread : OtherProgram(u, todo'[u])
  <2> SUFFICES ASSUME NEW u \in Thread PROVE OtherProgram(u, todo'[u])
    OBVIOUS
  <2>1. \/ todo'[u] = todo[u]
        \/ u = t /\ todo'[u] = Tail(todo[t])
        \/ u = <<k, g>> /\ todo'[u] = program
    BY DEF SpawnOutcome
  <2> QED BY <1>1, <1>2, <2>1
<1>4. \A h \in 1..MaxGen : <<"noMotion", h>> \in Thread /\ <<"window", h>> \in Thread
  BY TimerThreadsAreThreads DEF Kind
<1> QED BY <1>3, <1>4, Roles DEF OtherPrograms, OtherProgram

LEMMA StepOther ==
    ASSUME SingleClient, Types, TimerInv, OneClientInv, NEW t \in Thread, Step(t)
    PROVE  OtherPrograms'
<1> USE DEF OneClientInv, Runs
<1>1. ASSUME NEW program, OtherProgram(t, program),
             \/ Continue(t, program) \/ CallOut(t, program)
             \/ (Leave(t, "callback", program) /\ target' = target)
             \/ (Leave(t, "deliver", program) /\ target' = target)
      PROVE  OtherPrograms'
  <2>1. MovesOnly(t, program)
    BY <1>1, Moves
  <2> QED BY <1>1, <2>1, OtherMoves DEF MovesOnly
<1>2. ASSUME NEW k \in Kind, CancelThread(t, k, Tail(todo[t])), todo[t] # <<>>
      PROVE  OtherPrograms'
  <2>1. MovesOnly(t, Tail(todo[t]))
    BY <1>2, CancelMoves
  <2> QED BY <1>2, <2>1, OtherMoves, OtherProgramsHere DEF MovesOnly
<1>3. ASSUME NEW k \in GenerationKind, NEW program, gen[k] + 1 \in 1..MaxGen, at[t] = "run",
             Spawn(t, k, gen[k] + 1, "begin", program, Tail(todo[t])), todo[t] # <<>>,
             \A g \in 1..MaxGen : OtherProgram(<<k, g>>, program)
      PROVE  OtherPrograms'
  <2>1. PICK g \in 1..MaxGen : g = gen[k] + 1
    BY <1>3
  <2>2. k \in Kind /\ target[<<k, g>>] = Nobody /\ at[<<k, g>>] = "idle"
    BY <2>1, GenerationIsFresh
  <2>3. t # <<k, g>>
    BY <1>3, <2>2
  <2>4. Spawn(t, k, g, "begin", program, Tail(todo[t]))
    BY <1>3, <2>1
  <2>5. SpawnOutcome(t, k, g, program, Tail(todo[t]))
    BY <2>2, <2>3, <2>4, SpawnMoves
  <2> QED BY <1>3, <2>2, <2>3, <2>5, SpawnOther
<1>4. CASE ChangeState(t)
  <2>1. OtherProgram(t, Tail(todo[t]))
    BY <1>4, OtherProgramsHere DEF ChangeState
  <2> QED BY <1>1, <1>4, <2>1 DEF ChangeState
<1>5. CASE CancelTimer(t)
  <2>1. Head(todo[t]).timer \in Kind
    BY <1>5, RunsType, OpFields DEF CancelTimer, Types
  <2> QED BY <1>2, <1>5, <2>1 DEF CancelTimer
<1>6. CASE InvalidateTimer(t)
  <2>1. Head(todo[t]).timer \in Kind
    BY <1>6, RunsType, OpFields DEF InvalidateTimer, Types
  <2> QED BY <1>2, <1>6, <2>1 DEF InvalidateTimer
<1>7. CASE ArmLifecycleTimer(t)
  <2>1. Runs(t, "armLifecycle")
    BY <1>7 DEF ArmLifecycleTimer
  <2>2. PICK g \in 1..MaxGen : g = Head(todo[t]).timer
    BY <2>1, ArmsFresh
  <2>3. PICK program : Spawn(t, "lifecycle", g, "begin", program, Tail(todo[t]))
    BY <1>7, <2>2 DEF ArmLifecycleTimer
  <2>4. t # <<"lifecycle", g>> /\ "lifecycle" \in Kind /\ t \in ClientThreads
    BY <2>1, ArmsFresh, Roles DEF LifecycleThread, Kind
  <2>5. SpawnOutcome(t, "lifecycle", g, program, Tail(todo[t]))
    BY <2>3, <2>4, SpawnMoves
  <2>6. OtherProgram(<<"lifecycle", g>>, program)
    BY Roles, OtherProgramsHere DEF SessionThread, LifecycleThread
  <2> QED BY <2>1, <2>4, <2>5, <2>6, SpawnOther
<1>8. CASE ArmNoMotionTimer(t)
  <2>1. CASE state = "STARTED" /\ startConfig.mode = "NO_MOTION" /\ startConfig.noMotion
    <3>1. gen["noMotion"] + 1 \in 1..MaxGen /\ "noMotion" \in GenerationKind
      BY <1>8, <2>1, Bounds DEF ArmNoMotionTimer, Types, TimersTypeOK, Kind, GenerationKind
    <3>2. \A g \in 1..MaxGen : OtherProgram(<<"noMotion", g>>, NoMotionProgram)
      BY OtherProgramTypes, Roles DEF OtherProgram, Kind
    <3> QED BY <1>3, <1>8, <2>1, <3>1, <3>2 DEF ArmNoMotionTimer
  <2> QED BY <1>1, <1>8, <2>1, OtherProgramsHere DEF ArmNoMotionTimer
<1>9. CASE ArmWindowScheduler(t)
  <2>1. CASE state = "STARTED" /\ hasWindows
    <3>1. gen["window"] + 1 \in 1..MaxGen /\ "window" \in GenerationKind
      BY <1>9, <2>1, Bounds DEF ArmWindowScheduler, Types, TimersTypeOK, Kind, GenerationKind
    <3>2. \A g \in 1..MaxGen : OtherProgram(<<"window", g>>, WindowProgram)
      BY OtherProgramTypes, Roles DEF OtherProgram, Kind
    <3> QED BY <1>3, <1>9, <2>1, <3>1, <3>2 DEF ArmWindowScheduler
  <2> QED BY <1>1, <1>9, <2>1, OtherProgramsHere DEF ArmWindowScheduler
<1>10. CASE UpdateActiveWindow(t)
  <2>1. /\ OtherProgram(t, Tail(todo[t]))
        /\ OtherProgram(t, ScheduleActiveWindow \o Tail(todo[t]))
    <3>1. CASE t \in SessionThread
      BY <3>1, OtherProgramsHere
    <3>2. CASE t \notin SessionThread
      <4>1. todo[t] # <<>> /\ Head(todo[t]).do = "update"
        BY <1>10 DEF UpdateActiveWindow
      <4>2. \A g \in 1..MaxGen : <<"window", g>> \in Thread
        BY TimerThreadsAreThreads DEF Kind
      <4>3. OtherProgram(t, Tail(todo[t]))
        BY <4>1, OtherProgramsHere
      <4>4. t \notin InjectThreads /\ \A g \in 1..MaxGen : t # <<"noMotion", g>>
        <5>1. \A op \in InjectOp \cup NoMotionOp : op.do # "update"
          BY OpValues DEF InjectOp, NoMotionOp
        <5>2. Head(todo[t]) \notin InjectOp \cup NoMotionOp
          BY <4>1, <5>1
        <5> QED BY <4>1, <5>2, HeadTailProperties DEF OtherPrograms
      <4>5. ASSUME NEW g \in 1..MaxGen, t = <<"window", g>>
            PROVE  ScheduleActiveWindow \o Tail(todo[t]) \in Seq(WindowOp)
        BY <4>3, <4>5, OtherProgramTypes DEF OtherProgram
      <4> QED BY <4>3, <4>4, <4>5 DEF OtherProgram
    <3> QED BY <3>1, <3>2
  <2> QED BY <1>1, <1>10, <2>1 DEF UpdateActiveWindow
<1>11. CASE InjectLocked(t)
  <2>1. Head(todo[t]) \in Op /\ Head(todo[t]).do = "inject"
    BY <1>11, RunsType DEF InjectLocked, Types
  <2>2. Head(todo[t]).stamp \in Nat
    BY <2>1, OpFields
  <2>3. \A program \in Seq(InjectOp) : OtherProgram(t, program)
    BY <1>11, <2>1, OtherProgramsHere DEF InjectLocked
  <2> QED BY <1>1, <1>11, <2>2, <2>3, OtherProgramTypes DEF InjectLocked
<1>12. CASE EndSessionOfTheDead(t) \/ Release(t)
  <2>1. \A program : OtherProgram(t, program)
    BY <1>12, OtherProgramsHere DEF EndSessionOfTheDead, Release
  <2> QED BY <1>1, <1>12, <2>1 DEF EndSessionOfTheDead, Release
<1>13. CASE ReturnToCallback(t)
  BY <1>1, <1>13, OtherProgramsHere DEF ReturnToCallback
<1>14. CASE TakeMutex(t) \/ \E l \in Listeners : OnEvent(t, l)
  <2>1. todo' = todo
    BY <1>14 DEF TakeMutex, OnEvent
  <2> QED BY <2>1 DEF OtherPrograms
<1>15. CASE RecordEvent(t)
  <2>1. todo'[t] = <<>> /\ \A u \in Thread : u # t => todo'[u] = todo[u]
    BY <1>15 DEF RecordEvent, Types, ThreadsOK, ThreadsTypeOK
  <2> QED BY <2>1, OtherMoves, OtherProgramsHere
<1> QED BY <1>4, <1>5, <1>6, <1>7, <1>8, <1>9, <1>10, <1>11, <1>12, <1>13, <1>14, <1>15
     DEF Step

LEMMA TimerStepOther ==
    ASSUME SingleClient, Types, OtherPrograms, NEW k \in Kind, NEW g \in 1..MaxGen,
           TimerStep(k, g)
    PROVE  OtherPrograms'
<1> DEFINE t == <<k, g>>
<1>0. t \in Thread
  BY TimerThreadsAreThreads
<1> HIDE DEF t
<1>1. ASSUME NEW program, OtherProgram(t, program),
             \/ Continue(t, program)
             \/ (Leave(t, "wait", program) /\ target' = target)
             \/ (Leave(t, "deliver", program) /\ target' = target)
      PROVE  OtherPrograms'
  <2>1. MovesOnly(t, program)
    BY <1>0, <1>1, Moves
  <2> QED BY <1>0, <1>1, <2>1, OtherMoves DEF MovesOnly
<1> USE DEF t, Runs
<1>2. CASE BeginWait(k, g)
  BY <1>0, <1>1, <1>2, OtherProgramsHere DEF BeginWait
<1>3. CASE WaitCancelled(k, g)
  <2>1. todo'[t] = <<>> /\ \A u \in Thread : u # t => todo'[u] = todo[u]
    BY <1>0, <1>3 DEF WaitCancelled, Types, ThreadsOK, ThreadsTypeOK
  <2> QED BY <1>0, <2>1, OtherMoves, OtherProgramsHere
<1>4. CASE WaitTimesOut(k, g)
  BY <1>4 DEF WaitTimesOut, OtherPrograms
<1>5. CASE ActivateAfterDelay(k, g) \/ CheckBeforeWait(k, g) \/ AutoStop(k, g)
  <2>1. \A program : OtherProgram(t, program)
    BY <1>0, <1>5, OtherProgramsHere DEF ActivateAfterDelay, CheckBeforeWait, AutoStop
  <2> QED BY <1>1, <1>5, <2>1 DEF ActivateAfterDelay, CheckBeforeWait, AutoStop
<1>6. CASE NoMotionExpires(k, g)
  <2>1. \A program \in Seq(NoMotionOp) : OtherProgram(t, program)
    BY <1>0, <1>6, OtherProgramsHere DEF NoMotionExpires
  <2>2. stamps + 1 \in Nat
    BY DEF Types, WorldTypeOK
  <2>3. OtherProgram(t, <<Record(stamps + 1)>>) /\ OtherProgram(t, <<>>)
    BY <2>1, <2>2, OtherProgramTypes
  <2> QED BY <1>1, <1>6, <2>3 DEF NoMotionExpires
<1>7. CASE BoundaryReached(k, g)
  <2>1. \A program \in Seq(WindowOp) : OtherProgram(t, program)
    BY <1>0, <1>7, OtherProgramsHere DEF BoundaryReached
  <2>2. OtherProgram(t, <<Simple("update")>>) /\ OtherProgram(t, <<>>)
    BY <2>1, OtherProgramTypes
  <2> QED BY <1>1, <1>7, <2>2 DEF BoundaryReached
<1> QED BY <1>2, <1>3, <1>4, <1>5, <1>6, <1>7 DEF TimerStep

LEMMA CallOther ==
    ASSUME SingleClient, Types, OneClientInv, ClientCall
    PROVE  OtherPrograms'
<1> USE DEF OneClientInv
<1>1. ASSUME NEW t \in Thread, t \in ClientThreads, NEW program, MovesOnly(t, program)
      PROVE  OtherPrograms'
  <2>1. OtherProgram(t, program)
    BY <1>1, OtherProgramsHere DEF SessionThread
  <2> QED BY <1>1, <2>1, OtherMoves DEF MovesOnly
<1>2. ASSUME NEW t \in Thread, Open(t) \/ SetActiveWindows(t) PROVE OtherPrograms'
  BY <1>2, CallMoves DEF OtherPrograms
<1>3. ASSUME NEW t \in Thread, NEW cfg \in Configs, Start(t, cfg) PROVE OtherPrograms'
  BY <1>1, <1>3, CallMoves
<1>4. ASSUME NEW t \in Thread, Stop(t) \/ Close(t) PROVE OtherPrograms'
  BY <1>1, <1>4, CallMoves
<1>5. ASSUME NEW l \in Listeners, RegisterEventListener(l) \/ UnregisterEventListener(l)
      PROVE OtherPrograms'
  BY <1>5, ListenerCalls DEF OtherPrograms
<1>6. ASSUME NEW t \in InjectThreads, InjectMotionEvent(t) PROVE OtherPrograms'
  <2>1. t \in Thread /\ MovesOnly(t, <<Inject(stamps + 1)>>)
    BY <1>6, CallMoves, Roles
  <2>2. stamps + 1 \in Nat
    BY DEF Types, WorldTypeOK
  <2>3. OtherProgram(t, <<Inject(stamps + 1)>>)
    BY <1>6, <2>2, OtherProgramTypes, Roles DEF OtherProgram, Kind
  <2> QED BY <2>1, <2>3, OtherMoves DEF MovesOnly
<1> QED BY <1>2, <1>3, <1>4, <1>5, <1>6 DEF ClientCall

\* A thread gives work only to itself and to a timer thread it creates.
LEMMA StepLeavesPool ==
    ASSUME Types, NEW t \in Thread, Step(t), NEW u \in PoolThreads, u # t
    PROVE  todo'[u] = todo[u]
<1>1. /\ todo \in [Thread -> Program] /\ u \in Thread
      /\ \A k \in Kind, g \in 1..MaxGen : u # <<k, g>>
  BY TimerThreadsAreThreads DEF Types, ThreadsOK, ThreadsTypeOK, Program
<1>2. \A program, pc : Continue(t, program) \/ Leave(t, pc, program) \/ CallOut(t, program) =>
         todo'[u] = todo[u]
  BY <1>1 DEF Continue, Leave, CallOut
<1>3. \A k, program : CancelThread(t, k, program) => todo'[u] = todo[u]
  BY <1>2 DEF CancelThread
<1>4. \A k, g, program, rest : Spawn(t, k, g, "begin", program, rest) /\ u # <<k, g>> =>
         todo'[u] = todo[u]
  BY <1>1 DEF Spawn
<1>5. CASE ArmLifecycleTimer(t)
  <2>1. Head(todo[t]).timer \in 1..MaxGen
    BY <1>5, RunsType, OpFields DEF ArmLifecycleTimer, Types
  <2> QED BY <1>1, <1>4, <1>5, <2>1 DEF ArmLifecycleTimer, Kind
<1>6. CASE ArmNoMotionTimer(t)
  <2>1. CASE state = "STARTED" /\ startConfig.mode = "NO_MOTION" /\ startConfig.noMotion
    <3>1. gen["noMotion"] + 1 \in 1..MaxGen
      BY <1>6, <2>1, Bounds DEF ArmNoMotionTimer, Types, TimersTypeOK, Kind
    <3> QED BY <1>1, <1>4, <1>6, <2>1, <3>1 DEF ArmNoMotionTimer, Kind
  <2> QED BY <1>2, <1>6, <2>1 DEF ArmNoMotionTimer
<1>7. CASE ArmWindowScheduler(t)
  <2>1. CASE state = "STARTED" /\ hasWindows
    <3>1. gen["window"] + 1 \in 1..MaxGen
      BY <1>7, <2>1, Bounds DEF ArmWindowScheduler, Types, TimersTypeOK, Kind
    <3> QED BY <1>1, <1>4, <1>7, <2>1, <3>1 DEF ArmWindowScheduler, Kind
  <2> QED BY <1>2, <1>7, <2>1 DEF ArmWindowScheduler
<1>8. CASE CancelTimer(t) \/ InvalidateTimer(t)
  BY <1>3, <1>8 DEF CancelTimer, InvalidateTimer
<1>9. CASE ChangeState(t) \/ UpdateActiveWindow(t) \/ InjectLocked(t)
           \/ EndSessionOfTheDead(t) \/ Release(t) \/ ReturnToCallback(t)
  BY <1>2, <1>9 DEF ChangeState, UpdateActiveWindow, InjectLocked, EndSessionOfTheDead,
       Release, ReturnToCallback
<1>10. CASE TakeMutex(t) \/ RecordEvent(t) \/ \E l \in Listeners : OnEvent(t, l)
  BY <1>1, <1>10 DEF TakeMutex, RecordEvent, OnEvent
<1> QED BY <1>5, <1>6, <1>7, <1>8, <1>9, <1>10 DEF Step

LEMMA TimerStepLeavesPool ==
    ASSUME Types, NEW k \in Kind, NEW g \in 1..MaxGen, TimerStep(k, g), NEW u \in PoolThreads
    PROVE  todo'[u] = todo[u]
<1>1. todo \in [Thread -> Program] /\ u \in Thread /\ u # <<k, g>>
  BY TimerThreadsAreThreads DEF Types, ThreadsOK, ThreadsTypeOK, Program
<1> QED BY <1>1 DEF TimerStep, BeginWait, WaitCancelled, WaitTimesOut, ActivateAfterDelay,
     CheckBeforeWait, AutoStop, NoMotionExpires, BoundaryReached, Continue, Leave

-----------------------------------------------------------------------------
(* The steps of the other threads.                                          *)

LEMMA SessionThreads ==
    ASSUME SingleClient
    PROVE  /\ SessionThread \subseteq Thread
           /\ \A c \in ClientThreads : c \in SessionThread
           /\ \A g \in 1..MaxGen : LifecycleThread(g) \in SessionThread
           /\ \A t \in InjectThreads : t \notin SessionThread
           /\ \A k \in GenerationKind, g \in 1..MaxGen : <<k, g>> \notin SessionThread
BY Roles, GenerationKinds DEF SessionThread, LifecycleThread, Kind

LEMMA OtherStepFrame ==
    ASSUME SingleClient, Types, TimerInv, OneClientInv,
           NEW t \in Thread, t \notin SessionThread, Step(t)
    PROVE  Frame(t)
<1> USE DEF OneClientInv, Runs
<1>1. todo[t] # <<>> =>
         /\ Head(todo[t]).do \in {"wait", "expire", "record", "boundary", "update", "armWindow",
                                  "inject", "armNoMotion", "cancel"}
         /\ Head(todo[t]).do = "cancel" => Head(todo[t]).timer # "lifecycle"
  <2>1. \A op \in NoMotionOp \cup WindowOp \cup InjectOp :
           /\ op.do \in {"wait", "expire", "record", "boundary", "update", "armWindow",
                         "inject", "armNoMotion", "cancel"}
           /\ op.do = "cancel" => op.timer # "lifecycle"
    BY OpValues DEF NoMotionOp, WindowOp, InjectOp
  <2> QED BY <2>1, OtherHead
<1>2. CASE CancelTimer(t) \/ ArmNoMotionTimer(t) \/ ArmWindowScheduler(t) \/ UpdateActiveWindow(t)
  <2>1. todo[t] # <<>> /\ PlainOp(Head(todo[t]))
    BY <1>1, <1>2 DEF CancelTimer, ArmNoMotionTimer, ArmWindowScheduler, UpdateActiveWindow,
         PlainOp
  <2> QED BY <1>2, <2>1, PlainSteps
<1>3. CASE InjectLocked(t)
  <2>1. UNCHANGED <<state, owner, handle, cancelled>>
    BY <1>3 DEF InjectLocked, sensorVars, timerVars
  <2>2. \E program : MovesOnly(t, program) /\ target' = target
    BY <1>3, Moves DEF InjectLocked
  <2> QED BY <2>1, <2>2, FrameOfMove
<1>4. CASE TakeMutex(t)
  <2>1. /\ todo' = todo /\ target'[t] = Nobody
        /\ \A u \in Thread : u # t => at'[u] = at[u] /\ target'[u] = target[u]
        /\ UNCHANGED <<state, owner, handle, cancelled>>
    BY <1>4 DEF TakeMutex, Types, ThreadsOK, ThreadsTypeOK, sensorVars, timerVars
  <2> QED BY <2>1, Roles, SessionThreads DEF Frame
<1>5. CASE RecordEvent(t) \/ \E l \in Listeners : OnEvent(t, l)
  <2>1. /\ \A u \in Thread : u # t => at'[u] = at[u] /\ todo'[u] = todo[u]
        /\ UNCHANGED <<state, owner, handle, cancelled, target>>
    BY <1>5 DEF RecordEvent, OnEvent, Types, ThreadsOK, ThreadsTypeOK, sensorVars, timerVars
  <2> QED BY <2>1, SessionThreads DEF Frame
<1>6. CASE ChangeState(t) \/ InvalidateTimer(t) \/ ArmLifecycleTimer(t)
           \/ EndSessionOfTheDead(t) \/ Release(t) \/ ReturnToCallback(t)
  BY <1>1, <1>6 DEF ChangeState, InvalidateTimer, ArmLifecycleTimer, EndSessionOfTheDead,
       Release, ReturnToCallback
<1> QED BY <1>2, <1>3, <1>4, <1>5, <1>6 DEF Step

LEMMA OtherStep ==
    ASSUME SingleClient, Types, TimerInv, OneClientInv,
           NEW t \in Thread, t \notin SessionThread, Step(t)
    PROVE  SessionInv'
BY OtherStepFrame, OtherFrame DEF OneClientInv

LEMMA OtherTimerStepFrame ==
    ASSUME SingleClient, Types, OneClientInv, NEW k \in GenerationKind, NEW g \in 1..MaxGen,
           TimerStep(k, g)
    PROVE  Frame(<<k, g>>) /\ <<k, g>> \in Thread /\ <<k, g>> \notin SessionThread
<1> DEFINE t == <<k, g>>
<1>1. t \in Thread /\ t \notin SessionThread
  BY SessionThreads, GenerationKinds
<1>2. /\ UNCHANGED <<state, owner, handle, cancelled>>
      /\ target' = target
  BY DEF TimerStep, BeginWait, WaitCancelled, WaitTimesOut, ActivateAfterDelay,
       CheckBeforeWait, AutoStop, NoMotionExpires, BoundaryReached, Continue, sensorVars,
       timerVars
<1>3. \E program : MovesOnly(t, program)
  <2>1. CASE WaitCancelled(k, g) \/ WaitTimesOut(k, g)
    <3>1. \A u \in Thread : u # t => at'[u] = at[u] /\ todo'[u] = todo[u]
      BY <1>1, <2>1 DEF WaitCancelled, WaitTimesOut, Types, ThreadsOK, ThreadsTypeOK
    <3> QED BY <1>2, <3>1 DEF MovesOnly
  <2>2. CASE BeginWait(k, g) \/ ActivateAfterDelay(k, g) \/ CheckBeforeWait(k, g)
             \/ AutoStop(k, g) \/ NoMotionExpires(k, g) \/ BoundaryReached(k, g)
    <3>1. \E program : \/ Continue(t, program)
                       \/ Leave(t, "wait", program) \/ Leave(t, "deliver", program)
      BY <2>2 DEF BeginWait, ActivateAfterDelay, CheckBeforeWait, AutoStop, NoMotionExpires,
           BoundaryReached
    <3> QED BY <1>1, <1>2, <3>1, Moves
  <2> QED BY <2>1, <2>2 DEF TimerStep
<1>4. Frame(t)
  <2> HIDE DEF t
  <2> QED BY <1>1, <1>2, <1>3, FrameOfMove
<1> QED BY <1>1, <1>4

LEMMA OtherTimerStep ==
    ASSUME SingleClient, Types, OneClientInv, NEW k \in GenerationKind, NEW g \in 1..MaxGen,
           TimerStep(k, g)
    PROVE  SessionInv'
<1>1. PICK t : t = <<k, g>>
  OBVIOUS
<1>2. Frame(t) /\ t \in Thread /\ t \notin SessionThread
  BY <1>1, OtherTimerStepFrame
<1> QED BY <1>2, OtherFrame DEF OneClientInv

-----------------------------------------------------------------------------
(* The steps of the client.                                                 *)

\* The client goes on with program, and the lifecycle timer stays as it is.
LEMMA ClientMove ==
    ASSUME SingleClient, Types, SessionInv, NEW c \in ClientThreads, NEW program,
           MovesOnly(c, program), target' = target,
           handle'["lifecycle"] = handle["lifecycle"],
           cancelled'["lifecycle"] = cancelled["lifecycle"],
           state' = state \/ LifecycleIdle, ClientPhase(c)'
    PROVE  SessionInv'
<1>1. \A g \in 1..MaxGen : /\ todo'[LifecycleThread(g)] = todo[LifecycleThread(g)]
                           /\ at'[LifecycleThread(g)] = at[LifecycleThread(g)]
  BY Roles DEF MovesOnly
<1>2. ASSUME NEW g \in 1..MaxGen PROVE LifecyclePhase(g)'
  <2>1. LifecyclePhase(g)
    BY DEF SessionInv
  <2>2. CASE state' = state
    BY <1>1, <2>1, <2>2 DEF LifecyclePhase
  <2>3. CASE LifecycleIdle
    BY <1>1, <2>3 DEF LifecyclePhase, LifecycleIdle
  <2> QED BY <2>2, <2>3
<1>3. \A d \in ClientThreads : ClientPhase(d)'
  BY DEF SingleClient
<1>4. LifecycleWithinReach'
  BY <1>1 DEF SessionInv, LifecycleWithinReach
<1>5. LifecycleJoins'
  BY DEF SessionInv, LifecycleJoins
<1> QED BY <1>2, <1>3, <1>4, <1>5 DEF SessionInv

\* While the client joins no lifecycle thread and the handle owns none, there
\* is none.
LEMMA NoneLeft ==
    ASSUME SingleClient, OneClientInv, NEW c \in ClientThreads,
           \A g \in 1..MaxGen : /\ handle["lifecycle"] # LifecycleThread(g)
                                /\ target[c] = LifecycleThread(g) =>
                                      at[LifecycleThread(g)] = "idle"
    PROVE  /\ \A g \in 1..MaxGen : at[LifecycleThread(g)] = "idle"
           /\ LifecycleIdle
<1>1. \A g \in 1..MaxGen : at[LifecycleThread(g)] = "idle"
  BY DEF SingleClient, OneClientInv, SessionInv, LifecycleWithinReach
<1> QED BY <1>1, Roles DEF OneClientInv, PlacesOK, LifecycleIdle

\* The operations that cancel the lifecycle thread.
LEMMA LifecycleCancels ==
    ASSUME SingleClient, Types, OneClientInv, NEW c \in ClientThreads,
           todo[c] # <<>>, at[c] = "run",
           Head(todo[c]) \in {Cancel("lifecycle"), Invalidate("lifecycle")},
           CancelThread(c, "lifecycle", Tail(todo[c])), UNCHANGED <<state, owner>>
    PROVE  SessionInv'
<1> USE DEF OneClientInv
<1>0. "lifecycle" \in Kind /\ c \in Thread /\ target[c] = Nobody
  BY Roles DEF Kind, PlacesOK
<1>1. /\ MovesOnly(c, Tail(todo[c]))
      /\ handle'["lifecycle"] = Nobody /\ cancelled'["lifecycle"]
  BY <1>0, CancelMoves
<1>2. \/ handle["lifecycle"] = Nobody /\ target' = target
      \/ \E g \in 1..MaxGen : /\ handle["lifecycle"] = LifecycleThread(g)
                              /\ at'[c] = "join" /\ target'[c] = LifecycleThread(g)
  <2>1. \/ handle["lifecycle"] \in {Nobody, c} /\ target' = target
        \/ /\ handle["lifecycle"] \notin {Nobody, c}
           /\ at'[c] = "join" /\ target'[c] = handle["lifecycle"]
    BY <1>0, CancelMoves
  <2>2. CASE handle["lifecycle"] = Nobody
    BY <2>1, <2>2
  <2>3. CASE handle["lifecycle"] # Nobody
    <3>1. PICK k \in Kind, g \in 1..MaxGen : handle["lifecycle"] = <<k, g>>
      BY <1>0, <2>3 DEF Types, TimersTypeOK, TimerThreads
    <3>2. handle["lifecycle"][1] = "lifecycle"
      BY <1>0, <2>3 DEF Types, TimersTypeOK
    <3>3. handle["lifecycle"] = LifecycleThread(g)
      BY <3>1, <3>2 DEF LifecycleThread
    <3> QED BY <2>1, <2>3, <3>3, Roles
  <2> QED BY <2>2, <2>3
<1>3. \A g \in 1..MaxGen : /\ todo'[LifecycleThread(g)] = todo[LifecycleThread(g)]
                           /\ at'[LifecycleThread(g)] = at[LifecycleThread(g)]
  BY <1>1, Roles DEF MovesOnly
<1>4. LifecycleIdle => LifecycleIdle'
  BY <1>3 DEF LifecycleIdle
<1>5. ASSUME NEW g \in 1..MaxGen PROVE LifecyclePhase(g)'
  <2>1. LifecyclePhase(g)
    BY DEF SessionInv
  <2> QED BY <1>3, <2>1 DEF LifecyclePhase
<1>6. ClientPhase(c)
  BY DEF SessionInv
<1>7. ClientPhase(c)'
  <2> USE OpValues DEF Parts
  <2>1. CASE Beginning(c)
    <3>1. CASE \E arm \in DelayOp : todo[c] = Then(Change("STARTING"), Arm2(arm))
      BY <3>1, ArmParts, ArmOps
    <3>2. CASE \E rest \in StartRest : todo[c] = Then(Change("STARTING"), Active(rest))
      BY <3>2, RestPrograms, ActivationParts
    <3> QED BY <2>1, <3>1, <3>2 DEF Beginning
  <2>2. CASE Delaying(c)
    <3>1. PICK arm \in DelayOp : todo[c] \in {Arm2(arm), Arm1(arm)}
      BY <2>2 DEF Delaying
    <3>2. todo[c] # Arm1(arm)
      BY <3>1, ArmParts, ArmOps
    <3>3. todo'[c] = Arm1(arm)
      BY <1>1, <3>1, <3>2, ArmParts, ArmOps DEF MovesOnly
    <3> QED BY <1>1, <1>4, <2>2, <3>3 DEF Delaying, ClientPhase
  <2>3. CASE Activating(c)
    <3>1. Head(todo[c]) \in {Change("STARTED"), Simple("update"), Cancel("window"),
                            Simple("armWindow"), Cancel("noMotion"), Simple("armNoMotion")}
      BY <2>3, RestPrograms, ActivationParts DEF Activating, Activation
    <3> QED BY <3>1
  <2>4. CASE Limiting(c)
    <3>1. PICK arm \in LimitOp : todo[c] \in {Arm2(arm), Arm1(arm)}
      BY <2>4 DEF Limiting
    <3>2. todo[c] # Arm1(arm)
      BY <3>1, ArmParts, ArmOps
    <3>3. todo'[c] = Arm1(arm)
      BY <1>1, <3>1, <3>2, ArmParts, ArmOps DEF MovesOnly
    <3> QED BY <1>1, <1>4, <2>4, <3>3 DEF Limiting, ClientPhase
  <2>5. CASE Stopping(c)
    <3>1. todo[c] # Stop4 /\ todo[c] \notin {Stop3, Stop2} /\ todo[c] # Stop1
      <4>1. /\ Head(Stop4) = Invalidate("noMotion") /\ Head(Stop3) = Cancel("window")
            /\ Head(Stop2) = Change("STOPPING") /\ Head(Stop1) = Change("STOPPED")
        BY StopParts
      <4>2. Head(todo[c]).do \in {"cancel", "invalidate"} /\ Head(todo[c]).timer = "lifecycle"
        OBVIOUS
      <4>3. Head(todo[c]) \notin {Invalidate("noMotion"), Cancel("window"),
                                 Change("STOPPING"), Change("STOPPED")}
        BY <4>2
      <4> QED BY <4>1, <4>3
    <3>2. state # "STARTING" /\ todo[c] = Stop5
      BY <2>5, <3>1 DEF Stopping
    <3>3. todo'[c] = Stop4
      BY <1>1, <3>2, StopParts DEF MovesOnly
    <3>4. CASE handle["lifecycle"] = Nobody
      <4>1. LifecycleIdle
        BY <1>0, <3>4, Roles, NoneLeft
      <4> QED BY <1>4, <3>2, <3>3, <4>1 DEF Stopping, ClientPhase
    <3>5. CASE handle["lifecycle"] # Nobody
      BY <1>2, <3>2, <3>3, <3>5 DEF Stopping, ClientPhase
    <3> QED BY <3>4, <3>5
  <2>6. CASE Closing(c)
    <3>1. todo'[c] \in {Close3, Close2, Close1, <<>>}
      BY <1>1, <2>6, CloseParts DEF Closing, MovesOnly
    <3> QED BY <2>6, <3>1 DEF Closing, ClientPhase
  <2> QED BY <1>6, <2>1, <2>2, <2>3, <2>4, <2>5, <2>6 DEF ClientPhase
<1>8. \A d \in ClientThreads : ClientPhase(d)'
  BY <1>7 DEF SingleClient
<1>9. LifecycleWithinReach'
  <2> SUFFICES ASSUME NEW g \in 1..MaxGen, at'[LifecycleThread(g)] # "idle"
               PROVE  \E d \in ClientThreads : target'[d] = LifecycleThread(g)
    BY DEF LifecycleWithinReach
  <2>1. handle["lifecycle"] = LifecycleThread(g)
    BY ZenonT(60), <1>0, <1>3, Roles DEF SessionInv, LifecycleWithinReach, SingleClient
  <2> QED BY <1>2, <2>1, Roles
<1>10. LifecycleJoins'
  <2> SUFFICES ASSUME NEW t \in Thread, NEW g \in 1..MaxGen, target'[t] = LifecycleThread(g)
               PROVE  t \in ClientThreads
    BY <1>1 DEF LifecycleJoins
  <2>1. CASE t = c
    BY <2>1
  <2>2. CASE t # c
    BY <1>1, <2>2 DEF MovesOnly, SessionInv, LifecycleJoins
  <2> QED BY <2>1, <2>2
<1> QED BY <1>5, <1>8, <1>9, <1>10 DEF SessionInv

\* The client changes the state only while no lifecycle thread is at work.
LEMMA ClientChanges ==
    ASSUME SingleClient, Types, OneClientInv, NEW c \in ClientThreads, ChangeState(c)
    PROVE  SessionInv'
<1> USE OpValues DEF OneClientInv, Parts
<1>1. /\ todo[c] # <<>> /\ at[c] = "run" /\ Head(todo[c]).do = "change"
      /\ state' = Head(todo[c]).to /\ UNCHANGED <<owner, handle, cancelled>>
      /\ c \in Thread
  BY Roles DEF ChangeState, Runs, timerVars
<1>2. MovesOnly(c, Tail(todo[c])) /\ target' = target
  BY <1>1, Moves DEF ChangeState
<1>3. ClientPhase(c)
  BY DEF SessionInv
<1>4. \A g \in 1..MaxGen : todo'[LifecycleThread(g)] = todo[LifecycleThread(g)]
  BY <1>2, Roles DEF MovesOnly
<1>5. LifecycleIdle => LifecycleIdle'
  BY <1>4 DEF LifecycleIdle
<1>6. LifecycleIdle /\ ClientPhase(c)'
  <2>1. CASE Beginning(c)
    <3>1. LifecycleIdle
      BY <2>1 DEF Beginning, SessionInv, LifecycleIdle, LifecyclePhase
    <3>2. CASE \E arm \in DelayOp : todo[c] = Then(Change("STARTING"), Arm2(arm))
      <4>1. PICK arm \in DelayOp : todo[c] = Then(Change("STARTING"), Arm2(arm))
        BY <3>2
      <4>2. state' = "STARTING" /\ todo'[c] = Arm2(arm)
        BY <1>1, <1>2, <4>1, ArmParts, ArmOps DEF MovesOnly
      <4> QED BY <1>1, <1>5, <2>1, <3>1, <4>2 DEF Beginning, Delaying, ClientPhase
    <3>3. CASE \E rest \in StartRest : todo[c] = Then(Change("STARTING"), Active(rest))
      <4>1. PICK rest \in StartRest : todo[c] = Then(Change("STARTING"), Active(rest))
        BY <3>3
      <4>2. state' = "STARTING" /\ todo'[c] = Active(rest)
        BY <1>1, <1>2, <4>1, RestPrograms, ActivationParts DEF MovesOnly
      <4> QED BY <1>1, <1>5, <2>1, <3>1, <4>2 DEF Beginning, Activating, ClientPhase
    <3> QED BY <2>1, <3>2, <3>3 DEF Beginning
  <2>2. CASE Delaying(c)
    <3>1. PICK arm \in DelayOp : todo[c] \in {Arm2(arm), Arm1(arm)}
      BY <2>2 DEF Delaying
    <3>2. Head(todo[c]) \in {Cancel("lifecycle"), arm}
      BY <3>1, ArmParts, ArmOps
    <3> QED BY <1>1, <3>2, ArmOps
  <2>3. CASE Activating(c)
    <3>1. PICK rest \in StartRest : \/ (state = "STARTING" /\ todo[c] = Active(rest))
                                    \/ (state = "STARTED" /\ todo[c] \in Activation(rest))
      BY <2>3 DEF Activating
    <3>2. rest \in Program
      BY RestPrograms
    <3>3. todo[c] \notin Activation(rest)
      BY SMTT(30), <1>1, <3>2, ActivationParts DEF Activation
    <3>4. state' = "STARTED" /\ todo'[c] = Update(rest)
      BY <1>1, <1>2, <3>1, <3>2, <3>3, ActivationParts DEF MovesOnly
    <3> QED BY <1>1, <1>5, <2>3, <3>4 DEF Activating, Activation, ClientPhase
  <2>4. CASE Limiting(c)
    <3>1. PICK arm \in LimitOp : todo[c] \in {Arm2(arm), Arm1(arm)}
      BY <2>4 DEF Limiting
    <3>2. Head(todo[c]) \in {Cancel("lifecycle"), arm}
      BY <3>1, ArmParts, ArmOps
    <3> QED BY <1>1, <3>2, ArmOps
  <2>5. CASE Stopping(c)
    <3>1. /\ Head(Stop5) = Invalidate("lifecycle") /\ Head(Stop4) = Invalidate("noMotion")
          /\ Head(Stop3) = Cancel("window") /\ Head(Stop2) = Change("STOPPING")
          /\ Head(Stop1) = Change("STOPPED")
      BY StopParts
    <3>2. todo[c] \notin {Stop5, Stop4, Stop3}
      BY <1>1, <3>1
    <3>3. LifecycleIdle /\ todo[c] \in {Stop2, Stop1}
      BY <2>5, <3>2 DEF Stopping
    <3>4. CASE todo[c] = Stop2
      <4>1. state' = "STOPPING" /\ todo'[c] = Stop1
        BY <1>1, <1>2, <3>4, StopParts DEF MovesOnly
      <4> QED BY <1>5, <3>3, <4>1 DEF Stopping, ClientPhase
    <3>5. CASE todo[c] = Stop1
      BY <1>2, <3>3, <3>5, StopParts DEF MovesOnly, ClientPhase
    <3> QED BY <3>3, <3>4, <3>5
  <2>6. CASE Closing(c)
    <3>1. Head(todo[c]) \in {Invalidate("lifecycle"), Invalidate("noMotion"), Cancel("window"),
                            Simple("release")}
      BY <2>6, CloseParts DEF Closing
    <3> QED BY <1>1, <3>1
  <2> QED BY <1>1, <1>3, <2>1, <2>2, <2>3, <2>4, <2>5, <2>6 DEF ClientPhase
<1> QED BY <1>1, <1>2, <1>6, ClientMove

\* start() arms the lifecycle timer last, when no lifecycle thread is left and
\* the handle is free.
LEMMA ArmPhase ==
    ASSUME SingleClient, Types, OneClientInv, NEW c \in ClientThreads,
           Runs(c, "armLifecycle")
    PROVE  /\ \/ Delaying(c) /\ \E arm \in DelayOp : todo[c] = Arm1(arm)
              \/ Limiting(c) /\ \E arm \in LimitOp : todo[c] = Arm1(arm)
           /\ handle["lifecycle"] = Nobody
<1> USE OpValues DEF OneClientInv, Parts
<1>1. todo[c] # <<>> /\ Head(todo[c]).do = "armLifecycle"
  BY DEF Runs
<1>2. ClientPhase(c)
  BY DEF SessionInv
<1>3. \/ Delaying(c) /\ \E arm \in DelayOp : todo[c] = Arm1(arm)
      \/ Limiting(c) /\ \E arm \in LimitOp : todo[c] = Arm1(arm)
  <2>1. CASE Beginning(c)
    <3>1. CASE \E arm \in DelayOp : todo[c] = Then(Change("STARTING"), Arm2(arm))
      BY <1>1, <3>1, ArmParts, ArmOps
    <3>2. CASE \E rest \in StartRest : todo[c] = Then(Change("STARTING"), Active(rest))
      BY <1>1, <3>2, RestPrograms, ActivationParts
    <3> QED BY <2>1, <3>1, <3>2 DEF Beginning
  <2>2. CASE Delaying(c)
    <3>1. PICK arm \in DelayOp : todo[c] \in {Arm2(arm), Arm1(arm)}
      BY <2>2 DEF Delaying
    <3>2. todo[c] # Arm2(arm)
      BY <1>1, ArmParts, ArmOps
    <3> QED BY <2>2, <3>1, <3>2
  <2>3. CASE Activating(c)
    <3>1. Head(todo[c]) \in {Change("STARTED"), Simple("update"), Cancel("window"),
                            Simple("armWindow"), Cancel("noMotion"), Simple("armNoMotion")}
      BY <2>3, RestPrograms, ActivationParts DEF Activating, Activation
    <3> QED BY <1>1, <3>1
  <2>4. CASE Limiting(c)
    <3>1. PICK arm \in LimitOp : todo[c] \in {Arm2(arm), Arm1(arm)}
      BY <2>4 DEF Limiting
    <3>2. todo[c] # Arm2(arm)
      BY <1>1, ArmParts, ArmOps
    <3> QED BY <2>4, <3>1, <3>2
  <2>5. CASE Stopping(c)
    <3>1. Head(todo[c]) \in {Invalidate("lifecycle"), Invalidate("noMotion"), Cancel("window"),
                            Change("STOPPING"), Change("STOPPED")}
      BY <2>5, StopParts DEF Stopping
    <3> QED BY <1>1, <3>1
  <2>6. CASE Closing(c)
    <3>1. Head(todo[c]) \in {Invalidate("lifecycle"), Invalidate("noMotion"), Cancel("window"),
                            Simple("release")}
      BY <2>6, CloseParts DEF Closing
    <3> QED BY <1>1, <3>1
  <2> QED BY <1>1, <1>2, <2>1, <2>2, <2>3, <2>4, <2>5, <2>6 DEF ClientPhase
<1>4. handle["lifecycle"] = Nobody
  <2>1. \A arm \in DelayOp \cup LimitOp : Arm1(arm) # Arm2(arm)
    BY ArmParts, ArmOps
  <2>2. CASE Delaying(c) /\ \E arm \in DelayOp : todo[c] = Arm1(arm)
    <3>1. PICK arm \in DelayOp : \/ todo[c] = Arm2(arm)
                                 \/ (todo[c] = Arm1(arm) /\ handle["lifecycle"] = Nobody)
      BY <2>2 DEF Delaying
    <3>2. Head(Arm2(arm)).do = "cancel"
      BY ArmParts, ArmOps
    <3> QED BY <1>1, <3>1, <3>2
  <2>3. CASE Limiting(c) /\ \E arm \in LimitOp : todo[c] = Arm1(arm)
    <3>1. PICK arm \in LimitOp : \/ todo[c] = Arm2(arm)
                                 \/ (todo[c] = Arm1(arm) /\ handle["lifecycle"] = Nobody)
      BY <2>3 DEF Limiting
    <3>2. Head(Arm2(arm)).do = "cancel"
      BY ArmParts, ArmOps
    <3> QED BY <1>1, <3>1, <3>2
  <2> QED BY <1>3, <2>2, <2>3
<1> QED BY <1>3, <1>4

\* The lifecycle thread that start() creates is the only one, and has the work
\* that belongs to the state.
LEMMA ClientArms ==
    ASSUME SingleClient, Types, OneClientInv, NEW c \in ClientThreads, ArmLifecycleTimer(c)
    PROVE  SessionInv'
<1> USE OpValues DEF OneClientInv, Parts
<1>1. /\ Runs(c, "armLifecycle") /\ todo[c] # <<>> /\ Head(todo[c]).do = "armLifecycle"
      /\ c \in Thread /\ "lifecycle" \in Kind /\ UNCHANGED <<state, owner>>
  BY Roles DEF ArmLifecycleTimer, Runs, Kind, sensorVars
<1>2. PICK g \in 1..MaxGen : g = Head(todo[c]).timer
  BY <1>1, ArmsFresh
<1>4. /\ \/ Delaying(c) /\ \E arm \in DelayOp : todo[c] = Arm1(arm)
         \/ Limiting(c) /\ \E arm \in LimitOp : todo[c] = Arm1(arm)
      /\ handle["lifecycle"] = Nobody
  BY <1>1, ArmPhase
<1>5. LifecycleIdle
  BY <1>4 DEF Delaying, Limiting
<1>6. handle["lifecycle"] = Nobody
  BY <1>4
<1>7. \A h \in 1..MaxGen : at[LifecycleThread(h)] = "idle"
  BY <1>1, <1>6, ArmsFresh
<1> DEFINE program == LifecycleProgram(Head(todo[c]).delayed, Head(todo[c]).stops)
<1>8. \/ state = "STARTING" /\ \E rest \in LifecycleRest : program = Delay2(rest)
      \/ state = "STARTED" /\ program = Limit3
  <2>1. CASE Delaying(c) /\ \E arm \in DelayOp : todo[c] = Arm1(arm)
    <3>1. PICK arm \in DelayOp : todo[c] = Arm1(arm)
      BY <2>1
    <3>2. Head(todo[c]) = arm
      BY <3>1, ArmParts, ArmOps
    <3>3. arm.delayed = TRUE /\ arm.stops \in BOOLEAN
      BY OpFields DEF DelayOp
    <3> QED BY <2>1, <3>2, <3>3, LifecycleUnfolds DEF Delaying
  <2>2. CASE Limiting(c) /\ \E arm \in LimitOp : todo[c] = Arm1(arm)
    <3>1. PICK arm \in LimitOp : todo[c] = Arm1(arm)
      BY <2>2
    <3>2. Head(todo[c]) = arm
      BY <3>1, ArmParts, ArmOps
    <3>3. arm.delayed = FALSE /\ arm.stops = TRUE
      BY OpFields DEF LimitOp
    <3> QED BY <2>2, <3>2, <3>3, LifecycleUnfolds DEF Limiting
  <2> QED BY <1>4, <2>1, <2>2
<1>9. Tail(todo[c]) = <<>>
  BY <1>4, ArmParts, ArmOps
<1>10. PICK work : work = program
  OBVIOUS
<1>11. SpawnOutcome(c, "lifecycle", g, work, Tail(todo[c]))
  <2>1. c # <<"lifecycle", g>>
    BY Roles DEF LifecycleThread
  <2>2. Spawn(c, "lifecycle", g, "begin", work, Tail(todo[c]))
    BY <1>2, <1>10 DEF ArmLifecycleTimer
  <2> QED BY <1>1, <2>1, <2>2, SpawnMoves
<1>12. /\ target' = target /\ handle'["lifecycle"] = LifecycleThread(g)
       /\ todo'[c] = <<>> /\ todo'[LifecycleThread(g)] = work
       /\ \A u \in Thread : u # c /\ u # LifecycleThread(g) =>
             todo'[u] = todo[u] /\ at'[u] = at[u]
  BY <1>6, <1>9, <1>11 DEF SpawnOutcome, LifecycleThread
<1> HIDE DEF program
<1>13. ASSUME NEW h \in 1..MaxGen PROVE LifecyclePhase(h)'
  <2>1. CASE h = g
    <3>1. \/ state' = "STARTING" /\ \E rest \in LifecycleRest : work = Delay2(rest)
          \/ state' = "STARTED" /\ work = Limit3
      BY <1>1, <1>8, <1>10
    <3> QED BY <1>12, <2>1, <3>1 DEF LifecyclePhase
  <2>2. CASE h # g
    <3>1. LifecycleThread(h) \in Thread /\ LifecycleThread(h) # c
          /\ LifecycleThread(h) # LifecycleThread(g)
      BY <2>2, Roles
    <3>2. todo'[LifecycleThread(h)] = <<>>
      BY <1>5, <1>12, <3>1 DEF LifecycleIdle
    <3> QED BY <3>2 DEF LifecyclePhase
  <2> QED BY <2>1, <2>2
<1>14. \A d \in ClientThreads : ClientPhase(d)'
  BY <1>12 DEF SingleClient, ClientPhase
<1>15. LifecycleWithinReach'
  <2> SUFFICES ASSUME NEW h \in 1..MaxGen, h # g
               PROVE  at'[LifecycleThread(h)] = "idle"
    BY <1>12 DEF LifecycleWithinReach
  <2>1. LifecycleThread(h) \in Thread /\ LifecycleThread(h) # c
        /\ LifecycleThread(h) # LifecycleThread(g)
    BY Roles
  <2> QED BY <1>7, <1>12, <2>1
<1>16. LifecycleJoins'
  <2> SUFFICES ASSUME NEW t \in Thread, NEW h \in 1..MaxGen, target'[t] = LifecycleThread(h)
               PROVE  FALSE
    BY DEF LifecycleJoins
  <2>1. t \in ClientThreads /\ target[t] = LifecycleThread(h)
    BY <1>12 DEF SessionInv, LifecycleJoins
  <2>2. t = c
    BY <2>1 DEF SingleClient
  <2>3. target[c] = Nobody
    BY <1>1, ArmsFresh
  <2> QED BY <2>1, <2>2, <2>3, Roles
<1> QED BY <1>13, <1>14, <1>15, <1>16 DEF SessionInv

\* A join of the lifecycle thread ends when that thread has returned, and then
\* none is left.
LEMMA ClientTakesMutex ==
    ASSUME SingleClient, Types, OneClientInv, NEW c \in ClientThreads, TakeMutex(c)
    PROVE  SessionInv'
<1> USE DEF OneClientInv
<1>1. /\ todo' = todo /\ target'[c] = Nobody /\ at'[c] \in {"idle", "run"}
      /\ at[c] \in {"begin", "callback", "join"}
      /\ \A u \in Thread : u # c => at'[u] = at[u] /\ target'[u] = target[u]
      /\ UNCHANGED <<state, owner, handle, cancelled>> /\ c \in Thread
  BY Roles DEF TakeMutex, Types, ThreadsOK, ThreadsTypeOK, sensorVars, timerVars
<1>2. Frame(c)
  BY <1>1, Roles, SessionThreads DEF Frame
<1>3. ASSUME NEW g \in 1..MaxGen, target[c] = LifecycleThread(g)
      PROVE  at[LifecycleThread(g)] = "idle"
  BY <1>1, <1>3, Roles DEF TakeMutex, PlacesOK
<1>4. LifecycleIdle => LifecycleIdle'
  BY <1>1 DEF LifecycleIdle
<1>5. ClientPhase(c)
  BY DEF SessionInv
<1>6. ClientPhase(c)'
  <2>1. CASE \E g \in 1..MaxGen : at[c] = "join" /\ target[c] = LifecycleThread(g)
    <3>1. PICK g \in 1..MaxGen : at[c] = "join" /\ target[c] = LifecycleThread(g)
      BY <2>1
    <3>2. handle["lifecycle"] = Nobody
      BY <1>1, <3>1 DEF SessionInv, LifecycleJoins
    <3>3. LifecycleIdle
      BY <1>3, <3>2, Roles, NoneLeft
    <3>4. LifecycleIdle'
      BY <1>4, <3>3
    <3> QED BY <1>1, <1>5, <3>3, <3>4
         DEF ClientPhase, Beginning, Delaying, Activating, Limiting, Stopping, Closing
  <2>2. CASE ~\E g \in 1..MaxGen : at[c] = "join" /\ target[c] = LifecycleThread(g)
    BY <1>1, <1>4, <1>5, <2>2
       DEF ClientPhase, Beginning, Delaying, Activating, Limiting, Stopping, Closing
  <2> QED BY <2>1, <2>2
<1> QED BY <1>2, <1>3, <1>6, ClientFrame

\* close() lets the controller go when nothing is left of the session.
LEMMA ClientReleases ==
    ASSUME NEW c \in ClientThreads, ClientPhase(c), todo[c] # <<>>,
           Head(todo[c]).do = "release"
    PROVE  state = "STOPPED" /\ Tail(todo[c]) = <<>>
<1> USE OpValues DEF Parts
<1>1. CASE Beginning(c)
  <2>1. CASE \E arm \in DelayOp : todo[c] = Then(Change("STARTING"), Arm2(arm))
    BY <2>1, ArmParts, ArmOps
  <2>2. CASE \E rest \in StartRest : todo[c] = Then(Change("STARTING"), Active(rest))
    BY <2>2, RestPrograms, ActivationParts
  <2> QED BY <1>1, <2>1, <2>2 DEF Beginning
<1>2. CASE Delaying(c) \/ Limiting(c)
  <2>1. PICK arm \in DelayOp \cup LimitOp : todo[c] \in {Arm2(arm), Arm1(arm)}
    BY <1>2 DEF Delaying, Limiting
  <2>2. Head(todo[c]) \in {Cancel("lifecycle"), arm}
    BY <2>1, ArmParts, ArmOps
  <2> QED BY <2>2, ArmOps
<1>3. CASE Activating(c)
  <2>1. Head(todo[c]) \in {Change("STARTED"), Simple("update"), Cancel("window"),
                          Simple("armWindow"), Cancel("noMotion"), Simple("armNoMotion")}
    BY <1>3, RestPrograms, ActivationParts DEF Activating, Activation
  <2> QED BY <2>1
<1>4. CASE Stopping(c)
  <2>1. Head(todo[c]) \in {Invalidate("lifecycle"), Invalidate("noMotion"),
                          Cancel("window"), Change("STOPPING"), Change("STOPPED")}
    BY <1>4, StopParts DEF Stopping
  <2> QED BY <2>1
<1>5. CASE Closing(c)
  <2>1. /\ Head(Close4) = Invalidate("lifecycle") /\ Head(Close3) = Invalidate("noMotion")
        /\ Head(Close2) = Cancel("window")
    BY CloseParts
  <2>2. todo[c] = Close1
    BY <1>5, <2>1 DEF Closing
  <2> QED BY <1>5, <2>2, CloseParts DEF Closing
<1> QED BY <1>1, <1>2, <1>3, <1>4, <1>5 DEF ClientPhase

LEMMA ClientStep ==
    ASSUME SingleClient, Types, TimerInv, OneClientInv, NEW c \in ClientThreads, Step(c)
    PROVE  SessionInv'
<1> USE DEF OneClientInv, Runs
<1>1. c \in Thread /\ ClientPhase(c) /\ c \in SessionThread
  BY Roles, SessionThreads DEF SessionInv
<1>2. todo[c] # <<>> =>
         LET op == Head(todo[c])
         IN  \/ PlainOp(op)
             \/ op.do \in {"change", "armLifecycle", "release"}
             \/ op.do \in {"cancel", "invalidate"} /\ op.timer = "lifecycle"
             \/ op.do = "invalidate" /\ op.timer = "noMotion"
  BY <1>1, ClientHead
<1>3. ASSUME NEW program, MovesOnly(c, program) PROVE LifecycleIdle => LifecycleIdle'
  BY <1>3, Roles DEF MovesOnly, LifecycleIdle
<1>4. CASE \/ CancelTimer(c) /\ Head(todo[c]).timer # "lifecycle"
           \/ ArmNoMotionTimer(c) \/ ArmWindowScheduler(c) \/ UpdateActiveWindow(c)
  <2>1. todo[c] # <<>> /\ PlainOp(Head(todo[c])) /\ UNCHANGED <<state, owner>>
    BY <1>4 DEF CancelTimer, ArmNoMotionTimer, ArmWindowScheduler, UpdateActiveWindow, PlainOp,
         sensorVars
  <2>2. /\ Frame(c) /\ at[c] = "run"
        /\ \/ todo'[c] = Tail(todo[c])
           \/ todo'[c] = todo[c] /\ target'[c] = target[c]
           \/ /\ Head(todo[c]).do = "update" /\ state = "STARTED"
              /\ todo'[c] = ScheduleActiveWindow \o Tail(todo[c])
    BY <1>1, <1>4, <2>1, PlainSteps
  <2>3. LifecycleIdle => LifecycleIdle'
    BY <2>2, Roles, SessionThreads DEF Frame, LifecycleIdle
  <2>4. CASE todo'[c] = Tail(todo[c])
    <3>1. ClientPhase(c)'
      BY <1>1, <2>1, <2>3, <2>4, ClientGoesOn
    <3> QED BY <2>2, <3>1, ClientFrame, Roles DEF PlacesOK
  <2>5. CASE todo'[c] = todo[c] /\ target'[c] = target[c]
    <3>1. ClientPhase(c)'
      BY <1>1, <2>1, <2>2, <2>3, <2>5, ClientPhaseStays DEF Frame
    <3> QED BY <2>2, <2>5, <3>1, ClientFrame
  <2>6. CASE /\ Head(todo[c]).do = "update" /\ state = "STARTED"
             /\ todo'[c] = ScheduleActiveWindow \o Tail(todo[c])
    <3> USE OpValues DEF Parts
    <3>1. \E rest \in StartRest : todo[c] = Update(rest) /\ Activating(c)
      <4>1. CASE Beginning(c)
        BY <2>6, <4>1 DEF Beginning
      <4>2. CASE Delaying(c)
        BY <2>6, <4>2 DEF Delaying
      <4>3. CASE Activating(c)
        <5>1. PICK rest \in StartRest : todo[c] \in Activation(rest)
          BY <2>6, <4>3 DEF Activating
        <5>2. todo[c] = Update(rest)
          <6>1. rest \in Program
            BY RestPrograms
          <6>2. \A program \in Activation(rest) :
                   Head(program).do = "update" => program = Update(rest)
            BY <6>1, ActivationParts DEF Activation
          <6> QED BY <2>6, <5>1, <6>2
        <5> QED BY <4>3, <5>2
      <4>4. CASE Limiting(c)
        <5>1. PICK arm \in LimitOp : todo[c] \in {Arm2(arm), Arm1(arm)}
          BY <4>4 DEF Limiting
        <5>2. Head(todo[c]) \in {Cancel("lifecycle"), arm}
          BY <5>1, ArmParts, ArmOps
        <5> QED BY <2>6, <5>2, ArmOps
      <4>5. CASE Stopping(c)
        <5>1. Head(todo[c]) \in {Invalidate("lifecycle"), Invalidate("noMotion"),
                                Cancel("window"), Change("STOPPING"), Change("STOPPED")}
          BY <4>5, StopParts DEF Stopping
        <5> QED BY <2>6, <5>1
      <4>6. CASE Closing(c)
        BY <2>6, <4>6 DEF Closing
      <4> QED BY <1>1, <2>1, <4>1, <4>2, <4>3, <4>4, <4>5, <4>6 DEF ClientPhase
    <3>2. PICK rest \in StartRest : todo[c] = Update(rest) /\ Activating(c)
      BY <3>1
    <3>3. todo'[c] = Window2(rest)
      <4>1. rest \in Program
        BY RestPrograms
      <4>2. Tail(todo[c]) = Timer2(rest)
        BY <3>2, <4>1, ActivationParts
      <4> QED BY <2>6, <4>1, <4>2, ActivationUnfolds
    <3>4. ClientPhase(c)'
      BY <2>1, <2>3, <2>6, <3>2, <3>3 DEF Activating, Activation, ClientPhase
    <3> QED BY <2>2, <3>4, ClientFrame, Roles DEF PlacesOK
  <2> QED BY <2>2, <2>4, <2>5, <2>6
<1>5. CASE \/ CancelTimer(c) /\ Head(todo[c]).timer = "lifecycle"
           \/ InvalidateTimer(c) /\ Head(todo[c]).timer = "lifecycle"
  <2>1. /\ todo[c] # <<>> /\ at[c] = "run" /\ UNCHANGED <<state, owner>>
        /\ CancelThread(c, "lifecycle", Tail(todo[c]))
    BY <1>5 DEF CancelTimer, InvalidateTimer, sensorVars
  <2>2. Head(todo[c]) \in {Cancel("lifecycle"), Invalidate("lifecycle")}
    <3>1. /\ Head(todo[c]) \in Op /\ Head(todo[c]).do \in {"cancel", "invalidate"}
          /\ Head(todo[c]).timer = "lifecycle"
      BY <1>1, <1>5, RunsType DEF CancelTimer, InvalidateTimer, Types
    <3> QED BY <3>1 DEF Op, Cancel, Invalidate, SimpleNames
  <2> QED BY <2>1, <2>2, LifecycleCancels
<1>6. CASE InvalidateTimer(c) /\ Head(todo[c]).timer # "lifecycle"
  <2>1. /\ todo[c] # <<>> /\ at[c] = "run" /\ UNCHANGED <<state, owner>>
        /\ Head(todo[c]).do = "invalidate" /\ Head(todo[c]).timer = "noMotion"
        /\ CancelThread(c, "noMotion", Tail(todo[c])) /\ Head(todo[c]) \in Op
    BY <1>1, <1>2, <1>6, RunsType DEF InvalidateTimer, PlainOp, sensorVars, Types
  <2>2. Head(todo[c]) = Invalidate("noMotion") /\ "noMotion" \in Kind
    BY <2>1 DEF Op, Invalidate, Kind, SimpleNames
  <2>3. /\ MovesOnly(c, Tail(todo[c]))
        /\ target' = target \/ target'[c] = handle["noMotion"]
        /\ handle'["lifecycle"] = handle["lifecycle"]
        /\ cancelled'["lifecycle"] = cancelled["lifecycle"]
    BY <1>1, <2>1, <2>2, CancelMoves DEF Kind
  <2>4. \A g \in 1..MaxGen : handle["noMotion"] # LifecycleThread(g)
    <3>1. \A g \in 1..MaxGen : LifecycleThread(g)[1] # "noMotion" /\ LifecycleThread(g) # Nobody
      BY Roles DEF LifecycleThread
    <3> QED BY <2>2, <3>1 DEF Types, TimersTypeOK
  <2>5. Frame(c)
    BY <1>1, <2>1, <2>3, <2>4, FrameOfMove
  <2>6. ClientPhase(c)'
    BY <1>1, <1>3, <2>1, <2>2, <2>3, ClientGoesOn DEF MovesOnly
  <2> QED BY <1>1, <2>1, <2>5, <2>6, ClientFrame, Roles DEF PlacesOK
<1>7. CASE ChangeState(c)
  BY <1>7, ClientChanges
<1>8. CASE ArmLifecycleTimer(c)
  BY <1>8, ClientArms
<1>9. CASE Release(c)
  <2>1. /\ todo[c] # <<>> /\ Head(todo[c]).do = "release" /\ state' = state
        /\ UNCHANGED <<handle, cancelled>> /\ Continue(c, Tail(todo[c]))
    BY <1>9 DEF Release, timerVars
  <2>2. MovesOnly(c, Tail(todo[c])) /\ target' = target
    BY <1>1, <2>1, Moves
  <2>3. Tail(todo[c]) = <<>>
    BY <1>1, <2>1, ClientReleases
  <2>4. ClientPhase(c)'
    BY <2>2, <2>3 DEF MovesOnly, ClientPhase
  <2> QED BY <2>1, <2>2, <2>4, ClientMove
<1>10. CASE TakeMutex(c)
  BY <1>10, ClientTakesMutex
<1>11. CASE InjectLocked(c) \/ EndSessionOfTheDead(c) \/ ReturnToCallback(c)
  BY <1>2, <1>11 DEF InjectLocked, EndSessionOfTheDead, ReturnToCallback, PlainOp
<1>12. CASE RecordEvent(c) \/ \E l \in Listeners : OnEvent(c, l)
  <2>1. at[c] = "deliver"
    BY <1>12 DEF RecordEvent, OnEvent
  <2>2. todo[c] # <<>> /\ Head(todo[c]).do = "record"
    BY <1>1, <2>1 DEF Types, ThreadsOK, DeliveryIsRecorded
  <2> QED BY <1>2, <2>2 DEF PlainOp
<1> QED BY <1>4, <1>5, <1>6, <1>7, <1>8, <1>9, <1>10, <1>11, <1>12 DEF Step

-----------------------------------------------------------------------------
(* The steps of the lifecycle thread.                                       *)

\* Of two lifecycle threads at most one has work, and while it has, the client
\* is in no call, or is about to cancel or is joining the thread.
LEMMA OneLifecycleThread ==
    ASSUME SingleClient, OneClientInv, NEW g \in 1..MaxGen, todo[LifecycleThread(g)] # <<>>
    PROVE  /\ \A h \in 1..MaxGen : h # g => /\ at[LifecycleThread(h)] = "idle"
                                            /\ todo[LifecycleThread(h)] = <<>>
           /\ \A c \in ClientThreads :
                 \/ todo[c] = <<>>
                 \/ state # "STARTING" /\ todo[c] = Stop5
                 \/ /\ state # "STARTING" /\ todo[c] = Stop4
                    /\ at[c] = "join" /\ target[c] = LifecycleThread(g)
           /\ state # "STOPPED"
<1> USE DEF OneClientInv
<1>1. at[LifecycleThread(g)] # "idle"
  BY Roles DEF PlacesOK
<1>2. ASSUME NEW h \in 1..MaxGen, h # g PROVE at[LifecycleThread(h)] = "idle"
  <2>1. LifecycleThread(h) # LifecycleThread(g) /\ LifecycleThread(h) # Nobody
        /\ LifecycleThread(g) # Nobody
    BY <1>2, Roles
  <2>2. CASE handle["lifecycle"] = LifecycleThread(g)
    BY <2>1, <2>2, Roles DEF SessionInv, LifecycleWithinReach, LifecycleJoins
  <2>3. CASE \E c \in ClientThreads : target[c] = LifecycleThread(g)
    <3>1. PICK c \in ClientThreads : target[c] = LifecycleThread(g)
      BY <2>3
    <3>2. \A d \in ClientThreads : target[d] # LifecycleThread(h)
      BY <2>1, <3>1 DEF SingleClient
    <3>3. handle["lifecycle"] = Nobody
      BY <3>1, Roles DEF SessionInv, LifecycleJoins
    <3> QED BY <2>1, <3>2, <3>3 DEF SessionInv, LifecycleWithinReach
  <2> QED BY <1>1, <2>2, <2>3 DEF SessionInv, LifecycleWithinReach
<1>3. \A h \in 1..MaxGen : h # g => todo[LifecycleThread(h)] = <<>>
  BY <1>2, Roles DEF PlacesOK
<1>4. state # "STOPPED" /\ ~LifecycleIdle
  BY DEF SessionInv, LifecyclePhase, LifecycleIdle
<1>5. ASSUME NEW c \in ClientThreads
      PROVE  \/ todo[c] = <<>>
             \/ state # "STARTING" /\ todo[c] = Stop5
             \/ /\ state # "STARTING" /\ todo[c] = Stop4
                /\ at[c] = "join" /\ target[c] = LifecycleThread(g)
  <2>1. \/ todo[c] = <<>>
        \/ state # "STARTING" /\ todo[c] = Stop5
        \/ /\ state # "STARTING" /\ todo[c] = Stop4
           /\ \E h \in 1..MaxGen : at[c] = "join" /\ target[c] = LifecycleThread(h)
    BY <1>4 DEF SessionInv, ClientPhase, Beginning, Delaying, Activating, Limiting, Stopping,
         Closing
  <2>2. ASSUME NEW h \in 1..MaxGen, target[c] = LifecycleThread(h) PROVE h = g
    <3>1. handle["lifecycle"] = Nobody
      BY <2>2, Roles DEF SessionInv, LifecycleJoins
    <3>2. PICK d \in ClientThreads : target[d] = LifecycleThread(g)
      BY <1>1, <3>1, Roles DEF SessionInv, LifecycleWithinReach
    <3> QED BY <2>2, <3>2, Roles DEF SingleClient
  <2> QED BY <2>1, <2>2
<1> QED BY <1>2, <1>3, <1>4, <1>5

\* The lifecycle thread goes on with program in a phase it belongs to.
LEMMA LifecycleMove ==
    ASSUME SingleClient, Types, OneClientInv, NEW g \in 1..MaxGen,
           todo[LifecycleThread(g)] # <<>>, NEW program,
           MovesOnly(LifecycleThread(g), program), target' = target,
           UNCHANGED <<owner, handle, cancelled>>, state' = state \/ state' # "STARTING",
           LifecyclePhase(g)'
    PROVE  SessionInv'
<1> DEFINE t == LifecycleThread(g)
<1> USE DEF OneClientInv
<1>1. t \in Thread /\ at[t] # "idle"
  BY Roles DEF PlacesOK
<1>2. ASSUME NEW h \in 1..MaxGen PROVE LifecyclePhase(h)'
  <2>1. CASE h = g
    BY <2>1
  <2>2. CASE h # g
    <3>1. todo'[LifecycleThread(h)] = <<>>
      BY <2>2, OneLifecycleThread, Roles DEF MovesOnly
    <3> QED BY <3>1 DEF LifecyclePhase
  <2> QED BY <2>1, <2>2
<1>3. ASSUME NEW c \in ClientThreads PROVE ClientPhase(c)'
  <2>1. todo'[c] = todo[c] /\ at'[c] = at[c] /\ target'[c] = target[c]
    BY Roles DEF MovesOnly
  <2>2. \/ todo[c] = <<>>
        \/ state # "STARTING" /\ todo[c] = Stop5
        \/ /\ state # "STARTING" /\ todo[c] = Stop4
           /\ at[c] = "join" /\ target[c] = LifecycleThread(g)
    BY OneLifecycleThread
  <2> QED BY <2>1, <2>2 DEF ClientPhase, Stopping
<1>4. LifecycleWithinReach'
  <2>1. \A h \in 1..MaxGen : at'[LifecycleThread(h)] # "idle" => at[LifecycleThread(h)] # "idle"
    BY <1>1, Roles DEF MovesOnly
  <2> QED BY <2>1 DEF SessionInv, LifecycleWithinReach
<1>5. LifecycleJoins'
  BY DEF SessionInv, LifecycleJoins
<1> QED BY <1>2, <1>3, <1>4, <1>5 DEF SessionInv

LEMMA LifecycleStep ==
    ASSUME SingleClient, Types, TimerInv, OneClientInv, NEW g \in 1..MaxGen,
           Step(LifecycleThread(g))
    PROVE  SessionInv'
<1> DEFINE t == LifecycleThread(g)
<1> USE DEF OneClientInv, Runs
<1>1. t \in Thread /\ LifecyclePhase(g)
  BY Roles DEF SessionInv
<1>2. todo[t] # <<>> =>
         \/ PlainOp(Head(todo[t]))
         \/ Head(todo[t]).do \in {"change", "wait", "activate", "check", "autoStop"}
  BY <1>1, LifecycleHead
<1>3. CASE \/ CancelTimer(t) \/ ArmNoMotionTimer(t) \/ ArmWindowScheduler(t)
           \/ UpdateActiveWindow(t)
  <2>1. todo[t] # <<>> /\ PlainOp(Head(todo[t])) /\ state' = state
    BY <1>2, <1>3 DEF CancelTimer, ArmNoMotionTimer, ArmWindowScheduler, UpdateActiveWindow,
         PlainOp, sensorVars
  <2>2. /\ Frame(t) /\ at[t] = "run"
        /\ \/ todo'[t] = Tail(todo[t])
           \/ todo'[t] = todo[t] /\ target'[t] = target[t]
           \/ /\ Head(todo[t]).do = "update" /\ state = "STARTED"
              /\ todo'[t] = ScheduleActiveWindow \o Tail(todo[t])
    BY <1>1, <1>3, <2>1, PlainSteps
  <2>3. CASE todo'[t] = Tail(todo[t])
    <3>1. LifecyclePhase(g)'
      BY <1>1, <2>1, <2>3, LifecycleGoesOn
    <3> QED BY <2>1, <2>2, <3>1, LifecycleFrame
  <2>4. CASE todo'[t] = todo[t] /\ target'[t] = target[t]
    <3>1. LifecyclePhase(g)'
      BY <1>1, <2>1, <2>4 DEF LifecyclePhase
    <3> QED BY <2>1, <2>2, <3>1, LifecycleFrame
  <2>5. CASE /\ Head(todo[t]).do = "update" /\ state = "STARTED"
             /\ todo'[t] = ScheduleActiveWindow \o Tail(todo[t])
    <3> USE OpValues DEF Parts
    <3>1. \E rest \in LifecycleRest : todo[t] = Update(rest)
      <4>1. todo[t] \notin {Limit3, Limit2, Limit1, AutoStop4, Stop3, Stop2}
        <5>1. \A program \in {Limit3, Limit2, Limit1, AutoStop4, Stop3, Stop2} :
                 Head(program) \in {Simple("check"), Simple("wait"), Simple("autoStop"),
                                    Cancel("noMotion"), Cancel("window"), Change("STOPPING")}
          BY LifecycleParts, StopParts
        <5>2. Head(todo[t]) \notin {Simple("check"), Simple("wait"), Simple("autoStop"),
                                    Cancel("noMotion"), Cancel("window"), Change("STOPPING")}
          BY <2>5
        <5> QED BY <5>1, <5>2
      <4>2. PICK rest \in LifecycleRest : todo[t] \in Activation(rest)
        BY <1>1, <2>1, <2>5, <4>1 DEF LifecyclePhase
      <4>3. \A program \in Activation(rest) :
               Head(program).do = "update" => program = Update(rest)
        BY <4>2, RestPrograms, ActivationParts DEF Activation
      <4> QED BY <2>5, <4>2, <4>3
    <3>2. PICK rest \in LifecycleRest : todo[t] = Update(rest)
      BY <3>1
    <3>3. todo'[t] = Window2(rest)
      <4>1. rest \in Program
        BY RestPrograms
      <4>2. Tail(todo[t]) = Timer2(rest)
        BY <3>2, <4>1, ActivationParts
      <4> QED BY <2>5, <4>1, <4>2, ActivationUnfolds
    <3>4. LifecyclePhase(g)'
      BY <2>1, <2>5, <3>2, <3>3 DEF LifecyclePhase, Activation
    <3> QED BY <2>1, <2>2, <3>4, LifecycleFrame
  <2> QED BY <2>2, <2>3, <2>4, <2>5
<1>4. CASE ChangeState(t)
  <2> USE OpValues DEF Parts
  <2>1. /\ todo[t] # <<>> /\ Head(todo[t]).do = "change"
        /\ state' = Head(todo[t]).to /\ UNCHANGED <<owner, handle, cancelled>>
    BY <1>4 DEF ChangeState, timerVars
  <2>2. MovesOnly(t, Tail(todo[t])) /\ target' = target
    BY <1>1, <1>4, Moves DEF ChangeState
  <2>3. todo'[t] = Tail(todo[t])
    BY <2>2 DEF MovesOnly
  <2>4. CASE /\ state = "STARTING"
             /\ \E rest \in LifecycleRest :
                   todo[t] \in {Delay2(rest), Delay1(rest), Active(rest)}
    <3>1. PICK rest \in LifecycleRest : todo[t] \in {Delay2(rest), Delay1(rest), Active(rest)}
      BY <2>4
    <3>2. rest \in Program
      BY RestPrograms
    <3>3. Head(Delay2(rest)).do = "wait" /\ Head(Delay1(rest)).do = "activate"
      BY <3>2, LifecycleParts
    <3>4. todo[t] = Active(rest)
      BY <2>1, <3>1, <3>3
    <3>5. state' = "STARTED" /\ todo'[t] = Update(rest)
      BY <2>1, <2>3, <3>2, <3>4, ActivationParts
    <3>6. LifecyclePhase(g)'
      BY <3>5 DEF LifecyclePhase, Activation
    <3> QED BY <2>1, <2>2, <3>5, <3>6, LifecycleMove
  <2>5. CASE /\ state = "STARTED"
             /\ \E rest \in LifecycleRest : todo[t] \in Activation(rest)
    <3>1. PICK rest \in LifecycleRest : todo[t] \in Activation(rest)
      BY <2>5
    <3>2. \A program \in Activation(rest) : Head(program).do # "change"
      BY SMTT(30), <3>1, RestPrograms, ActivationParts DEF Activation
    <3> QED BY <2>1, <3>1, <3>2
  <2>6. CASE state = "STARTED"
             /\ todo[t] \in {Limit3, Limit2, Limit1, AutoStop4, Stop3, Stop2}
    <3>1. \A program \in {Limit3, Limit2, Limit1, AutoStop4, Stop3} :
             Head(program).do # "change"
      BY LifecycleParts, StopParts
    <3>2. todo[t] = Stop2
      BY <2>1, <2>6, <3>1
    <3>3. state' = "STOPPING" /\ todo'[t] = Stop1
      BY <2>1, <2>3, <3>2, StopParts
    <3>4. LifecyclePhase(g)'
      BY <3>3 DEF LifecyclePhase
    <3> QED BY <2>1, <2>2, <3>3, <3>4, LifecycleMove
  <2>7. CASE state = "STOPPING" /\ todo[t] = Stop1
    <3>1. state' = "STOPPED" /\ todo'[t] = <<>>
      BY <2>1, <2>3, <2>7, StopParts
    <3>2. LifecyclePhase(g)'
      BY <3>1 DEF LifecyclePhase
    <3> QED BY <2>1, <2>2, <3>1, <3>2, LifecycleMove
  <2> QED BY <1>1, <2>1, <2>4, <2>5, <2>6, <2>7 DEF LifecyclePhase
<1>5. CASE TakeMutex(t)
  <2>1. /\ todo' = todo /\ target'[t] = Nobody
        /\ \A u \in Thread : u # t => at'[u] = at[u] /\ target'[u] = target[u]
        /\ UNCHANGED <<state, owner, handle, cancelled>> /\ at[t] # "idle"
    BY <1>1, <1>5 DEF TakeMutex, Types, ThreadsOK, ThreadsTypeOK, sensorVars, timerVars
  <2>2. Frame(t)
    BY <2>1, Roles, SessionThreads DEF Frame
  <2>3. LifecyclePhase(g)'
    BY <1>1, <2>1 DEF LifecyclePhase
  <2> QED BY <2>1, <2>2, <2>3, LifecycleFrame
<1>6. CASE RecordEvent(t) \/ \E l \in Listeners : OnEvent(t, l)
  <2>1. at[t] = "deliver"
    BY <1>6 DEF RecordEvent, OnEvent
  <2>2. todo[t] # <<>> /\ Head(todo[t]).do = "record"
    BY <1>1, <2>1 DEF Types, ThreadsOK, DeliveryIsRecorded
  <2> QED BY <1>2, <2>2 DEF PlainOp
<1>7. CASE InvalidateTimer(t) \/ ArmLifecycleTimer(t) \/ InjectLocked(t)
           \/ EndSessionOfTheDead(t) \/ Release(t) \/ ReturnToCallback(t)
  BY <1>2, <1>7 DEF InvalidateTimer, ArmLifecycleTimer, InjectLocked, EndSessionOfTheDead,
       Release, ReturnToCallback, PlainOp
<1> QED BY <1>3, <1>4, <1>5, <1>6, <1>7 DEF Step

LEMMA LifecycleTimerStep ==
    ASSUME SingleClient, Types, OneClientInv, NEW g \in 1..MaxGen,
           TimerStep("lifecycle", g)
    PROVE  SessionInv'
<1> DEFINE t == LifecycleThread(g)
<1> USE DEF OneClientInv, Runs
<1>1. t \in Thread /\ LifecyclePhase(g) /\ <<"lifecycle", g>> = t
  BY Roles DEF SessionInv, LifecycleThread
<1>2. todo[t] # <<>> =>
         \/ PlainOp(Head(todo[t]))
         \/ Head(todo[t]).do \in {"change", "wait", "activate", "check", "autoStop"}
  BY <1>1, LifecycleHead
<1>3. UNCHANGED <<state, owner, handle, cancelled, target>>
  BY DEF TimerStep, BeginWait, WaitCancelled, WaitTimesOut, ActivateAfterDelay,
       CheckBeforeWait, AutoStop, NoMotionExpires, BoundaryReached, Continue, sensorVars,
       timerVars
<1> HIDE DEF t
<1>4. ASSUME NEW program, todo[t] # <<>>,
             Continue(t, program) \/ (Leave(t, "wait", program) /\ target' = target),
             todo'[t] = program => LifecyclePhase(g)'
      PROVE  SessionInv'
  <2>1. MovesOnly(t, program) /\ LifecyclePhase(g)'
    BY <1>1, <1>4, Moves DEF MovesOnly
  <2> QED BY <1>3, <1>4, <2>1, LifecycleMove DEF t
<1>5. todo'[t] = <<>> => LifecyclePhase(g)'
  BY DEF LifecyclePhase, t
<1>6. CASE BeginWait("lifecycle", g)
  <2>1. todo[t] # <<>> /\ Head(todo[t]).do = "wait" /\ Leave(t, "wait", Tail(todo[t]))
    BY <1>1, <1>6 DEF BeginWait
  <2>2. todo'[t] = Tail(todo[t]) => LifecyclePhase(g)'
    BY <1>1, <1>3, <2>1, LifecycleGoesOn DEF t
  <2> QED BY <1>3, <1>4, <2>1, <2>2
<1>7. CASE WaitCancelled("lifecycle", g) \/ WaitTimesOut("lifecycle", g)
  <2>1. /\ \A u \in Thread : u # t => at'[u] = at[u] /\ todo'[u] = todo[u]
        /\ at[t] = "wait" /\ todo'[t] \in {<<>>, todo[t]}
    BY <1>1, <1>7 DEF WaitCancelled, WaitTimesOut, Types, ThreadsOK, ThreadsTypeOK
  <2>2. Frame(t)
    BY <1>3, <2>1, SessionThreads DEF Frame
  <2>3. LifecyclePhase(g)'
    BY <1>1, <1>3, <1>5, <2>1 DEF LifecyclePhase, t
  <2> QED BY <1>3, <2>1, <2>2, <2>3, LifecycleFrame DEF t
<1>8. CASE ActivateAfterDelay("lifecycle", g)
  <2> USE OpValues DEF Parts
  <2>1. /\ todo[t] # <<>> /\ Head(todo[t]).do = "activate"
        /\ Continue(t, IF Superseded(g) THEN <<>>
                       ELSE IF state = "STARTING" THEN Activate \o Tail(todo[t])
                       ELSE Tail(todo[t]))
    BY <1>1, <1>8 DEF ActivateAfterDelay
  <2>2. \E rest \in LifecycleRest : state = "STARTING" /\ todo[t] = Delay1(rest)
    <3>1. CASE state = "STARTING" /\ \E rest \in LifecycleRest :
                 todo[t] \in {Delay2(rest), Delay1(rest), Active(rest)}
      <4>1. PICK rest \in LifecycleRest : todo[t] \in {Delay2(rest), Delay1(rest), Active(rest)}
        BY <3>1
      <4>2. Head(Delay2(rest)).do = "wait" /\ Head(Active(rest)).do = "change"
        BY RestPrograms, LifecycleParts, ActivationParts
      <4> QED BY <2>1, <3>1, <4>1, <4>2
    <3>2. CASE \E rest \in LifecycleRest : todo[t] \in Activation(rest)
      <4>1. Head(todo[t]) \in {Simple("update"), Cancel("window"), Simple("armWindow"),
                              Cancel("noMotion"), Simple("armNoMotion")}
        BY <3>2, RestPrograms, ActivationParts DEF Activation
      <4> QED BY <2>1, <4>1
    <3>3. CASE todo[t] \in {Limit3, Limit2, Limit1, AutoStop4, Stop3, Stop2, Stop1}
      <4>1. Head(todo[t]) \in {Simple("check"), Simple("wait"), Simple("autoStop"),
                              Cancel("noMotion"), Cancel("window"), Change("STOPPING"),
                              Change("STOPPED")}
        BY <3>3, LifecycleParts, StopParts
      <4> QED BY <2>1, <4>1
    <3> QED BY <1>1, <2>1, <3>1, <3>2, <3>3 DEF LifecyclePhase, t
  <2>3. PICK rest \in LifecycleRest : state = "STARTING" /\ todo[t] = Delay1(rest)
    BY <2>2
  <2>4. Activate \o Tail(todo[t]) = Active(rest)
    <3>1. rest \in Program
      BY RestPrograms
    <3>2. Tail(todo[t]) = rest
      BY <2>3, <3>1, LifecycleParts
    <3> QED BY <3>1, <3>2, ActivationUnfolds
  <2>5. Continue(t, <<>>) \/ Continue(t, Active(rest))
    BY <2>1, <2>3, <2>4
  <2>6. todo'[t] = Active(rest) => LifecyclePhase(g)'
    BY <1>3, <2>3 DEF LifecyclePhase, t
  <2> QED BY <1>4, <1>5, <2>1, <2>5, <2>6
<1>9. CASE CheckBeforeWait("lifecycle", g)
  <2>1. /\ todo[t] # <<>> /\ Head(todo[t]).do = "check"
        /\ Continue(t, <<>>) \/ Continue(t, Tail(todo[t]))
    BY <1>1, <1>9 DEF CheckBeforeWait
  <2>2. todo'[t] = Tail(todo[t]) => LifecyclePhase(g)'
    BY <1>1, <1>3, <2>1, LifecycleGoesOn DEF t
  <2> QED BY <1>4, <1>5, <2>1, <2>2
<1>10. CASE AutoStop("lifecycle", g)
  <2>1. /\ todo[t] # <<>>
        /\ Continue(t, IF Superseded(g) \/ state # "STARTED" THEN <<>>
                       ELSE <<Cancel("noMotion"), Cancel("window")>> \o GoDown)
    BY <1>1, <1>10 DEF AutoStop
  <2>2. Continue(t, <<>>) \/ (state = "STARTED" /\ Continue(t, AutoStop4))
    BY <2>1, StopUnfolds
  <2>3. state = "STARTED" /\ todo'[t] = AutoStop4 => LifecyclePhase(g)'
    BY <1>3 DEF LifecyclePhase, t
  <2> QED BY <1>4, <1>5, <2>1, <2>2, <2>3
<1>11. CASE NoMotionExpires("lifecycle", g) \/ BoundaryReached("lifecycle", g)
  <2>1. todo[t] # <<>> /\ Head(todo[t]).do \in {"expire", "boundary"}
    BY <1>1, <1>11 DEF NoMotionExpires, BoundaryReached
  <2> QED BY <1>2, <2>1 DEF PlainOp
<1> QED BY <1>6, <1>7, <1>8, <1>9, <1>10, <1>11 DEF TimerStep

-----------------------------------------------------------------------------
(* The calls, and the invariant.                                            *)

LEMMA CallSession ==
    ASSUME SingleClient, Types, OneClientInv, ClientCall
    PROVE  SessionInv'
<1> USE DEF OneClientInv
<1>1. ASSUME UNCHANGED <<at, todo, target, handle, cancelled, state>>,
             owner' = owner \/ owner' # 0
      PROVE  SessionInv'
  <2>1. ASSUME NEW g \in 1..MaxGen PROVE LifecyclePhase(g)'
    BY <1>1 DEF LifecyclePhase, SessionInv
  <2>2. ASSUME NEW c \in ClientThreads PROVE ClientPhase(c)'
    <3>1. ClientPhase(c) /\ (LifecycleIdle => LifecycleIdle')
      BY <1>1 DEF SessionInv, LifecycleIdle
    <3> QED BY <1>1, <3>1, ClientPhaseStays
  <2>3. LifecycleWithinReach' /\ LifecycleJoins'
    BY <1>1 DEF SessionInv, LifecycleWithinReach, LifecycleJoins
  <2> QED BY <2>1, <2>2, <2>3 DEF SessionInv
<1>2. ASSUME NEW t \in Thread, Open(t) \/ SetActiveWindows(t) PROVE SessionInv'
  <2>1. UNCHANGED <<at, todo, target, handle, cancelled>>
    BY <1>2, CallMoves DEF timerVars
  <2>2. state' = state /\ (owner' = owner \/ owner' = opens + 1) /\ opens \in Nat
    BY <1>2 DEF Open, SetActiveWindows, Types, WorldTypeOK
  <2>3. owner' = owner \/ owner' # 0
    BY <2>2
  <2> QED BY <1>1, <2>1, <2>2, <2>3
<1>3. ASSUME NEW t \in Thread, NEW cfg \in Configs, Start(t, cfg) PROVE SessionInv'
  <2>1. PICK program : program = StartProgram(cfg, gen["lifecycle"] + 1)
    OBVIOUS
  <2>2. /\ t \in ClientThreads /\ MovesOnly(t, program)
        /\ target' = target /\ UNCHANGED <<handle, cancelled>>
    BY <1>3, <2>1, CallMoves
  <2>3. state = "STOPPED" /\ owner # 0 /\ UNCHANGED <<state, owner>>
    BY <1>3 DEF Start
  <2>4. PICK g \in 1..MaxGen : g = gen["lifecycle"] + 1
    BY <1>3, Bounds DEF Start, Types, TimersTypeOK, Kind
  <2>5. \/ \E arm \in DelayOp : program = Then(Change("STARTING"), Arm2(arm))
        \/ \E rest \in StartRest : program = Then(Change("STARTING"), Active(rest))
    BY <2>1, <2>4, StartUnfolds, ConfigAssumption
  <2>6. ClientPhase(t)'
    BY <2>2, <2>3, <2>5 DEF ClientPhase, Beginning, MovesOnly
  <2> QED BY <2>2, <2>3, <2>6, ClientMove
<1>4. ASSUME NEW t \in Thread, Stop(t) PROVE SessionInv'
  <2>1. /\ t \in ClientThreads /\ MovesOnly(t, Stop5)
        /\ target' = target /\ UNCHANGED <<handle, cancelled>>
    BY <1>4, CallMoves, StopUnfolds DEF timerVars
  <2>2. state = "STARTED" /\ state' = state
    BY <1>4 DEF Stop, sensorVars
  <2>3. ClientPhase(t)'
    BY <2>1, <2>2 DEF ClientPhase, Stopping, MovesOnly
  <2> QED BY <2>1, <2>2, <2>3, ClientMove
<1>5. ASSUME NEW t \in Thread, Close(t) PROVE SessionInv'
  <2>1. /\ t \in ClientThreads /\ MovesOnly(t, Close4)
        /\ target' = target /\ UNCHANGED <<handle, cancelled>>
    BY <1>5, CallMoves, StopUnfolds DEF timerVars
  <2>2. state = "STOPPED" /\ state' = state
    BY <1>5 DEF Close, sensorVars
  <2>3. ClientPhase(t)'
    BY <2>1, <2>2 DEF ClientPhase, Closing, MovesOnly
  <2> QED BY <2>1, <2>2, <2>3, ClientMove
<1>6. ASSUME NEW l \in Listeners, RegisterEventListener(l) \/ UnregisterEventListener(l)
      PROVE SessionInv'
  <2>1. UNCHANGED <<at, todo, target, handle, cancelled, state, owner>>
    BY <1>6, ListenerCalls DEF timerVars
  <2> QED BY <1>1, <2>1
<1>7. ASSUME NEW t \in InjectThreads, InjectMotionEvent(t) PROVE SessionInv'
  <2>1. t \in Thread /\ t \notin SessionThread
    BY Roles, SessionThreads
  <2>2. PICK program : MovesOnly(t, program)
    BY <1>7, <2>1, CallMoves
  <2>3. target' = target /\ UNCHANGED <<handle, cancelled, state, owner>>
    BY <1>7 DEF InjectMotionEvent, timerVars, sensorVars
  <2>4. Frame(t)
    BY <2>1, <2>2, <2>3, FrameOfMove
  <2> QED BY <2>1, <2>4, OtherFrame
<1> QED BY <1>2, <1>3, <1>4, <1>5, <1>6, <1>7 DEF ClientCall

LEMMA InitOneClient ==
    ASSUME SingleClient, Init
    PROVE  OneClientInv
<1>1. /\ \A t \in Thread : at[t] = "idle" /\ todo[t] = <<>> /\ target[t] = Nobody
      /\ \A k \in Kind, g \in 1..MaxGen : <<k, g>> \in Thread
  BY TimerThreadsAreThreads DEF Init
<1>2. SessionInv
  BY <1>1, Roles DEF SessionInv, LifecyclePhase, ClientPhase, LifecycleWithinReach,
       LifecycleJoins
<1>3. OtherPrograms
  <2>1. \A t \in Thread : OtherProgram(t, todo[t])
    BY <1>1, OtherProgramsHere
  <2> QED BY <2>1, OtherProgramsPointwise
<1>4. PlacesOK
  BY <1>1 DEF PlacesOK
<1> QED BY <1>2, <1>3, <1>4 DEF OneClientInv

LEMMA NextOneClient ==
    ASSUME SingleClient, Types, TimerInv, OneClientInv, [Next]_vars
    PROVE  OneClientInv'
<1>1. CASE ClientCall
  BY <1>1, CallSession, CallOther, CallPlaces DEF OneClientInv
<1>2. CASE ClientDies \/ DeathNotice
  BY <1>2 DEF ClientDies, DeathNotice, SingleClient
<1>3. ASSUME NEW t \in Thread, Step(t) PROVE OneClientInv'
  <2>1. SessionInv'
    <3>1. CASE t \in ClientThreads
      BY <1>3, <3>1, ClientStep
    <3>2. CASE \E g \in 1..MaxGen : t = LifecycleThread(g)
      BY <1>3, <3>2, LifecycleStep
    <3>3. CASE t \notin SessionThread
      BY <1>3, <3>3, OtherStep
    <3> QED BY <3>1, <3>2, <3>3 DEF SessionThread
  <2> QED BY <1>3, <2>1, StepOther, StepPlaces DEF OneClientInv
<1>4. ASSUME NEW k \in Kind, NEW g \in 1..MaxGen, TimerStep(k, g) PROVE OneClientInv'
  <2>1. SessionInv'
    <3>1. CASE k = "lifecycle"
      BY <1>4, <3>1, LifecycleTimerStep
    <3>2. CASE k # "lifecycle"
      BY <1>4, <3>2, OtherTimerStep DEF GenerationKind
    <3> QED BY <3>1, <3>2
  <2> QED BY <1>4, <2>1, TimerStepOther, TimerStepPlaces DEF OneClientInv
<1>5. CASE Rest \/ UNCHANGED vars
  <2>1. UNCHANGED <<at, todo, target, handle, cancelled, state, owner>>
    BY <1>5 DEF Rest, vars, threadVars, timerVars, sensorVars
  <2>2. SessionInv'
    BY <2>1 DEF OneClientInv, SessionInv, LifecyclePhase, ClientPhase, Beginning, Delaying,
         Activating, Limiting, Stopping, Closing, LifecycleIdle, LifecycleWithinReach,
         LifecycleJoins
  <2>3. OtherPrograms' /\ PlacesOK'
    BY <2>1 DEF OneClientInv, OtherPrograms, PlacesOK
  <2> QED BY <2>2, <2>3 DEF OneClientInv
<1> QED BY <1>1, <1>2, <1>3, <1>4, <1>5 DEF Next

\* The client and the lifecycle thread move through their programs in step
\* with the state, in every interleaving of one client's calls with the timer
\* threads, the callbacks and injected motion.
THEOREM OneClientInvariant == SingleClient => (Spec => []OneClientInv)
<1> SUFFICES ASSUME SingleClient PROVE Spec => []OneClientInv
  OBVIOUS
<1>1. Init => OneClientInv
  BY InitOneClient
<1>2. Types /\ TimerInv /\ OneClientInv /\ [Next]_vars => OneClientInv'
  BY NextOneClient
<1> QED BY <1>1, <1>2, TypesInvariant, TimerInvariant, PTL DEF Spec

\* When nobody owns the sensor it is stopped, and the client is in no call.
FreeMeansOver ==
    owner = 0 => state = "STOPPED" /\ \A c \in ClientThreads : todo[c] = <<>>

LEMMA NextFreeMeansOver ==
    ASSUME SingleClient, Types, OneClientInv, FreeMeansOver, [Next]_vars
    PROVE  FreeMeansOver'
<1> USE DEF OneClientInv
<1>1. ASSUME NEW t \in Thread, ChangeState(t) PROVE owner # 0
  <2>1. todo[t] # <<>> /\ Head(todo[t]).do = "change"
    BY <1>1 DEF ChangeState, Runs
  <2>2. t \in SessionThread
    <3>1. \A op \in NoMotionOp \cup WindowOp \cup InjectOp : op.do # "change"
      BY OpValues DEF NoMotionOp, WindowOp, InjectOp
    <3> QED BY <2>1, <3>1, OtherHead
  <2>3. CASE t \in ClientThreads
    BY <2>1, <2>3 DEF FreeMeansOver
  <2>4. CASE \E g \in 1..MaxGen : t = LifecycleThread(g)
    BY <2>1, <2>4, OneLifecycleThread DEF FreeMeansOver
  <2> QED BY <2>2, <2>3, <2>4 DEF SessionThread
<1>2. ASSUME NEW t \in Thread, Release(t) PROVE FreeMeansOver'
  <2>1. todo[t] # <<>> /\ Head(todo[t]).do = "release" /\ Continue(t, Tail(todo[t]))
        /\ state' = state
    BY <1>2 DEF Release, Runs
  <2>2. t \in SessionThread
    <3>1. \A op \in NoMotionOp \cup WindowOp \cup InjectOp : op.do # "release"
      BY OpValues DEF NoMotionOp, WindowOp, InjectOp
    <3> QED BY <2>1, <3>1, OtherHead
  <2>3. CASE t \in ClientThreads
    <3>1. state = "STOPPED" /\ Tail(todo[t]) = <<>>
      BY <2>1, <2>3, ClientReleases DEF SessionInv
    <3>2. todo'[t] = <<>>
      BY <2>1, <3>1, Moves DEF MovesOnly
    <3> QED BY <2>1, <2>3, <3>1, <3>2 DEF FreeMeansOver, SingleClient
  <2>4. CASE \E g \in 1..MaxGen : t = LifecycleThread(g)
    BY <2>1, <2>4, LifecycleHead DEF SessionInv, PlainOp
  <2> QED BY <2>2, <2>3, <2>4 DEF SessionThread
<1>3. ASSUME UNCHANGED <<state, owner>>,
             \A c \in ClientThreads : todo[c] = <<>> => todo'[c] = <<>>
      PROVE  FreeMeansOver'
  BY <1>3 DEF FreeMeansOver
<1>4. ASSUME NEW t \in Thread, Step(t), ~Release(t) PROVE FreeMeansOver'
  <2>1. owner' = owner
    BY <1>4 DEF Step, ChangeState, CancelTimer, InvalidateTimer, ArmLifecycleTimer,
         ArmNoMotionTimer, ArmWindowScheduler, UpdateActiveWindow, InjectLocked,
         EndSessionOfTheDead, ReturnToCallback, TakeMutex, RecordEvent, OnEvent, sensorVars
  <2>2. CASE owner # 0
    BY <2>1, <2>2 DEF FreeMeansOver
  <2>3. CASE owner = 0
    <3>1. state' = state
      BY <1>1, <1>4, <2>3 DEF Step, CancelTimer, InvalidateTimer, ArmLifecycleTimer,
           ArmNoMotionTimer, ArmWindowScheduler, UpdateActiveWindow, InjectLocked,
           EndSessionOfTheDead, ReturnToCallback, TakeMutex, RecordEvent, OnEvent, sensorVars
    <3>2. ASSUME NEW c \in ClientThreads PROVE todo'[c] = <<>>
      <4>1. todo[c] = <<>> /\ c \in Thread
        BY <2>3, Roles DEF FreeMeansOver
      <4>2. CASE t = c
        BY <1>4, <4>1, <4>2 DEF Step, Runs, ChangeState, CancelTimer, InvalidateTimer,
             ArmLifecycleTimer, ArmNoMotionTimer, ArmWindowScheduler, UpdateActiveWindow,
             InjectLocked, EndSessionOfTheDead, ReturnToCallback, TakeMutex, RecordEvent,
             OnEvent, Types, ThreadsOK, ThreadsTypeOK
      <4>3. CASE t # c
        BY <1>4, <4>1, <4>3, StepLeavesPool DEF PoolThreads
      <4> QED BY <4>2, <4>3
    <3> QED BY <1>3, <2>1, <3>1, <3>2
  <2> QED BY <2>2, <2>3
<1>5. CASE ClientCall
  <2>1. ASSUME NEW t \in Thread, Open(t) PROVE FreeMeansOver'
    BY <2>1 DEF Open, Types, WorldTypeOK, FreeMeansOver
  <2>2. ASSUME owner # 0, owner' = owner PROVE FreeMeansOver'
    BY <2>2 DEF FreeMeansOver
  <2>3. ASSUME NEW t \in Thread, Stop(t) \/ Close(t) \/ SetActiveWindows(t) PROVE FreeMeansOver'
    BY <2>2, <2>3 DEF Stop, Close, SetActiveWindows, sensorVars
  <2>4. ASSUME NEW t \in Thread, NEW cfg \in Configs, Start(t, cfg) PROVE FreeMeansOver'
    BY <2>2, <2>4 DEF Start
  <2>5. ASSUME NEW l \in Listeners, RegisterEventListener(l) \/ UnregisterEventListener(l)
        PROVE  FreeMeansOver'
    BY <1>3, <2>5, ListenerCalls
  <2>6. ASSUME NEW t \in InjectThreads, InjectMotionEvent(t) PROVE FreeMeansOver'
    <3>1. UNCHANGED <<state, owner>> /\ t \in Thread
      BY <2>6, Roles DEF InjectMotionEvent, sensorVars
    <3>2. \A c \in ClientThreads : todo'[c] = todo[c]
      BY <2>6, <3>1, CallMoves, Roles DEF MovesOnly
    <3> QED BY <1>3, <3>1, <3>2
  <2> QED BY <1>5, <2>1, <2>3, <2>4, <2>5, <2>6 DEF ClientCall
<1>6. CASE ClientDies \/ DeathNotice
  BY <1>6 DEF ClientDies, DeathNotice, SingleClient
<1>7. ASSUME NEW k \in Kind, NEW g \in 1..MaxGen, TimerStep(k, g) PROVE FreeMeansOver'
  <2>1. UNCHANGED <<state, owner>>
    BY <1>7 DEF TimerStep, BeginWait, WaitCancelled, WaitTimesOut, ActivateAfterDelay,
         CheckBeforeWait, AutoStop, NoMotionExpires, BoundaryReached, sensorVars
  <2>2. \A c \in ClientThreads : todo'[c] = todo[c]
    BY <1>7, Roles, TimerStepLeavesPool DEF PoolThreads
  <2> QED BY <1>3, <2>1, <2>2
<1>8. CASE Rest \/ UNCHANGED vars
  <2>1. UNCHANGED <<state, owner, todo>>
    BY <1>8 DEF Rest, vars, threadVars, sensorVars
  <2> QED BY <1>3, <2>1
<1> QED BY <1>2, <1>4, <1>5, <1>6, <1>7, <1>8 DEF Next

\* A sensor without an owner is stopped and its client is in no call: close()
\* checks the state before its joins and gives the owner up after them, and
\* nothing in between starts the sensor.
THEOREM FreeSensorsAreOver == SingleClient => (Spec => []FreeMeansOver)
<1> SUFFICES ASSUME SingleClient PROVE Spec => []FreeMeansOver
  OBVIOUS
<1>1. Init => FreeMeansOver
  BY Roles DEF Init, FreeMeansOver
<1>2. Types /\ OneClientInv /\ FreeMeansOver /\ [Next]_vars => FreeMeansOver'
  BY NextFreeMeansOver
<1> QED BY <1>1, <1>2, TypesInvariant, OneClientInvariant, PTL DEF Spec

\* A session that is starting or started has an owner who can stop it: close()
\* lets the controller go only when no activation can follow.
THEOREM SessionsHaveOwners == SingleClient => (Spec => []SessionHasOwner)
<1> SUFFICES ASSUME SingleClient PROVE Spec => []SessionHasOwner
  OBVIOUS
<1>1. FreeMeansOver => SessionHasOwner
  BY DEF FreeMeansOver, SessionHasOwner
<1> QED BY <1>1, FreeSensorsAreOver, PTL

\* The join of the lifecycle thread in startLifecycleTimerLocked and in
\* invalidateLifecycleTimersLocked never waits for the rest of a delay: the
\* flag, which alone ends that wait, is not cleared before the join ends.
THEOREM LifecycleJoinsArePrompt == SingleClient => (Spec => []PromptLifecycleJoin)
<1> SUFFICES ASSUME SingleClient PROVE Spec => []PromptLifecycleJoin
  OBVIOUS
<1>1. OneClientInv => PromptLifecycleJoin
  BY DEF OneClientInv, SessionInv, LifecycleJoins, PromptLifecycleJoin, PromptJoinOf, WaitOver,
       LifecycleThread
<1> QED BY <1>1, OneClientInvariant, PTL

=============================================================================
