------------------------ MODULE SessionEventsProofs ------------------------
(***************************************************************************)
(* Theorems about the events of a session.  Inactivity events: none is     *)
(* delivered once the session goes down, and none is recorded in a later   *)
(* one.  There, as in OneClientProofs, the client makes one call at a time *)
(* and no motion is injected: in NO_MOTION mode it restarts the inactivity *)
(* timer from a thread that stop() knows nothing of (run                   *)
(* inject_restarts_timer).  The last part is about all events, injected    *)
(* ones included, and about any number of clients.                         *)
(***************************************************************************)
EXTENDS OneClientProofs

\* No motion is injected while the client makes its calls.
NoInjection == InjectThreads = {}

NoMotionThread(g) == <<"noMotion", g>>

-----------------------------------------------------------------------------
(* The programs of the session, and where they touch the inactivity timer.  *)

\* what follows an activation
ActiveRest == StartRest \cup LifecycleRest

\* What a thread of the session may have left to do.
SessionProgram(program) ==
    \/ program = <<>>
    \/ program \in {Stop1, Stop2, Stop3, Stop4, Stop5, AutoStop4}
    \/ program \in {Close1, Close2, Close3, Close4}
    \/ program \in {Limit1, Limit2, Limit3}
    \/ \E arm \in DelayOp \cup LimitOp :
          program \in {Then(Change("STARTING"), Arm2(arm)), Arm2(arm), Arm1(arm)}
    \/ \E rest \in ActiveRest :
          \/ program \in {Then(Change("STARTING"), Active(rest)), Active(rest)}
          \/ program \in Activation(rest)
          \/ program \in {Delay1(rest), Delay2(rest)}

LEMMA SessionPrograms ==
    ASSUME SessionInv, NEW t \in SessionThread
    PROVE  SessionProgram(todo[t])
<1>1. CASE t \in ClientThreads
  <2>1. ClientPhase(t)
    BY <1>1 DEF SessionInv
  <2> QED BY <2>1 DEF ClientPhase, SessionProgram, Beginning, Delaying, Activating, Limiting,
       Stopping, Closing, ActiveRest
<1>2. ASSUME NEW g \in 1..MaxGen, t = LifecycleThread(g) PROVE SessionProgram(todo[t])
  <2>1. LifecyclePhase(g)
    BY DEF SessionInv
  <2> QED BY <1>2, <2>1 DEF LifecyclePhase, SessionProgram, ActiveRest
<1> QED BY <1>1, <1>2 DEF SessionThread

\* What a thread has left while it joins an inactivity timer.
JoinsNoMotion(program) ==
    program \in {Stop3, Close2} \/ \E rest \in ActiveRest : program = Timer1(rest)

\* What is left of an automatic stop, or of stop(), once it has cancelled the
\* inactivity timer.
Winding(program) == program \in {Stop3, Stop2}

LEMMA RestHeads ==
    /\ ActiveRest \subseteq Program
    /\ \A rest \in ActiveRest : ~Winding(rest)
<1> USE OpValues DEF Parts
<1>1. Head(Stop3) = Cancel("window") /\ Head(Stop2) = Change("STOPPING")
      /\ Stop3 # <<>> /\ Stop2 # <<>>
  BY StopParts
<1>2. ~Winding(<<>>) /\ ~Winding(Limit2)
  BY <1>1, LifecycleParts DEF Winding
<1>3. \A arm \in LimitOp : ~Winding(Arm2(arm))
  <2>1. \A arm \in LimitOp : Head(Arm2(arm)) = Cancel("lifecycle")
    BY ArmParts, ArmOps
  <2>2. Cancel("lifecycle") # Cancel("window") /\ Cancel("lifecycle") # Change("STOPPING")
    BY DEF Cancel, Change
  <2> QED BY <1>1, <2>1, <2>2 DEF Winding
<1>4. ActiveRest \subseteq Program
  BY RestPrograms DEF ActiveRest
<1> QED BY <1>2, <1>3, <1>4 DEF ActiveRest, StartRest, LifecycleRest

\* The programs that are not what is left of a stop.
LEMMA NotWinding ==
    /\ ~Winding(<<>>) /\ ~Winding(Stop1) /\ ~Winding(Stop4) /\ ~Winding(Stop5)
    /\ ~Winding(AutoStop4)
    /\ ~Winding(Close1) /\ ~Winding(Close2) /\ ~Winding(Close3) /\ ~Winding(Close4)
    /\ ~Winding(Limit1) /\ ~Winding(Limit2) /\ ~Winding(Limit3)
    /\ \A arm \in DelayOp \cup LimitOp :
          /\ ~Winding(Arm1(arm)) /\ ~Winding(Arm2(arm))
          /\ ~Winding(Then(Change("STARTING"), Arm2(arm)))
    /\ \A rest \in ActiveRest :
          /\ ~Winding(rest) /\ ~Winding(Active(rest)) /\ ~Winding(Update(rest))
          /\ ~Winding(Window2(rest)) /\ ~Winding(Window1(rest))
          /\ ~Winding(Timer2(rest)) /\ ~Winding(Timer1(rest))
          /\ ~Winding(Delay1(rest)) /\ ~Winding(Delay2(rest))
          /\ ~Winding(Then(Change("STARTING"), Active(rest)))
<1> USE OpValues DEF Parts
<1>1. /\ Head(Stop3) = Cancel("window") /\ Head(Stop2) = Change("STOPPING")
      /\ Head(Tail(Stop3)) = Change("STOPPING")
      /\ Stop3 # <<>> /\ Stop2 # <<>>
  BY StopParts
<1>2. ASSUME NEW program, program # <<>>, Head(program) # Cancel("window"),
             Head(program) # Change("STOPPING")
      PROVE  ~Winding(program)
  BY <1>1, <1>2 DEF Winding
<1>3. ASSUME NEW program, program # <<>>, Head(program) = Cancel("window"),
             Head(Tail(program)).do # "change"
      PROVE  ~Winding(program)
  <2>1. Change("STOPPING").do = "change" /\ Cancel("window").do = "cancel"
    BY OpValues
  <2>2. Head(program) # Change("STOPPING")
    BY <1>3, <2>1
  <2>3. program # Stop2
    BY <1>1, <2>2
  <2>4. program # Stop3
    BY <1>1, <1>3, <2>1
  <2> QED BY <2>3, <2>4 DEF Winding
<1>4. /\ Cancel("lifecycle") # Cancel("window") /\ Cancel("noMotion") # Cancel("window")
      /\ Change("STOPPED") # Change("STOPPING") /\ Change("STARTING") # Change("STOPPING")
      /\ Change("STARTED") # Change("STOPPING")
      /\ \A op : op.do \notin {"cancel", "change"} =>
            op # Cancel("window") /\ op # Change("STOPPING")
      /\ \A k : Cancel(k) # Change("STOPPING")
      /\ \A s : Change(s) # Cancel("window")
  <2>1. \A s : Change(s) = Change("STOPPING") => s = "STOPPING"
    <3>1. \A s : Change(s).to = s
      OBVIOUS
    <3> QED BY <3>1
  <2>2. \A k : Cancel(k) = Cancel("window") => k = "window"
    <3>1. \A k : Cancel(k).timer = k
      OBVIOUS
    <3> QED BY <3>1
  <2>3. \A k : Cancel(k).do = "cancel"
    OBVIOUS
  <2>4. \A s : Change(s).do = "change"
    OBVIOUS
  <2> QED BY <2>1, <2>2, <2>3, <2>4
<1>5. ~Winding(<<>>)
  BY <1>1 DEF Winding
<1>6. ~Winding(Stop1) /\ ~Winding(Stop4) /\ ~Winding(Stop5) /\ ~Winding(AutoStop4)
  BY <1>2, <1>4, StopParts
<1>7. ~Winding(Close1) /\ ~Winding(Close3) /\ ~Winding(Close4)
  BY SMTT(30), <1>2, <1>4, CloseParts
<1>8. ~Winding(Close2)
  BY SMTT(30), <1>3, CloseParts
<1>9. ~Winding(Limit1) /\ ~Winding(Limit2) /\ ~Winding(Limit3)
  BY <1>2, <1>4, LifecycleParts
<1>10. ASSUME NEW arm \in DelayOp \cup LimitOp
       PROVE  /\ ~Winding(Arm1(arm)) /\ ~Winding(Arm2(arm))
              /\ ~Winding(Then(Change("STARTING"), Arm2(arm)))
  BY <1>2, <1>4, ArmOps, ArmParts
<1>11. ASSUME NEW rest \in ActiveRest
       PROVE  /\ ~Winding(Active(rest)) /\ ~Winding(Update(rest))
              /\ ~Winding(Window2(rest)) /\ ~Winding(Window1(rest))
              /\ ~Winding(Timer2(rest)) /\ ~Winding(Timer1(rest))
              /\ ~Winding(Delay1(rest)) /\ ~Winding(Delay2(rest))
              /\ ~Winding(Then(Change("STARTING"), Active(rest)))
  <2>1. rest \in Program
    BY RestHeads
  <2>2. /\ Parts(Timer1(rest), Simple("armNoMotion"), rest)
        /\ Parts(Timer2(rest), Cancel("noMotion"), Timer1(rest))
        /\ Parts(Window1(rest), Simple("armWindow"), Timer2(rest))
        /\ Parts(Window2(rest), Cancel("window"), Window1(rest))
        /\ Parts(Update(rest), Simple("update"), Timer2(rest))
        /\ Parts(Active(rest), Change("STARTED"), Update(rest))
        /\ Parts(Then(Change("STARTING"), Active(rest)), Change("STARTING"), Active(rest))
    BY <2>1, ActivationParts
  <2>3. /\ Parts(Delay1(rest), Simple("activate"), rest)
        /\ Parts(Delay2(rest), Simple("wait"), Delay1(rest))
    BY <2>1, LifecycleParts
  <2>4. \A name \in SimpleNames : /\ Simple(name) # Cancel("window")
                                   /\ Simple(name) # Change("STOPPING")
    <3>1. \A name \in SimpleNames : Simple(name).do \notin {"cancel", "change"}
      BY OpValues DEF SimpleNames
    <3> QED BY <1>4, <3>1
  <2>5. ~Winding(Active(rest)) /\ ~Winding(Timer2(rest))
        /\ ~Winding(Then(Change("STARTING"), Active(rest)))
    BY <1>2, <1>4, <2>2
  <2>6. ~Winding(Update(rest)) /\ ~Winding(Window1(rest)) /\ ~Winding(Timer1(rest))
    BY <1>2, <2>2, <2>4 DEF SimpleNames
  <2>7. ~Winding(Window2(rest))
    <3>1. Head(Tail(Window2(rest))) = Simple("armWindow")
      BY <2>2
    <3>2. Simple("armWindow").do = "armWindow"
      BY OpValues
    <3> QED BY <1>3, <2>2, <3>1, <3>2
  <2>8. ~Winding(Delay1(rest)) /\ ~Winding(Delay2(rest))
    BY <1>2, <2>3, <2>4 DEF SimpleNames
  <2> QED BY <2>5, <2>6, <2>7, <2>8
<1> QED BY <1>5, <1>6, <1>7, <1>8, <1>9, <1>10, <1>11, RestHeads

\* The operations that cancel the inactivity timer.
CancelsNoMotion(op) == op.do \in {"cancel", "invalidate"} /\ op.timer = "noMotion"

\* What a session does about the inactivity timer.  Only a cancel of it makes
\* a thread wind up, and what follows is the cancel of the window scheduler.
NoMotionOps(program) ==
    /\ CancelsNoMotion(Head(program)) =>
          JoinsNoMotion(Tail(program)) /\ Tail(program) # Stop2
    /\ Head(program).do = "armNoMotion" =>
          \E rest \in ActiveRest : program = Timer1(rest) /\ Tail(program) = rest
    /\ Tail(program) = Stop3 => CancelsNoMotion(Head(program))
    /\ Tail(program) = Stop2 => program = Stop3
    /\ Head(program).do = "update" => ~Winding(ScheduleActiveWindow \o Tail(program))
    /\ Head(program).do = "activate" => ~Winding(Activate \o Tail(program))

\* An operation of another kind, with a program that is not winding up left.
LEMMA PlainNoMotionOps ==
    ASSUME NEW program, ~CancelsNoMotion(Head(program)),
           Head(program).do \notin {"armNoMotion", "update", "activate"},
           ~Winding(Tail(program))
    PROVE  NoMotionOps(program)
BY DEF NoMotionOps, Winding

LEMMA SessionNoMotionOps ==
    ASSUME NEW program, SessionProgram(program), program # <<>>
    PROVE  NoMotionOps(program)
<1>1. Stop3 # Stop2
  BY StopParts, OpValues DEF Parts
<1>2. CASE program \in {Stop1, Stop2, Stop5}
  <2>0. /\ Head(program) \in {Change("STOPPED"), Change("STOPPING"), Invalidate("lifecycle")}
        /\ Tail(program) \in {<<>>, Stop1, Stop4}
    BY <1>2, StopParts DEF Parts
  <2>1. /\ Head(program).do \in {"change", "invalidate"}
        /\ Head(program).do = "invalidate" => Head(program).timer = "lifecycle"
    BY <2>0, OpValues
  <2>2. ~Winding(Tail(program))
    BY <2>0, NotWinding
  <2> QED BY <2>1, <2>2, PlainNoMotionOps DEF CancelsNoMotion
<1>3. CASE program \in {Stop4, AutoStop4}
  <2>1. /\ Head(program) \in {Cancel("noMotion"), Invalidate("noMotion")}
        /\ Tail(program) = Stop3
    BY <1>3, StopParts DEF Parts
  <2>2. CancelsNoMotion(Head(program)) /\ Head(program).do \in {"cancel", "invalidate"}
    BY <2>1, OpValues DEF CancelsNoMotion
  <2> QED BY <1>1, <2>1, <2>2 DEF NoMotionOps, JoinsNoMotion
<1>4. CASE program = Stop3
  <2>1. Head(program).do = "cancel" /\ Head(program).timer = "window" /\ Tail(program) = Stop2
    BY <1>4, StopParts, OpValues DEF Parts
  <2> QED BY <1>1, <1>4, <2>1 DEF NoMotionOps, CancelsNoMotion
<1>5. CASE program \in {Close1, Close2, Close4}
  <2>0. /\ Head(program) \in {Simple("release"), Cancel("window"), Invalidate("lifecycle")}
        /\ Tail(program) \in {<<>>, Close1, Close3}
    BY <1>5, CloseParts DEF Parts
  <2>1. /\ Head(program).do \in {"release", "cancel", "invalidate"}
        /\ Head(program).do \in {"cancel", "invalidate"} => Head(program).timer # "noMotion"
    BY <2>0, OpValues
  <2>2. ~Winding(Tail(program))
    BY <2>0, NotWinding
  <2> QED BY <2>1, <2>2, PlainNoMotionOps DEF CancelsNoMotion
<1>6. CASE program = Close3
  <2>1. CancelsNoMotion(Head(program)) /\ Tail(program) = Close2
        /\ Head(program).do = "invalidate"
    BY <1>6, CloseParts, OpValues DEF Parts, CancelsNoMotion
  <2> QED BY <2>1, NotWinding DEF NoMotionOps, JoinsNoMotion, Winding
<1>7. CASE program \in {Limit1, Limit2, Limit3}
  <2>0. /\ Head(program) \in {Simple("autoStop"), Simple("wait"), Simple("check")}
        /\ Tail(program) \in {<<>>, Limit1, Limit2}
    BY <1>7, LifecycleParts DEF Parts
  <2>1. Head(program).do \in {"autoStop", "wait", "check"}
    BY <2>0, OpValues
  <2>2. ~Winding(Tail(program))
    BY <2>0, NotWinding
  <2> QED BY <2>1, <2>2, PlainNoMotionOps DEF CancelsNoMotion
<1>8. ASSUME NEW arm \in DelayOp \cup LimitOp,
             program \in {Then(Change("STARTING"), Arm2(arm)), Arm2(arm), Arm1(arm)}
      PROVE  NoMotionOps(program)
  <2>1. arm \in Op /\ arm.do = "armLifecycle"
    BY ArmOps
  <2>2. /\ Head(program).do \in {"change", "cancel", "armLifecycle"}
        /\ Head(program).do = "cancel" => Head(program).timer = "lifecycle"
        /\ Tail(program) \in {<<>>, Arm1(arm), Arm2(arm)}
    BY <1>8, <2>1, ArmParts, OpValues DEF Parts
  <2>3. ~Winding(Tail(program))
    BY <2>2, NotWinding
  <2> QED BY <2>2, <2>3, PlainNoMotionOps DEF CancelsNoMotion
<1>9. ASSUME NEW rest \in ActiveRest,
             \/ program \in {Then(Change("STARTING"), Active(rest)), Active(rest)}
             \/ program \in Activation(rest)
             \/ program \in {Delay1(rest), Delay2(rest)}
      PROVE  NoMotionOps(program)
  <2>1. rest \in Program
    BY RestHeads
  <2>2. /\ Parts(Timer1(rest), Simple("armNoMotion"), rest)
        /\ Parts(Timer2(rest), Cancel("noMotion"), Timer1(rest))
        /\ Parts(Window1(rest), Simple("armWindow"), Timer2(rest))
        /\ Parts(Window2(rest), Cancel("window"), Window1(rest))
        /\ Parts(Update(rest), Simple("update"), Timer2(rest))
        /\ Parts(Active(rest), Change("STARTED"), Update(rest))
        /\ Parts(Then(Change("STARTING"), Active(rest)), Change("STARTING"), Active(rest))
    BY <2>1, ActivationParts
  <2>3. /\ Parts(Delay1(rest), Simple("activate"), rest)
        /\ Parts(Delay2(rest), Simple("wait"), Delay1(rest))
    BY <2>1, LifecycleParts
  <2>4. CASE program \in {Then(Change("STARTING"), Active(rest)), Active(rest), Window1(rest),
                          Window2(rest), Delay2(rest)}
    <3>1. /\ Head(program).do \in {"change", "armWindow", "cancel", "wait"}
          /\ Head(program).do = "cancel" => Head(program).timer = "window"
      BY <2>2, <2>3, <2>4, OpValues DEF Parts
    <3>2. Tail(program) \in {Active(rest), Update(rest), Timer2(rest), Window1(rest),
                             Delay1(rest)}
      BY <2>2, <2>3, <2>4 DEF Parts
    <3>3. ~Winding(Tail(program))
      BY <3>2, NotWinding
    <3> QED BY <3>1, <3>3, PlainNoMotionOps DEF CancelsNoMotion
  <2>5. CASE program = Update(rest)
    <3>1. Head(program).do = "update" /\ Tail(program) = Timer2(rest)
      BY <2>2, <2>5, OpValues DEF Parts
    <3>2. ScheduleActiveWindow \o Tail(program) = Window2(rest)
      BY <2>1, <3>1, ActivationUnfolds
    <3> QED BY <3>1, <3>2, NotWinding DEF NoMotionOps, Winding, CancelsNoMotion
  <2>6. CASE program = Timer2(rest)
    <3>1. /\ CancelsNoMotion(Head(program)) /\ Tail(program) = Timer1(rest)
          /\ Head(program).do = "cancel"
      BY <2>2, <2>6, OpValues DEF Parts, CancelsNoMotion
    <3> QED BY <3>1, NotWinding DEF NoMotionOps, JoinsNoMotion, Winding
  <2>7. CASE program = Timer1(rest)
    <3>1. Head(program).do = "armNoMotion" /\ Tail(program) = rest
      BY <2>2, <2>7, OpValues DEF Parts
    <3> QED BY <2>7, <3>1, NotWinding DEF NoMotionOps, Winding, CancelsNoMotion
  <2>8. CASE program = Delay1(rest)
    <3>1. Head(program).do = "activate" /\ Tail(program) = rest
      BY <2>3, <2>8, OpValues DEF Parts
    <3>2. Activate \o rest = Active(rest)
      BY <2>1, ActivationUnfolds
    <3> QED BY <3>1, <3>2, NotWinding DEF NoMotionOps, Winding, CancelsNoMotion
  <2> QED BY <1>9, <2>4, <2>5, <2>6, <2>7, <2>8 DEF Activation
<1> QED BY <1>2, <1>3, <1>4, <1>5, <1>6, <1>7, <1>8, <1>9 DEF SessionProgram

\* The programs a thread of the session is given do not wind up.
LEMMA NewPrograms ==
    /\ \A cfg \in StartConfig, g \in 1..MaxGen : ~Winding(StartProgram(cfg, g))
    /\ ~Winding(StopProgram) /\ ~Winding(ReleaseController)
    /\ ~Winding(<<Cancel("noMotion"), Cancel("window")>> \o GoDown)
    /\ \A d \in BOOLEAN, s \in BOOLEAN : ~Winding(LifecycleProgram(d, s))
<1>1. \A cfg \in StartConfig, g \in 1..MaxGen : ~Winding(StartProgram(cfg, g))
  BY StartUnfolds, NotWinding DEF ActiveRest
<1>2. /\ ~Winding(StopProgram) /\ ~Winding(ReleaseController)
      /\ ~Winding(<<Cancel("noMotion"), Cancel("window")>> \o GoDown)
  BY StopUnfolds, NotWinding
<1>3. ASSUME NEW d \in BOOLEAN, NEW s \in BOOLEAN
      PROVE  ~Winding(LifecycleProgram(d, s))
  <2>1. CASE d = TRUE
    BY <2>1, LifecycleUnfolds, NotWinding DEF ActiveRest
  <2>2. CASE d = FALSE /\ s = TRUE
    BY <2>2, LifecycleUnfolds, NotWinding
  <2>3. CASE d = FALSE /\ s = FALSE
    <3>1. LifecycleProgram(d, s) = Then(Simple("check"), <<>>)
      BY <2>3 DEF LifecycleProgram, Then
    <3>2. Simple("check") \in Op /\ <<>> \in Program
      BY OpTypes, ProgramTypes DEF SimpleNames
    <3>3. Head(LifecycleProgram(d, s)).do = "check"
      BY <3>1, <3>2, ThenFacts, OpValues
    <3>4. Head(Stop3).do = "cancel" /\ Head(Stop2).do = "change"
      BY StopParts, OpValues DEF Parts
    <3> QED BY <3>3, <3>4 DEF Winding
  <2> QED BY <2>1, <2>2, <2>3
<1> QED BY <1>1, <1>2, <1>3

-----------------------------------------------------------------------------
(* The inductive invariant.                                                 *)

\* No inactivity timer is alive, the delivery of its event included.
NoMotionIdle == \A g \in 1..MaxGen : at[NoMotionThread(g)] = "idle"

\* An inactivity timer that is alive is within reach: the handle owns it, or
\* some thread is joining it.
NoMotionWithinReach ==
    \A g \in 1..MaxGen :
        at[NoMotionThread(g)] # "idle" =>
            \/ handle["noMotion"] = NoMotionThread(g)
            \/ \E t \in Thread : target[t] = NoMotionThread(g)

\* Only the client and the lifecycle thread join inactivity timers, and they
\* go on with the rest of a stop, of a close or of an activation.
NoMotionJoins ==
    \A t \in Thread, g \in 1..MaxGen :
        target[t] = NoMotionThread(g) => t \in SessionThread /\ JoinsNoMotion(todo[t])

\* A thread that winds the session up has the inactivity timer behind it, or
\* is joining the last one.
WindingUp ==
    \A t \in SessionThread :
        /\ todo[t] = Stop3 =>
              /\ handle["noMotion"] = Nobody
              /\ \A g \in 1..MaxGen : at[NoMotionThread(g)] # "idle" =>
                                          target[t] = NoMotionThread(g)
        /\ todo[t] = Stop2 => NoMotionIdle

NoMotionInv ==
    /\ NoMotionWithinReach
    /\ NoMotionJoins
    /\ WindingUp
    /\ state # "STARTED" => NoMotionIdle

LEMMA NoMotionThreads ==
    /\ "noMotion" \in Kind /\ "noMotion" \in GenerationKind
    /\ \A g \in 1..MaxGen : /\ NoMotionThread(g) \in Thread
                            /\ NoMotionThread(g) # Nobody
                            /\ NoMotionThread(g)[1] = "noMotion"
    /\ \A g \in 1..MaxGen, h \in 1..MaxGen : NoMotionThread(g) = NoMotionThread(h) => g = h
    /\ SingleClient => \A g \in 1..MaxGen : NoMotionThread(g) \notin SessionThread
<1>1. "noMotion" \in Kind /\ "noMotion" \in GenerationKind
  BY DEF Kind, GenerationKind
<1> QED BY <1>1, GenerationKinds, SessionThreads DEF NoMotionThread

\* A step that neither arms nor cancels an inactivity timer.
NoMotionFrame ==
    /\ handle'["noMotion"] = handle["noMotion"]
    /\ \A g \in 1..MaxGen : at[NoMotionThread(g)] = "idle" => at'[NoMotionThread(g)] = "idle"
    /\ \A u \in Thread, g \in 1..MaxGen :
          /\ target'[u] = NoMotionThread(g) => target[u] = NoMotionThread(g) /\ todo'[u] = todo[u]
          /\ target[u] = NoMotionThread(g) =>
                target'[u] = NoMotionThread(g) \/ at'[NoMotionThread(g)] = "idle"
    /\ state' \in {state, "STARTED"} \/ NoMotionIdle
    /\ \A u \in SessionThread : /\ todo'[u] = Stop3 => todo[u] = Stop3
                                /\ todo'[u] = Stop2 => todo[u] = Stop2 \/ NoMotionIdle

LEMMA NoMotionFrameKeeps ==
    ASSUME SingleClient, NoMotionInv, NoMotionFrame
    PROVE  NoMotionInv'
<1>1. SessionThread' = SessionThread /\ SessionThread \subseteq Thread
  BY SessionThreads DEF SessionThread
<1>2. NoMotionIdle => NoMotionIdle'
  BY DEF NoMotionFrame, NoMotionIdle
<1>3. NoMotionWithinReach'
  BY DEF NoMotionInv, NoMotionFrame, NoMotionWithinReach
<1>4. NoMotionJoins'
  BY <1>1 DEF NoMotionInv, NoMotionFrame, NoMotionJoins
<1>5. WindingUp'
  <2> SUFFICES ASSUME NEW t \in SessionThread
               PROVE  /\ todo'[t] = Stop3 =>
                            /\ handle'["noMotion"] = Nobody
                            /\ \A g \in 1..MaxGen : at'[NoMotionThread(g)] # "idle" =>
                                                       target'[t] = NoMotionThread(g)
                      /\ todo'[t] = Stop2 => NoMotionIdle'
    BY <1>1 DEF WindingUp, NoMotionIdle
  <2>1. t \in Thread
    BY <1>1
  <2>2. ASSUME todo'[t] = Stop3, NEW g \in 1..MaxGen, at'[NoMotionThread(g)] # "idle"
        PROVE  target'[t] = NoMotionThread(g)
    BY <2>1, <2>2 DEF NoMotionInv, NoMotionFrame, WindingUp
  <2>3. todo'[t] = Stop3 => handle'["noMotion"] = Nobody
    BY DEF NoMotionInv, NoMotionFrame, WindingUp
  <2>4. todo'[t] = Stop2 => NoMotionIdle'
    BY <1>2 DEF NoMotionInv, NoMotionFrame, WindingUp
  <2> QED BY <2>2, <2>3, <2>4
<1>6. state' # "STARTED" => NoMotionIdle'
  BY <1>2 DEF NoMotionInv, NoMotionFrame
<1> QED BY <1>3, <1>4, <1>5, <1>6 DEF NoMotionInv

\* t goes on with program, and its target is no inactivity timer.
LEMMA MoveKeepsNoMotion ==
    ASSUME SingleClient, Types, PlacesOK, NoMotionInv, NEW t \in Thread,
           at[t] # "idle" \/ t \in SessionThread, target[t] = Nobody,
           NEW program, MovesOnly(t, program),
           handle'["noMotion"] = handle["noMotion"],
           \A g \in 1..MaxGen : target'[t] # NoMotionThread(g),
           state' \in {state, "STARTED"} \/ NoMotionIdle,
           t \in SessionThread =>
              /\ program = Stop3 => todo[t] = Stop3
              /\ program = Stop2 => todo[t] = Stop2 \/ NoMotionIdle
    PROVE  NoMotionInv'
<1>1. \A g \in 1..MaxGen : at[NoMotionThread(g)] = "idle" => at'[NoMotionThread(g)] = "idle"
  BY NoMotionThreads DEF MovesOnly
<1>2. \A u \in Thread, g \in 1..MaxGen :
          /\ target'[u] = NoMotionThread(g) => target[u] = NoMotionThread(g) /\ todo'[u] = todo[u]
          /\ target[u] = NoMotionThread(g) => target'[u] = NoMotionThread(g)
  BY NoMotionThreads DEF MovesOnly
<1>3. \A u \in SessionThread : /\ todo'[u] = Stop3 => todo[u] = Stop3
                               /\ todo'[u] = Stop2 => todo[u] = Stop2 \/ NoMotionIdle
  BY SessionThreads DEF MovesOnly
<1> QED BY <1>1, <1>2, <1>3, NoMotionFrameKeeps DEF NoMotionFrame

\* t arms a timer of another kind.
LEMMA OtherSpawnKeepsNoMotion ==
    ASSUME SingleClient, Types, PlacesOK, NoMotionInv, NEW t \in Thread, at[t] = "run",
           NEW k \in Kind, k # "noMotion", NEW g \in 1..MaxGen, NEW program, NEW rest,
           t # <<k, g>>, SpawnOutcome(t, k, g, program, rest), state' = state,
           handle[k] = Nobody => target[<<k, g>>] = Nobody,
           t \in SessionThread => ~Winding(rest),
           <<k, g>> \in SessionThread => ~Winding(program)
    PROVE  NoMotionInv'
<1> DEFINE new == <<k, g>>
<1>0. new \in Thread /\ target[t] = Nobody
  BY TimerThreadsAreThreads DEF PlacesOK
<1>1. \A h \in 1..MaxGen : NoMotionThread(h) # new /\ NoMotionThread(h) \in Thread
  BY NoMotionThreads DEF NoMotionThread
<1>2. handle'["noMotion"] = handle["noMotion"] /\ target' = target
  BY NoMotionThreads DEF SpawnOutcome
<1>3. \A h \in 1..MaxGen : at[NoMotionThread(h)] = "idle" => at'[NoMotionThread(h)] = "idle"
  BY <1>1 DEF SpawnOutcome
<1>4. \/ todo' = todo
      \/ /\ target[new] = Nobody /\ todo'[t] = rest /\ todo'[new] = program
         /\ \A u \in Thread : u # t /\ u # new => todo'[u] = todo[u]
  BY DEF SpawnOutcome
<1> HIDE DEF new
<1>5. \A u \in Thread, h \in 1..MaxGen :
          target'[u] = NoMotionThread(h) => target[u] = NoMotionThread(h) /\ todo'[u] = todo[u]
  BY <1>0, <1>2, <1>4, NoMotionThreads
<1>6. \A u \in SessionThread : /\ todo'[u] = Stop3 => todo[u] = Stop3
                               /\ todo'[u] = Stop2 => todo[u] = Stop2
  BY <1>4, SessionThreads DEF Winding, new
<1> QED BY <1>2, <1>3, <1>5, <1>6, NoMotionFrameKeeps DEF NoMotionFrame

\* t arms the inactivity timer of a session that is under way.
LEMMA SpawnKeepsNoMotion ==
    ASSUME SingleClient, Types, PlacesOK, NoMotionInv, NEW t \in SessionThread, at[t] = "run",
           NEW g \in 1..MaxGen, NEW program, NEW rest,
           SpawnOutcome(t, "noMotion", g, program, rest), state' = state, state = "STARTED",
           target[NoMotionThread(g)] = Nobody, ~Winding(rest),
           \A u \in SessionThread : u # t => ~Winding(todo[u]), ~Winding(todo[t])
    PROVE  NoMotionInv'
<1> DEFINE new == NoMotionThread(g)
<1>0. new \in Thread /\ target[t] = Nobody /\ t \in Thread /\ t # new
      /\ \A u \in SessionThread : u \in Thread /\ u # new
  BY NoMotionThreads, SessionThreads DEF PlacesOK
<1>1. SpawnOutcome(t, "noMotion", g, program, rest) /\ new = <<"noMotion", g>>
  BY DEF NoMotionThread
<1>2. target' = target /\ SessionThread' = SessionThread
  BY <1>1 DEF SpawnOutcome, SessionThread
<1>3. \/ todo' = todo
      \/ /\ todo'[t] = rest
         /\ \A u \in Thread : u # t /\ u # new => todo'[u] = todo[u]
  BY <1>1 DEF SpawnOutcome
<1>4. \/ handle' = handle
      \/ handle["noMotion"] = Nobody /\ handle'["noMotion"] = new
  BY <1>1 DEF SpawnOutcome
<1>5. \/ \A u \in Thread : u # t => at'[u] = at[u]
      \/ /\ handle'["noMotion"] = new
         /\ \A u \in Thread : u # t /\ u # new => at'[u] = at[u]
  BY <1>1 DEF SpawnOutcome
<1> HIDE DEF new
<1>6. NoMotionWithinReach'
  <2> SUFFICES ASSUME NEW h \in 1..MaxGen, at'[NoMotionThread(h)] # "idle"
               PROVE  \/ handle'["noMotion"] = NoMotionThread(h)
                      \/ \E u \in Thread : target'[u] = NoMotionThread(h)
    BY DEF NoMotionWithinReach
  <2>1. CASE NoMotionThread(h) = new /\ handle'["noMotion"] = new
    BY <2>1
  <2>2. CASE ~(NoMotionThread(h) = new /\ handle'["noMotion"] = new)
    <3>1. NoMotionThread(h) \in Thread /\ NoMotionThread(h) # t
      BY NoMotionThreads
    <3>2. at'[NoMotionThread(h)] = at[NoMotionThread(h)]
      BY <1>5, <2>2, <3>1
    <3>3. \/ handle["noMotion"] = NoMotionThread(h)
          \/ \E u \in Thread : target[u] = NoMotionThread(h)
      BY <3>2 DEF NoMotionInv, NoMotionWithinReach
    <3> QED BY <1>2, <1>4, <3>3, NoMotionThreads
  <2> QED BY <2>1, <2>2
<1>7. NoMotionJoins'
  <2> SUFFICES ASSUME NEW u \in Thread, NEW h \in 1..MaxGen, target[u] = NoMotionThread(h)
               PROVE  u \in SessionThread /\ JoinsNoMotion(todo'[u])
    BY <1>2 DEF NoMotionJoins
  <2>1. u \in SessionThread /\ JoinsNoMotion(todo[u])
    BY DEF NoMotionInv, NoMotionJoins
  <2>2. u # t
    BY <1>0, NoMotionThreads
  <2> QED BY <1>0, <1>3, <2>1, <2>2
<1>8. WindingUp'
  <2>1. \A u \in SessionThread : ~Winding(todo'[u])
    BY <1>0, <1>3
  <2> QED BY <1>2, <2>1 DEF WindingUp, Winding
<1> QED BY <1>6, <1>7, <1>8 DEF NoMotionInv

\* t cancels the inactivity timer, and joins it if it was armed.
LEMMA CancelKeepsNoMotion ==
    ASSUME SingleClient, Types, PlacesOK, NoMotionInv, NEW t \in SessionThread, at[t] = "run",
           NEW rest, CancelThread(t, "noMotion", rest), state' = state,
           JoinsNoMotion(rest), rest # Stop2,
           \A u \in SessionThread : u # t => ~Winding(todo[u]),
           rest = Stop3 => \A u \in Thread, g \in 1..MaxGen : target[u] # NoMotionThread(g)
    PROVE  NoMotionInv'
<1>1. /\ t \in Thread /\ target[t] = Nobody /\ "noMotion" \in Kind
      /\ \A u \in SessionThread : u \in Thread
      /\ SessionThread' = SessionThread
  BY NoMotionThreads, SessionThreads DEF PlacesOK, SessionThread
<1>2. /\ MovesOnly(t, rest)
      /\ handle'["noMotion"] = Nobody
      /\ \/ handle["noMotion"] \in {Nobody, t} /\ target' = target
         \/ target'[t] = handle["noMotion"]
  BY <1>1, CancelMoves
<1>3. \A g \in 1..MaxGen : /\ at'[NoMotionThread(g)] = at[NoMotionThread(g)]
                           /\ NoMotionThread(g) # Nobody /\ NoMotionThread(g) # t
                           /\ handle["noMotion"] = NoMotionThread(g) =>
                                 target'[t] = NoMotionThread(g)
  BY <1>1, <1>2, NoMotionThreads DEF MovesOnly
<1>4. \A u \in Thread : u # t => target'[u] = target[u] /\ todo'[u] = todo[u]
  BY <1>2 DEF MovesOnly
<1>5. NoMotionIdle => NoMotionIdle'
  BY <1>3 DEF NoMotionIdle
<1>6. ASSUME NEW g \in 1..MaxGen, at'[NoMotionThread(g)] # "idle"
      PROVE  \/ target'[t] = NoMotionThread(g)
             \/ \E u \in Thread : u # t /\ target'[u] = NoMotionThread(g)
                                        /\ target[u] = NoMotionThread(g)
  <2>1. \/ handle["noMotion"] = NoMotionThread(g)
        \/ \E u \in Thread : target[u] = NoMotionThread(g)
    BY <1>3, <1>6 DEF NoMotionInv, NoMotionWithinReach
  <2> QED BY <1>1, <1>3, <1>4, <2>1
<1>7. NoMotionWithinReach'
  BY <1>1, <1>6 DEF NoMotionWithinReach
<1>8. NoMotionJoins'
  <2> SUFFICES ASSUME NEW u \in Thread, NEW g \in 1..MaxGen, target'[u] = NoMotionThread(g)
               PROVE  u \in SessionThread /\ JoinsNoMotion(todo'[u])
    BY <1>1 DEF NoMotionJoins
  <2>1. CASE u = t
    BY <1>2, <2>1 DEF MovesOnly
  <2>2. CASE u # t
    BY <1>4, <2>2 DEF NoMotionInv, NoMotionJoins
  <2> QED BY <2>1, <2>2
<1>9. WindingUp'
  <2>1. \A u \in SessionThread : u # t => todo'[u] # Stop3 /\ todo'[u] # Stop2
    BY <1>1, <1>4 DEF Winding
  <2>2. todo'[t] = rest
    BY <1>2 DEF MovesOnly
  <2> QED BY <1>1, <1>2, <1>6, <2>1, <2>2 DEF WindingUp
<1> QED BY <1>5, <1>7, <1>8, <1>9 DEF NoMotionInv

-----------------------------------------------------------------------------
(* Every step preserves it.                                                 *)

\* The operations of a session's thread.
LEMMA SessionHeads ==
    ASSUME SessionInv, NEW t \in SessionThread, todo[t] # <<>>
    PROVE  /\ NoMotionOps(todo[t])
           /\ Head(todo[t]).do \in {"update", "armWindow", "armNoMotion", "cancel", "change",
                                    "armLifecycle", "release", "invalidate", "wait",
                                    "activate", "check", "autoStop"}
<1> DEFINE op == Head(todo[t])
<1>1. t \in ClientThreads =>
         op.do \in {"update", "armWindow", "armNoMotion", "cancel", "change", "armLifecycle",
                    "release", "invalidate"}
  BY ClientHead DEF SessionInv, PlainOp
<1>2. ASSUME NEW g \in 1..MaxGen, t = LifecycleThread(g)
      PROVE  op.do \in {"update", "armWindow", "armNoMotion", "cancel", "change", "wait",
                        "activate", "check", "autoStop"}
  BY <1>2, LifecycleHead DEF SessionInv, PlainOp
<1>3. NoMotionOps(todo[t])
  BY SessionPrograms, SessionNoMotionOps
<1> QED BY <1>1, <1>2, <1>3 DEF SessionThread

\* The other threads leave the inactivity timer alone.
LEMMA OtherHeads ==
    ASSUME SingleClient, NoInjection, OtherPrograms, NEW t \in Thread, t \notin SessionThread,
           todo[t] # <<>>
    PROVE  /\ ~CancelsNoMotion(Head(todo[t]))
           /\ Head(todo[t]).do \notin {"armNoMotion", "change", "armLifecycle"}
<1>1. \A op \in NoMotionOp \cup WindowOp :
         /\ ~CancelsNoMotion(op)
         /\ op.do \notin {"armNoMotion", "change", "armLifecycle"}
  BY OpValues DEF NoMotionOp, WindowOp, CancelsNoMotion
<1>2. CASE \E g \in 1..MaxGen : t = <<"noMotion", g>>
  BY <1>1, <1>2, HeadTailProperties DEF OtherPrograms
<1>3. CASE \E g \in 1..MaxGen : t = <<"window", g>>
  BY <1>1, <1>3, HeadTailProperties DEF OtherPrograms
<1> QED BY <1>2, <1>3, Roles DEF SessionThread, LifecycleThread, Kind, NoInjection

\* While a session's thread is at work on the inactivity timer no other joins
\* one, and none winds up.
LEMMA OneAtWork ==
    ASSUME SingleClient, OneClientInv, NoMotionInv, NEW t \in SessionThread, at[t] = "run",
           todo[t] # <<>>, todo[t] # Stop5
    PROVE  /\ \A u \in SessionThread : u # t => ~Winding(todo[u])
           /\ \A u \in Thread, g \in 1..MaxGen : target[u] # NoMotionThread(g)
<1>1. \A u \in SessionThread : u # t => todo[u] \in {<<>>, Stop5, Stop4}
  <2>1. CASE t \in ClientThreads
    <3>1. \A g \in 1..MaxGen : todo[LifecycleThread(g)] = <<>>
      BY <2>1, OneLifecycleThread
    <3> QED BY <2>1, <3>1 DEF SingleClient, SessionThread
  <2>2. CASE \E g \in 1..MaxGen : t = LifecycleThread(g)
    BY <2>2, OneLifecycleThread DEF SessionThread
  <2> QED BY <2>1, <2>2 DEF SessionThread
<1>2. ASSUME NEW program \in {<<>>, Stop5, Stop4} PROVE ~JoinsNoMotion(program)
  <2>1. /\ Close2 # <<>> /\ Head(Close2) = Cancel("window")
        /\ Head(Stop5) = Invalidate("lifecycle") /\ Head(Stop4) = Invalidate("noMotion")
    BY StopParts, CloseParts DEF Parts
  <2>2. \A rest \in ActiveRest :
           Timer1(rest) # <<>> /\ Head(Timer1(rest)) = Simple("armNoMotion")
    BY RestHeads, ActivationParts DEF Parts
  <2>3. \A k : Invalidate(k) # Cancel("window") /\ Invalidate(k) # Simple("armNoMotion")
    <3>1. \A k : Invalidate(k).do = "invalidate"
      BY OpValues
    <3>2. Cancel("window").do = "cancel" /\ Simple("armNoMotion").do = "armNoMotion"
      BY OpValues
    <3> QED BY <3>1, <3>2
  <2>4. program # Close2
    BY <2>1, <2>3
  <2>5. \A rest \in ActiveRest : program # Timer1(rest)
    BY <2>1, <2>2, <2>3
  <2>6. program # Stop3
    BY NotWinding DEF Winding
  <2> QED BY <2>4, <2>5, <2>6 DEF JoinsNoMotion
<1>3. target[t] = Nobody
  BY SessionThreads DEF OneClientInv, PlacesOK
<1>4. ASSUME NEW u \in Thread, NEW g \in 1..MaxGen, target[u] = NoMotionThread(g)
      PROVE  FALSE
  <2>1. u \in SessionThread /\ JoinsNoMotion(todo[u])
    BY <1>4 DEF NoMotionInv, NoMotionJoins
  <2>2. u # t
    BY <1>3, <1>4, NoMotionThreads
  <2> QED BY <1>1, <1>2, <2>1, <2>2
<1> QED BY <1>1, <1>4, NotWinding

\* A change of the state that ends the session finds no inactivity timer.
LEMMA EndsAfterTimers ==
    ASSUME SingleClient, OneClientInv, NoMotionInv, NEW t \in SessionThread, todo[t] # <<>>,
           Head(todo[t]).do = "change", state = "STARTED", Head(todo[t]).to # "STARTED"
    PROVE  NoMotionIdle
<1>1. \A rest \in ActiveRest : \A program \in Activation(rest) : Head(program).do # "change"
  <2> SUFFICES ASSUME NEW rest \in ActiveRest, NEW program \in Activation(rest)
               PROVE  Head(program).do # "change"
    OBVIOUS
  <2>1. rest \in Program
    BY RestHeads
  <2>2. Head(program) \in {Simple("update"), Cancel("window"), Simple("armWindow"),
                           Cancel("noMotion"), Simple("armNoMotion")}
    BY <2>1, ActivationParts DEF Activation, Parts
  <2> QED BY <2>2, OpValues
<1>2. \A arm \in LimitOp : Head(Arm1(arm)).do # "change" /\ Head(Arm2(arm)).do # "change"
  BY ArmParts, ArmOps, OpValues DEF Parts
<1>3. \A program \in {Stop5, Stop4, Stop3, AutoStop4, Limit1, Limit2, Limit3} :
         Head(program).do # "change"
  <2>1. \A program \in {Stop5, Stop4, Stop3, AutoStop4, Limit1, Limit2, Limit3} :
           Head(program) \in {Invalidate("lifecycle"), Invalidate("noMotion"),
                              Cancel("window"), Cancel("noMotion"), Simple("autoStop"),
                              Simple("wait"), Simple("check")}
    BY StopParts, LifecycleParts DEF Parts
  <2> QED BY <2>1, OpValues
<1>4. ASSUME NEW g \in 1..MaxGen, t = LifecycleThread(g) PROVE todo[t] = Stop2
  <2>1. LifecyclePhase(g)
    BY DEF OneClientInv, SessionInv
  <2> QED BY <1>1, <1>3, <1>4, <2>1 DEF LifecyclePhase, ActiveRest
<1>5. ASSUME t \in ClientThreads PROVE todo[t] = Stop2
  <2>1. ClientPhase(t)
    BY <1>5 DEF OneClientInv, SessionInv
  <2>2. CASE Activating(t)
    BY <1>1, <2>2 DEF Activating, ActiveRest
  <2>3. CASE Limiting(t)
    BY <1>2, <2>3 DEF Limiting
  <2>4. CASE Stopping(t)
    BY <1>3, <2>4 DEF Stopping
  <2> QED BY <2>1, <2>2, <2>3, <2>4 DEF ClientPhase, Beginning, Delaying, Closing
<1>6. todo[t] = Stop2
  BY <1>4, <1>5 DEF SessionThread
<1> QED BY <1>6 DEF NoMotionInv, WindingUp

\* What is left of a program after an operation that does not cancel.
LEMMA TailsOfOthers ==
    ASSUME SingleClient, OneClientInv, NoMotionInv, NEW t \in SessionThread, at[t] = "run",
           todo[t] # <<>>, ~CancelsNoMotion(Head(todo[t]))
    PROVE  /\ Tail(todo[t]) # Stop3
           /\ Tail(todo[t]) = Stop2 => NoMotionIdle
           /\ Head(todo[t]).do # "cancel" => ~Winding(Tail(todo[t]))
<1>1. NoMotionOps(todo[t])
  BY SessionHeads DEF OneClientInv
<1>3. Head(Stop3).do = "cancel"
  BY StopParts, OpValues DEF Parts
<1>2. ASSUME Tail(todo[t]) = Stop2 PROVE NoMotionIdle
  <2>1. todo[t] = Stop3 /\ target[t] = Nobody
    BY <1>1, <1>2, SessionThreads DEF NoMotionOps, OneClientInv, PlacesOK
  <2> QED BY <2>1, NoMotionThreads DEF NoMotionInv, WindingUp, NoMotionIdle
<1> QED BY <1>1, <1>2, <1>3 DEF NoMotionOps, Winding

\* Cancelling a timer, with or without a new generation.
LEMMA CancelStep ==
    ASSUME SingleClient, NoInjection, Types, OneClientInv, NoMotionInv, NEW t \in Thread,
           at[t] = "run", todo[t] # <<>>, Head(todo[t]).do \in {"cancel", "invalidate"},
           CancelThread(t, Head(todo[t]).timer, Tail(todo[t])), state' = state
    PROVE  NoMotionInv'
<1> DEFINE k == Head(todo[t]).timer
<1> USE DEF OneClientInv
<1>0. target[t] = Nobody
  BY DEF PlacesOK
<1>1. k \in Kind
  <2>1. Head(todo[t]) \in Op
    BY ProgramTypes DEF Types, ThreadsOK, ThreadsTypeOK, Program
  <2> QED BY <2>1, OpFields
<1>2. MovesOnly(t, Tail(todo[t]))
  BY <1>1, CancelMoves
<1>3. CASE k = "noMotion"
  <2>1. CancelsNoMotion(Head(todo[t]))
    BY <1>3 DEF CancelsNoMotion
  <2>2. t \in SessionThread
    BY <2>1, OtherHeads
  <2>3. JoinsNoMotion(Tail(todo[t])) /\ Tail(todo[t]) # Stop2
    BY <2>1, <2>2, SessionHeads DEF NoMotionOps
  <2>4. todo[t] # Stop5
    <3>1. Head(Stop5) = Invalidate("lifecycle") /\ Invalidate("lifecycle").timer = "lifecycle"
      BY StopParts, OpValues DEF Parts
    <3> QED BY <1>3, <3>1
  <2> QED BY <1>3, <2>2, <2>3, <2>4, OneAtWork, CancelKeepsNoMotion
<1>4. CASE k # "noMotion"
  <2>1. handle'["noMotion"] = handle["noMotion"]
    BY <1>1, <1>4, CancelMoves, NoMotionThreads
  <2>2. \A g \in 1..MaxGen : target'[t] # NoMotionThread(g)
    <3>1. target'[t] = target[t] \/ target'[t] = handle[k]
      BY <1>1, CancelMoves
    <3>2. \A g \in 1..MaxGen : handle[k] # NoMotionThread(g)
      BY <1>1, <1>4, NoMotionThreads DEF Types, TimersTypeOK
    <3> QED BY <1>0, <3>1, <3>2, NoMotionThreads
  <2>3. ~CancelsNoMotion(Head(todo[t]))
    BY <1>4 DEF CancelsNoMotion
  <2>4. t \in SessionThread => /\ Tail(todo[t]) # Stop3
                               /\ Tail(todo[t]) = Stop2 => NoMotionIdle
    BY <2>3, TailsOfOthers
  <2>5. at[t] # "idle"
    OBVIOUS
  <2> QED BY <1>0, <1>2, <2>1, <2>2, <2>4, <2>5, MoveKeepsNoMotion
<1> QED BY <1>3, <1>4

\* t goes on with program, and no timer changes hands.
LEMMA PlainMove ==
    ASSUME SingleClient, Types, OneClientInv, NoMotionInv, NEW t \in Thread, at[t] # "idle",
           target[t] = Nobody, NEW program, MovesOnly(t, program), target' = target,
           handle' = handle, state' = state,
           t \in SessionThread => \/ ~Winding(program) \/ program = todo[t]
                                  \/ /\ todo[t] # <<>> /\ program = Tail(todo[t])
                                     /\ ~CancelsNoMotion(Head(todo[t])) /\ at[t] = "run"
    PROVE  NoMotionInv'
<1>1. \A g \in 1..MaxGen : target'[t] # NoMotionThread(g)
  BY NoMotionThreads
<1>2. t \in SessionThread =>
         /\ program = Stop3 => todo[t] = Stop3
         /\ program = Stop2 => todo[t] = Stop2 \/ NoMotionIdle
  BY TailsOfOthers DEF Winding
<1> QED BY <1>1, <1>2, MoveKeepsNoMotion DEF OneClientInv

\* The steps that arm a timer.
LEMMA ArmStep ==
    ASSUME SingleClient, NoInjection, Types, TimerInv, OneClientInv, NoMotionInv,
           NEW t \in Thread,
           ArmLifecycleTimer(t) \/ ArmNoMotionTimer(t) \/ ArmWindowScheduler(t)
    PROVE  NoMotionInv'
<1> USE DEF OneClientInv, Runs
<1>0. /\ at[t] = "run" /\ target[t] = Nobody /\ todo[t] # <<>> /\ state' = state
      /\ Head(todo[t]).do \in {"armLifecycle", "armNoMotion", "armWindow"}
      /\ ~CancelsNoMotion(Head(todo[t]))
  BY DEF ArmLifecycleTimer, ArmNoMotionTimer, ArmWindowScheduler, sensorVars, PlacesOK,
       CancelsNoMotion
<1>1. ASSUME Continue(t, Tail(todo[t])), UNCHANGED timerVars PROVE NoMotionInv'
  <2>1. MovesOnly(t, Tail(todo[t])) /\ target' = target /\ handle' = handle /\ at[t] # "idle"
    BY <1>0, <1>1, Moves DEF timerVars
  <2> QED BY <1>0, <2>1, PlainMove
<1>2. CASE ArmLifecycleTimer(t)
  <2>1. Runs(t, "armLifecycle")
    BY <1>2 DEF ArmLifecycleTimer
  <2>2. t \in ClientThreads /\ Head(todo[t]).timer \in 1..MaxGen
    BY <2>1, ArmsFresh
  <2>3. PICK g \in 1..MaxGen : g = Head(todo[t]).timer
    BY <2>2
  <2>4. Head(todo[t]).delayed \in BOOLEAN /\ Head(todo[t]).stops \in BOOLEAN
    <3>1. Head(todo[t]) \in Op
      BY <2>1, ProgramTypes DEF Types, ThreadsOK, ThreadsTypeOK, Program
    <3> QED BY <2>1, <3>1, OpFields
  <2>5. PICK work : work = LifecycleProgram(Head(todo[t]).delayed, Head(todo[t]).stops)
    OBVIOUS
  <2>6. ~Winding(work)
    BY <2>4, <2>5, NewPrograms
  <2>7. Spawn(t, "lifecycle", g, "begin", work, Tail(todo[t]))
    BY <1>2, <2>3, <2>5 DEF ArmLifecycleTimer
  <2>8. t # <<"lifecycle", g>> /\ "lifecycle" \in Kind /\ t \in SessionThread
    BY <2>2, Roles, SessionThreads DEF LifecycleThread, Kind
  <2>9. SpawnOutcome(t, "lifecycle", g, work, Tail(todo[t]))
    BY <2>7, <2>8, SpawnMoves
  <2>10. handle["lifecycle"] = Nobody => target[<<"lifecycle", g>>] = Nobody
    <3>1. handle["lifecycle"] = Nobody => at[LifecycleThread(g)] = "idle"
      BY <2>1, <2>3, ArmsFresh
    <3> QED BY <3>1, Roles DEF PlacesOK, LifecycleThread
  <2>11. ~Winding(Tail(todo[t]))
    BY <1>0, <2>1, <2>8, TailsOfOthers
  <2> QED BY <1>0, <2>6, <2>8, <2>9, <2>10, <2>11, OtherSpawnKeepsNoMotion
<1>3. CASE ArmWindowScheduler(t)
  <2>1. CASE state = "STARTED" /\ hasWindows
    <3>1. PICK g \in 1..MaxGen : g = gen["window"] + 1
      BY <1>3, <2>1, Bounds DEF ArmWindowScheduler, Types, TimersTypeOK, Kind
    <3>2. "window" \in GenerationKind /\ "window" \in Kind
      BY DEF Kind, GenerationKind
    <3>3. at[<<"window", g>>] = "idle" /\ target[<<"window", g>>] = Nobody
      BY <3>1, <3>2, GenerationIsFresh
    <3>4. t # <<"window", g>> /\ <<"window", g>> \notin SessionThread
      BY <1>0, <3>2, <3>3, SessionThreads
    <3>5. Spawn(t, "window", g, "begin", WindowProgram, Tail(todo[t]))
      BY <1>3, <2>1, <3>1 DEF ArmWindowScheduler
    <3>6. PICK work : work = WindowProgram
      OBVIOUS
    <3>7. SpawnOutcome(t, "window", g, work, Tail(todo[t]))
      BY <3>2, <3>4, <3>5, <3>6, SpawnMoves
    <3>8. t \in SessionThread => ~Winding(Tail(todo[t]))
      BY <1>0, TailsOfOthers
    <3> QED BY <1>0, <3>2, <3>3, <3>4, <3>7, <3>8, OtherSpawnKeepsNoMotion
  <2>2. CASE ~(state = "STARTED" /\ hasWindows)
    BY <1>1, <1>3, <2>2 DEF ArmWindowScheduler
  <2> QED BY <2>1, <2>2
<1>4. CASE ArmNoMotionTimer(t)
  <2>1. CASE state = "STARTED" /\ startConfig.mode = "NO_MOTION" /\ startConfig.noMotion
    <3>1. PICK g \in 1..MaxGen : g = gen["noMotion"] + 1
      BY <1>4, <2>1, Bounds DEF ArmNoMotionTimer, Types, TimersTypeOK, Kind
    <3>2. at[NoMotionThread(g)] = "idle" /\ target[NoMotionThread(g)] = Nobody
      BY <3>1, NoMotionThreads, GenerationIsFresh DEF NoMotionThread
    <3>3. t # NoMotionThread(g)
      BY <1>0, <3>2
    <3>4. Spawn(t, "noMotion", g, "begin", NoMotionProgram, Tail(todo[t]))
      BY <1>4, <2>1, <3>1 DEF ArmNoMotionTimer
    <3>5. PICK work : work = NoMotionProgram
      OBVIOUS
    <3>6. SpawnOutcome(t, "noMotion", g, work, Tail(todo[t]))
      BY <3>3, <3>4, <3>5, NoMotionThreads, SpawnMoves DEF NoMotionThread
    <3>7. Head(todo[t]).do = "armNoMotion" /\ t \in SessionThread
      BY <1>0, <1>4, OtherHeads DEF ArmNoMotionTimer
    <3>8. PICK rest \in ActiveRest : todo[t] = Timer1(rest) /\ Tail(todo[t]) = rest
      BY <1>0, <3>7, SessionHeads DEF NoMotionOps
    <3>9. ~Winding(Tail(todo[t])) /\ ~Winding(todo[t])
      BY <3>8, NotWinding
    <3>10. todo[t] # Stop5
      <4>1. Head(Stop5) = Invalidate("lifecycle") /\ Invalidate("lifecycle").do = "invalidate"
        BY StopParts, OpValues DEF Parts
      <4> QED BY <3>7, <4>1
    <3>11. \A u \in SessionThread : u # t => ~Winding(todo[u])
      BY <1>0, <3>7, <3>10, OneAtWork
    <3> QED BY <1>0, <2>1, <3>2, <3>6, <3>7, <3>9, <3>11, SpawnKeepsNoMotion
  <2>2. CASE ~(state = "STARTED" /\ startConfig.mode = "NO_MOTION" /\ startConfig.noMotion)
    BY <1>1, <1>4, <2>2 DEF ArmNoMotionTimer
  <2> QED BY <2>1, <2>2
<1> QED BY <1>2, <1>3, <1>4

LEMMA StepKeepsNoMotion ==
    ASSUME SingleClient, NoInjection, Types, TimerInv, OneClientInv, NoMotionInv,
           NEW t \in Thread, Step(t)
    PROVE  NoMotionInv'
<1> USE DEF OneClientInv, Runs
<1>1. CASE ChangeState(t)
  <2>1. /\ at[t] = "run" /\ todo[t] # <<>> /\ Head(todo[t]).do = "change"
        /\ target[t] = Nobody /\ at[t] # "idle" /\ handle' = handle
        /\ state' \in {state, Head(todo[t]).to}
    BY <1>1 DEF ChangeState, PlacesOK, timerVars
  <2>2. t \in SessionThread
    BY <2>1, OtherHeads
  <2>3. state' \in {state, "STARTED"} \/ NoMotionIdle
    BY <2>1, <2>2, EndsAfterTimers DEF NoMotionInv
  <2>4. ~Winding(Tail(todo[t]))
    BY <2>1, <2>2, TailsOfOthers DEF CancelsNoMotion
  <2>5. MovesOnly(t, Tail(todo[t])) /\ target' = target
    BY <1>1, Moves DEF ChangeState
  <2>6. \A g \in 1..MaxGen : target'[t] # NoMotionThread(g)
    BY <2>1, <2>5, NoMotionThreads
  <2> QED BY <2>1, <2>3, <2>4, <2>5, <2>6, MoveKeepsNoMotion DEF Winding
<1>2. CASE CancelTimer(t) \/ InvalidateTimer(t)
  BY <1>2, CancelStep DEF CancelTimer, InvalidateTimer, sensorVars
<1>3. CASE ArmLifecycleTimer(t) \/ ArmNoMotionTimer(t) \/ ArmWindowScheduler(t)
  BY <1>3, ArmStep
<1>4. ASSUME NEW program, at[t] = "run", UNCHANGED <<state, handle>>, target' = target,
             Continue(t, program) \/ CallOut(t, program) \/ Leave(t, "deliver", program)
                \/ Leave(t, "callback", program),
             t \in SessionThread => ~Winding(program)
      PROVE  NoMotionInv'
  <2>1. target[t] = Nobody /\ at[t] # "idle" /\ MovesOnly(t, program)
    BY <1>4, Moves DEF PlacesOK
  <2> QED BY <1>4, <2>1, PlainMove
<1>5. CASE UpdateActiveWindow(t)
  <2>1. /\ at[t] = "run" /\ todo[t] # <<>> /\ Head(todo[t]).do = "update"
        /\ UNCHANGED <<state, handle>>
    BY <1>5 DEF UpdateActiveWindow, timerVars
  <2>2. t \in SessionThread => /\ ~Winding(Tail(todo[t]))
                               /\ ~Winding(ScheduleActiveWindow \o Tail(todo[t]))
    BY <2>1, TailsOfOthers, SessionHeads DEF NoMotionOps, CancelsNoMotion
  <2>3. PICK program : /\ program \in {Tail(todo[t]), ScheduleActiveWindow \o Tail(todo[t])}
                       /\ Continue(t, program) \/ CallOut(t, program)
    BY <1>5 DEF UpdateActiveWindow
  <2>4. target' = target
    BY <2>3, Moves
  <2> QED BY <1>4, <2>1, <2>2, <2>3, <2>4
<1>6. CASE InjectLocked(t) \/ EndSessionOfTheDead(t) \/ ReturnToCallback(t)
  <2>1. /\ at[t] = "run" /\ todo[t] # <<>> /\ Head(todo[t]).do \in {"inject", "goDown", "return"}
        /\ UNCHANGED <<state, handle>>
    BY <1>6 DEF InjectLocked, EndSessionOfTheDead, ReturnToCallback, sensorVars, timerVars
  <2>2. t \notin SessionThread
    BY <2>1, SessionHeads
  <2>3. PICK program : \/ Continue(t, program)
                       \/ Leave(t, "deliver", program) /\ target' = target
                       \/ Leave(t, "callback", program) /\ target' = target
    BY <1>6 DEF InjectLocked, EndSessionOfTheDead, ReturnToCallback
  <2>4. target' = target
    BY <2>3, Moves
  <2> QED BY <1>4, <2>1, <2>2, <2>3, <2>4
<1>7. CASE Release(t)
  <2>1. /\ at[t] = "run" /\ todo[t] # <<>> /\ Head(todo[t]).do = "release"
        /\ UNCHANGED <<state, handle>> /\ Continue(t, Tail(todo[t]))
    BY <1>7 DEF Release, timerVars
  <2>2. t \in SessionThread => ~Winding(Tail(todo[t]))
    BY <2>1, TailsOfOthers DEF CancelsNoMotion
  <2>3. target' = target
    BY <2>1, Moves
  <2> QED BY <1>4, <2>1, <2>2, <2>3
<1>8. CASE TakeMutex(t)
  <2>1. /\ todo' = todo /\ UNCHANGED <<state, handle>>
        /\ at[t] \in {"begin", "callback", "join"}
        /\ at[t] = "join" => at[target[t]] = "idle"
        /\ target'[t] = Nobody
        /\ \A u \in Thread : u # t => at'[u] = at[u] /\ target'[u] = target[u]
    BY <1>8 DEF TakeMutex, Types, ThreadsOK, ThreadsTypeOK, sensorVars, timerVars
  <2>2. ASSUME NEW g \in 1..MaxGen, target[t] = NoMotionThread(g)
        PROVE  at'[NoMotionThread(g)] = "idle"
    <3>1. at[NoMotionThread(g)] = "idle" /\ NoMotionThread(g) \in Thread
      BY <2>1, <2>2, NoMotionThreads DEF PlacesOK
    <3> QED BY <2>1, <3>1
  <2>3. \A g \in 1..MaxGen : at[NoMotionThread(g)] = "idle" => at'[NoMotionThread(g)] = "idle"
    BY <2>1, NoMotionThreads
  <2>4. NoMotionFrame
    BY <2>1, <2>2, <2>3, NoMotionThreads DEF NoMotionFrame
  <2> QED BY <2>4, NoMotionFrameKeeps
<1>9. CASE RecordEvent(t)
  <2>1. /\ at[t] = "deliver" /\ target[t] = Nobody /\ target' = target
        /\ UNCHANGED <<state, handle>>
        /\ todo'[t] = <<>> /\ \A u \in Thread : u # t => todo'[u] = todo[u] /\ at'[u] = at[u]
    BY <1>9 DEF RecordEvent, PlacesOK, Types, ThreadsOK, ThreadsTypeOK, timerVars
  <2>2. MovesOnly(t, <<>>) /\ at[t] # "idle"
    BY <2>1 DEF MovesOnly
  <2> QED BY <2>1, <2>2, NotWinding, PlainMove
<1>10. CASE \E l \in Listeners : OnEvent(t, l)
  <2>1. NoMotionFrame
    BY <1>10 DEF OnEvent, NoMotionFrame, sensorVars, timerVars
  <2> QED BY <2>1, NoMotionFrameKeeps
<1> QED BY <1>1, <1>2, <1>3, <1>5, <1>6, <1>7, <1>8, <1>9, <1>10 DEF Step

LEMMA TimerStepKeepsNoMotion ==
    ASSUME SingleClient, Types, OneClientInv, NoMotionInv,
           NEW k \in Kind, NEW g \in 1..MaxGen, TimerStep(k, g)
    PROVE  NoMotionInv'
<1> DEFINE t == <<k, g>>
<1>1. /\ t \in Thread /\ at[t] \in {"run", "wait"}
      /\ UNCHANGED <<state, handle>> /\ target' = target
  BY TimerThreadsAreThreads DEF TimerStep, BeginWait, WaitCancelled, WaitTimesOut,
     ActivateAfterDelay, CheckBeforeWait, AutoStop, NoMotionExpires, BoundaryReached,
     Continue, Runs, sensorVars, timerVars
<1>2. target[t] = Nobody /\ at[t] # "idle"
  BY <1>1 DEF OneClientInv, PlacesOK
<1>3. CASE WaitCancelled(k, g)
  <2>1. MovesOnly(t, <<>>)
    BY <1>1, <1>3 DEF WaitCancelled, MovesOnly, Types, ThreadsOK, ThreadsTypeOK
  <2> HIDE DEF t
  <2> QED BY <1>1, <1>2, <2>1, NotWinding, PlainMove
<1>4. CASE WaitTimesOut(k, g)
  <2>1. MovesOnly(t, todo[t])
    BY <1>1, <1>4 DEF WaitTimesOut, MovesOnly, Types, ThreadsOK, ThreadsTypeOK
  <2> HIDE DEF t
  <2> QED BY <1>1, <1>2, <2>1, PlainMove
<1>5. ASSUME NEW program,
             Continue(t, program) \/ Leave(t, "wait", program) \/ Leave(t, "deliver", program),
             t \in SessionThread => ~Winding(program)
      PROVE  NoMotionInv'
  <2>1. MovesOnly(t, program)
    BY <1>1, <1>5, Moves
  <2> HIDE DEF t
  <2> QED BY <1>1, <1>2, <1>5, <2>1, PlainMove
<1>6. ASSUME at[t] = "run", todo[t] # <<>>, t \in SessionThread,
             Head(todo[t]).do \notin {"cancel", "invalidate"}
      PROVE  /\ ~Winding(Tail(todo[t])) /\ ~Winding(<<>>)
             /\ ~Winding(<<Cancel("noMotion"), Cancel("window")>> \o GoDown)
             /\ Head(todo[t]).do = "activate" => ~Winding(Activate \o Tail(todo[t]))
             /\ Head(todo[t]).do \notin {"expire", "boundary"}
  BY <1>6, SessionHeads, TailsOfOthers, NotWinding, NewPrograms
     DEF NoMotionOps, CancelsNoMotion, OneClientInv
<1> USE DEF Runs
<1>7. CASE BeginWait(k, g)
  BY <1>5, <1>6, <1>7 DEF BeginWait
<1>8. CASE ActivateAfterDelay(k, g)
  <2>1. PICK program : /\ program \in {<<>>, Tail(todo[t]), Activate \o Tail(todo[t])}
                       /\ Continue(t, program)
    BY <1>8 DEF ActivateAfterDelay
  <2> QED BY <1>5, <1>6, <1>8, <2>1 DEF ActivateAfterDelay
<1>9. CASE CheckBeforeWait(k, g)
  <2>1. PICK program : program \in {<<>>, Tail(todo[t])} /\ Continue(t, program)
    BY <1>9 DEF CheckBeforeWait
  <2> QED BY <1>5, <1>6, <1>9, <2>1 DEF CheckBeforeWait
<1>10. CASE AutoStop(k, g)
  <2>1. PICK program :
           /\ program \in {<<>>, <<Cancel("noMotion"), Cancel("window")>> \o GoDown}
           /\ Continue(t, program)
    BY <1>10 DEF AutoStop
  <2> QED BY <1>5, <1>6, <1>10, <2>1 DEF AutoStop
<1>11. CASE NoMotionExpires(k, g)
  <2>1. \E program : Continue(t, program) \/ Leave(t, "deliver", program)
    BY <1>11 DEF NoMotionExpires
  <2> QED BY <1>5, <1>6, <1>11, <2>1 DEF NoMotionExpires
<1>12. CASE BoundaryReached(k, g)
  <2>1. \E program : Continue(t, program)
    BY <1>12 DEF BoundaryReached
  <2> QED BY <1>5, <1>6, <1>12, <2>1 DEF BoundaryReached
<1> QED BY <1>3, <1>4, <1>7, <1>8, <1>9, <1>10, <1>11, <1>12 DEF TimerStep

LEMMA CallKeepsNoMotion ==
    ASSUME SingleClient, NoInjection, Types, OneClientInv, NoMotionInv, ClientCall
    PROVE  NoMotionInv'
<1> USE DEF OneClientInv
<1>1. ASSUME NEW t \in ClientThreads, NEW program, MovesOnly(t, program), target' = target,
             target[t] = Nobody, UNCHANGED <<state, handle>>, ~Winding(program)
      PROVE  NoMotionInv'
  <2>1. t \in Thread /\ t \in SessionThread
    BY Roles, SessionThreads
  <2>2. \A g \in 1..MaxGen : target'[t] # NoMotionThread(g)
    BY <1>1, NoMotionThreads
  <2> QED BY <1>1, <2>1, <2>2, MoveKeepsNoMotion DEF Winding
<1>2. ASSUME UNCHANGED <<at, todo, target, handle, state>> PROVE NoMotionInv'
  <2>1. NoMotionFrame
    BY <1>2 DEF NoMotionFrame
  <2> QED BY <2>1, NoMotionFrameKeeps
<1>3. ASSUME NEW t \in Thread, Open(t) \/ SetActiveWindows(t) PROVE NoMotionInv'
  BY <1>2, <1>3, CallMoves DEF Open, SetActiveWindows, timerVars
<1>4. ASSUME NEW t \in Thread, NEW cfg \in Configs, Start(t, cfg) PROVE NoMotionInv'
  <2>1. cfg \in StartConfig /\ gen["lifecycle"] + 1 \in 1..MaxGen
    BY <1>4, ConfigAssumption, Bounds DEF Start, Types, TimersTypeOK, Kind
  <2>2. PICK g \in 1..MaxGen : g = gen["lifecycle"] + 1
    BY <2>1
  <2>3. PICK program : program = StartProgram(cfg, g)
    OBVIOUS
  <2>4. ~Winding(program)
    BY <2>1, <2>3, NewPrograms
  <2>5. t \in ClientThreads /\ MovesOnly(t, program) /\ target' = target
        /\ UNCHANGED <<state, handle>>
    BY <1>4, <2>2, <2>3, CallMoves DEF Start
  <2>6. target[t] = Nobody
    BY <1>4, Callers DEF Start
  <2> QED BY <1>1, <2>4, <2>5, <2>6
<1>5. ASSUME NEW t \in Thread, Stop(t) \/ Close(t) PROVE NoMotionInv'
  <2>1. PICK program : program \in {StopProgram, ReleaseController} /\ MovesOnly(t, program)
    BY <1>5, CallMoves
  <2>2. t \in ClientThreads /\ target' = target
    BY <1>5, CallMoves
  <2>3. target[t] = Nobody /\ UNCHANGED <<state, handle>>
    BY <1>5, Callers DEF Stop, Close, sensorVars, timerVars
  <2>4. ~Winding(program)
    BY <2>1, NewPrograms
  <2> QED BY <1>1, <2>1, <2>2, <2>3, <2>4
<1>6. ASSUME NEW l \in Listeners, RegisterEventListener(l) \/ UnregisterEventListener(l)
      PROVE  NoMotionInv'
  BY <1>2, <1>6, ListenerCalls DEF timerVars
<1>7. ~(\E t \in InjectThreads : InjectMotionEvent(t))
  BY DEF NoInjection
<1> QED BY <1>3, <1>4, <1>5, <1>6, <1>7 DEF ClientCall

LEMMA InitNoMotion == ASSUME SingleClient, Init PROVE NoMotionInv
<1>1. \A g \in 1..MaxGen : at[NoMotionThread(g)] = "idle" /\ NoMotionThread(g) # Nobody
  BY NoMotionThreads DEF Init
<1>2. \A t \in Thread : target[t] = Nobody /\ todo[t] = <<>>
  BY DEF Init
<1>3. WindingUp
  BY <1>2, SessionThreads, NotWinding DEF WindingUp, Winding
<1> QED BY <1>1, <1>2, <1>3 DEF NoMotionInv, NoMotionWithinReach, NoMotionJoins, NoMotionIdle

LEMMA NextNoMotion ==
    ASSUME SingleClient, NoInjection, Types, TimerInv, OneClientInv, NoMotionInv, [Next]_vars
    PROVE  NoMotionInv'
<1>1. CASE ClientDies \/ DeathNotice
  BY <1>1 DEF ClientDies, DeathNotice, SingleClient
<1>2. CASE Rest \/ UNCHANGED vars
  <2>1. UNCHANGED <<at, todo, target, handle, state>>
    BY <1>2 DEF Rest, vars, threadVars, sensorVars, timerVars
  <2>2. NoMotionFrame
    BY <2>1 DEF NoMotionFrame
  <2> QED BY <2>2, NoMotionFrameKeeps
<1> QED BY <1>1, <1>2, CallKeepsNoMotion, StepKeepsNoMotion, TimerStepKeepsNoMotion DEF Next

\* startNoMotionTimerLocked and the cancels of its thread, whatever happens in
\* their joins, leave at most the thread of the handle at work, in a session
\* that is active.
THEOREM NoMotionInvariant == SingleClient /\ NoInjection => (Spec => []NoMotionInv)
<1> SUFFICES ASSUME SingleClient, NoInjection PROVE Spec => []NoMotionInv
  OBVIOUS
<1>1. Init => NoMotionInv
  BY InitNoMotion
<1>2. Types /\ TimerInv /\ OneClientInv /\ NoMotionInv /\ [Next]_vars => NoMotionInv'
  BY NextNoMotion
<1> QED BY <1>1, <1>2, TypesInvariant, TimerInvariant, OneClientInvariant, PTL DEF Spec

-----------------------------------------------------------------------------
(* The events of a session.                                                 *)

\* Only inactivity timers deliver events.
LEMMA Deliverers ==
    ASSUME SingleClient, NoInjection, Types, OneClientInv, NEW t \in Thread, at[t] = "deliver"
    PROVE  \E g \in 1..MaxGen : t = NoMotionThread(g)
<1>1. todo[t] # <<>> /\ Head(todo[t]).do = "record"
  BY DEF Types, ThreadsOK, DeliveryIsRecorded
<1>2. t \notin SessionThread
  BY <1>1, SessionHeads DEF OneClientInv
<1>3. \A op \in WindowOp : op.do # "record"
  BY OpValues DEF WindowOp
<1>4. \A g \in 1..MaxGen : t # <<"window", g>>
  BY <1>1, <1>3, HeadTailProperties DEF OneClientInv, OtherPrograms
<1> QED BY <1>2, <1>4, Roles DEF SessionThread, LifecycleThread, NoMotionThread, Kind,
     NoInjection

\* stop(), the automatic stop and close() join the inactivity timer, and with
\* it the listeners' onEvent it is calling, before the state leaves STARTED,
\* and nothing starts another until the next session has started.
THEOREM NoEventsAfterStop == SingleClient /\ NoInjection => (Spec => []NoEventAfterStop)
<1> SUFFICES ASSUME SingleClient, NoInjection PROVE Spec => []NoEventAfterStop
  OBVIOUS
<1>1. Types /\ OneClientInv /\ NoMotionInv => NoEventAfterStop
  <2> SUFFICES ASSUME Types, OneClientInv, NoMotionInv, state # "STARTED",
                      NEW t \in TimerThreads, at[t] = "deliver"
               PROVE  FALSE
    BY DEF NoEventAfterStop
  <2>1. t \in Thread
    BY DEF Thread
  <2> QED BY <2>1, Deliverers DEF NoMotionInv, NoMotionIdle
<1> QED BY <1>1, TypesInvariant, OneClientInvariant, NoMotionInvariant, PTL

\* The stamps of the events that are under way or recorded are of the current
\* session.
EventsOfSession ==
    /\ resetAt <= stamps
    /\ lastEvent # 0 => lastEvent > resetAt
    /\ \A t \in Thread : at[t] = "deliver" => Head(todo[t]).stamp > resetAt

\* No delivery begins.
NoNewDelivery ==
    \A u \in Thread : at'[u] = "deliver" => at[u] = "deliver" /\ todo'[u] = todo[u]

LEMMA StepsDeliver ==
    ASSUME Types, NEW t \in Thread, Step(t), ~InjectLocked(t)
    PROVE  NoNewDelivery
<1> USE DEF NoNewDelivery
<1>0. at \in [Thread -> Place] /\ todo \in [Thread -> Seq(Op)]
  BY DEF Types, ThreadsOK, ThreadsTypeOK
<1>1. ASSUME NEW program, Continue(t, program) PROVE NoNewDelivery
  BY <1>0, <1>1 DEF Continue
<1>2. ASSUME NEW program, NEW pc, pc # "deliver", Leave(t, pc, program) PROVE NoNewDelivery
  BY <1>0, <1>2 DEF Leave
<1>3. ASSUME NEW program, CallOut(t, program) PROVE NoNewDelivery
  BY <1>1, <1>2, <1>3 DEF CallOut
<1>4. ASSUME NEW k, NEW program, CancelThread(t, k, program) PROVE NoNewDelivery
  BY <1>1, <1>2, <1>4 DEF CancelThread
<1>5. ASSUME NEW k, NEW g, NEW program, NEW rest, Spawn(t, k, g, "begin", program, rest)
      PROVE  NoNewDelivery
  BY <1>0, <1>5 DEF Spawn
<1>6. CASE ChangeState(t) \/ UpdateActiveWindow(t) \/ EndSessionOfTheDead(t) \/ Release(t)
  BY <1>1, <1>3, <1>6 DEF ChangeState, UpdateActiveWindow, EndSessionOfTheDead, Release
<1>7. CASE CancelTimer(t) \/ InvalidateTimer(t)
  BY <1>4, <1>7 DEF CancelTimer, InvalidateTimer
<1>8. CASE ArmLifecycleTimer(t) \/ ArmNoMotionTimer(t) \/ ArmWindowScheduler(t)
  BY <1>1, <1>5, <1>8 DEF ArmLifecycleTimer, ArmNoMotionTimer, ArmWindowScheduler
<1>9. CASE ReturnToCallback(t)
  BY <1>2, <1>9 DEF ReturnToCallback
<1>10. CASE TakeMutex(t) \/ RecordEvent(t) \/ \E l \in Listeners : OnEvent(t, l)
  BY <1>0, <1>10 DEF TakeMutex, RecordEvent, OnEvent
<1> QED BY <1>6, <1>7, <1>8, <1>9, <1>10 DEF Step

LEMMA TimerStepsDeliver ==
    ASSUME Types, NEW k \in Kind, NEW g \in 1..MaxGen, TimerStep(k, g), ~NoMotionExpires(k, g)
    PROVE  NoNewDelivery
<1> USE DEF NoNewDelivery
<1> DEFINE t == <<k, g>>
<1>0. at \in [Thread -> Place] /\ todo \in [Thread -> Seq(Op)] /\ t \in Thread
  BY TimerThreadsAreThreads DEF Types, ThreadsOK, ThreadsTypeOK
<1> HIDE DEF t
<1>1. ASSUME NEW program, Continue(t, program) PROVE NoNewDelivery
  BY <1>0, <1>1 DEF Continue
<1>2. ASSUME NEW program, Leave(t, "wait", program) PROVE NoNewDelivery
  BY <1>0, <1>2 DEF Leave
<1> USE DEF t
<1>3. CASE BeginWait(k, g)
  BY <1>2, <1>3 DEF BeginWait
<1>4. CASE WaitCancelled(k, g) \/ WaitTimesOut(k, g)
  BY <1>0, <1>4 DEF WaitCancelled, WaitTimesOut
<1>5. CASE ActivateAfterDelay(k, g) \/ CheckBeforeWait(k, g) \/ AutoStop(k, g)
           \/ BoundaryReached(k, g)
  BY <1>1, <1>5 DEF ActivateAfterDelay, CheckBeforeWait, AutoStop, BoundaryReached
<1> QED BY <1>3, <1>4, <1>5 DEF TimerStep

LEMMA NextEventsOfSession ==
    ASSUME SingleClient, NoInjection, Types, OneClientInv, NoMotionInv, EventsOfSession,
           [Next]_vars
    PROVE  EventsOfSession'
<1>0. stamps \in Nat /\ resetAt \in Nat
  BY DEF Types, WorldTypeOK
<1>1. ASSUME NoNewDelivery, UNCHANGED <<stamps, resetAt>>,
             lastEvent' = lastEvent \/ lastEvent' > resetAt
      PROVE  EventsOfSession'
  BY <1>0, <1>1 DEF EventsOfSession, NoNewDelivery
<1>2. ASSUME UNCHANGED <<at, todo>> PROVE NoNewDelivery
  BY <1>2 DEF NoNewDelivery
<1>3. ASSUME NEW t \in Thread, Step(t) PROVE EventsOfSession'
  <2>1. ~InjectLocked(t)
    <3>1. t \in SessionThread \/ (t \notin InjectThreads /\ OtherPrograms)
      BY DEF NoInjection, OneClientInv
    <3>2. ASSUME todo[t] # <<>>, Head(todo[t]).do = "inject", t \notin SessionThread
          PROVE  FALSE
      <4>1. \A op \in NoMotionOp \cup WindowOp : op.do # "inject"
        BY OpValues DEF NoMotionOp, WindowOp
      <4>2. \A g \in 1..MaxGen : t # <<"noMotion", g>> /\ t # <<"window", g>>
        BY <3>2, <4>1, HeadTailProperties DEF OneClientInv, OtherPrograms
      <4> QED BY <3>2, <4>2, Roles DEF SessionThread, LifecycleThread, Kind, NoInjection
    <3> QED BY <3>2, SessionHeads DEF InjectLocked, Runs, OneClientInv
  <2>2. NoNewDelivery
    BY <1>3, <2>1, StepsDeliver
  <2>3. UNCHANGED <<stamps, resetAt>>
    BY <1>3 DEF Step, ChangeState, CancelTimer, InvalidateTimer, ArmLifecycleTimer,
       ArmNoMotionTimer, ArmWindowScheduler, UpdateActiveWindow, InjectLocked,
       EndSessionOfTheDead, Release, ReturnToCallback, TakeMutex, RecordEvent, OnEvent,
       worldVars
  <2>4. lastEvent' = lastEvent \/ RecordEvent(t)
    BY <1>3 DEF Step, ChangeState, CancelTimer, InvalidateTimer, ArmLifecycleTimer,
       ArmNoMotionTimer, ArmWindowScheduler, UpdateActiveWindow, InjectLocked,
       EndSessionOfTheDead, Release, ReturnToCallback, TakeMutex, OnEvent, sensorVars
  <2>5. RecordEvent(t) => lastEvent' = lastEvent \/ lastEvent' > resetAt
    BY DEF RecordEvent, EventsOfSession
  <2> QED BY <1>1, <2>2, <2>3, <2>4, <2>5
<1>4. ASSUME NEW k \in Kind, NEW g \in 1..MaxGen, NoMotionExpires(k, g)
      PROVE  EventsOfSession'
  <2> DEFINE t == <<k, g>>
  <2>1. t \in Thread /\ at \in [Thread -> Place] /\ todo \in [Thread -> Seq(Op)]
    BY TimerThreadsAreThreads DEF Types, ThreadsOK, ThreadsTypeOK
  <2>2. UNCHANGED <<resetAt, lastEvent>>
    BY <1>4 DEF NoMotionExpires, sensorVars
  <2>3. /\ stamps' \in {stamps, stamps + 1}
        /\ \/ stamps' = stamps /\ Continue(t, <<>>)
           \/ stamps' = stamps + 1 /\ Leave(t, "deliver", <<Record(stamps + 1)>>)
    BY <1>4 DEF NoMotionExpires
  <2>4. Head(<<Record(stamps + 1)>>).stamp = stamps + 1
    BY DEF Record
  <2> HIDE DEF t
  <2>5. ASSUME NEW u \in Thread, at'[u] = "deliver" PROVE Head(todo'[u]).stamp > resetAt
    <3>1. CASE u = t
      BY <1>0, <2>1, <2>3, <2>4, <2>5, <3>1 DEF Continue, Leave, EventsOfSession
    <3>2. CASE u # t
      BY <2>1, <2>3, <2>5, <3>2 DEF Continue, Leave, EventsOfSession
    <3> QED BY <3>1, <3>2
  <2> QED BY <1>0, <2>2, <2>3, <2>5 DEF EventsOfSession
<1>5. ASSUME NEW k \in Kind, NEW g \in 1..MaxGen, TimerStep(k, g), ~NoMotionExpires(k, g)
      PROVE  EventsOfSession'
  <2>1. UNCHANGED <<stamps, resetAt, lastEvent>>
    BY <1>5 DEF TimerStep, BeginWait, WaitCancelled, WaitTimesOut, ActivateAfterDelay,
       CheckBeforeWait, AutoStop, BoundaryReached, sensorVars, worldVars
  <2> QED BY <1>1, <1>5, <2>1, TimerStepsDeliver
<1>6. ASSUME NEW t \in Thread, NEW cfg \in Configs, Start(t, cfg) PROVE EventsOfSession'
  <2>1. state = "STOPPED" /\ lastEvent' = 0 /\ resetAt' = stamps /\ stamps' = stamps
        /\ at' = [at EXCEPT ![t] = "run"]
    BY <1>6 DEF Start, Enter
  <2>2. \A u \in Thread : at'[u] # "deliver"
    <3>1. \A u \in Thread : at[u] # "deliver"
      BY <2>1, Deliverers DEF NoMotionInv, NoMotionIdle
    <3> QED BY <2>1, <3>1 DEF Types, ThreadsOK, ThreadsTypeOK
  <2> QED BY <1>0, <2>1, <2>2 DEF EventsOfSession
<1>7. CASE ClientCall
  <2>1. ASSUME NEW t \in Thread, NEW program, Enter(t, program) PROVE NoNewDelivery
    BY <2>1 DEF Enter, NoNewDelivery, Types, ThreadsOK, ThreadsTypeOK
  <2>2. ASSUME NEW t \in Thread, Stop(t) \/ Close(t) PROVE EventsOfSession'
    BY <1>1, <2>1, <2>2 DEF Stop, Close, sensorVars, worldVars
  <2>3. ASSUME NEW t \in Thread, Open(t) \/ SetActiveWindows(t) PROVE EventsOfSession'
    BY <1>1, <1>2, <2>3 DEF Open, SetActiveWindows, threadVars, worldVars
  <2>4. ASSUME NEW l \in Listeners, RegisterEventListener(l) \/ UnregisterEventListener(l)
        PROVE  EventsOfSession'
    BY <1>1, <1>2, <2>4 DEF RegisterEventListener, UnregisterEventListener, threadVars,
       worldVars
  <2>5. ~(\E t \in InjectThreads : InjectMotionEvent(t))
    BY DEF NoInjection
  <2> QED BY <1>6, <1>7, <2>2, <2>3, <2>4, <2>5 DEF ClientCall
<1>8. CASE ClientDies \/ DeathNotice
  BY <1>8 DEF ClientDies, DeathNotice, SingleClient
<1>9. CASE Rest \/ UNCHANGED vars
  BY <1>1, <1>2, <1>9 DEF Rest, vars, threadVars, sensorVars, worldVars
<1> QED BY <1>3, <1>4, <1>5, <1>7, <1>8, <1>9 DEF Next

\* The time stamp of an inactivity event is taken long before it is recorded,
\* with the mutex given up in between for the listeners; where the inactivity
\* timer is the only source of events, the event still belongs to the session
\* that start() reset m_lastEventInfo for, because stop() joins the timer.
THEOREM InactivityEventsOfSession == SingleClient /\ NoInjection => (Spec => []LastEventOfSession)
<1> SUFFICES ASSUME SingleClient, NoInjection PROVE Spec => []LastEventOfSession
  OBVIOUS
<1>1. Init => EventsOfSession
  BY DEF Init, EventsOfSession
<1>2. Types /\ OneClientInv /\ NoMotionInv /\ EventsOfSession /\ [Next]_vars
        => EventsOfSession'
  BY NextEventsOfSession
<1>3. EventsOfSession => LastEventOfSession
  BY DEF EventsOfSession, LastEventOfSession
<1> QED BY <1>1, <1>2, <1>3, TypesInvariant, OneClientInvariant, NoMotionInvariant, PTL
     DEF Spec

-----------------------------------------------------------------------------
(* Events on their way, whoever calls and whatever is injected.             *)

\* The operations that have no event, or one with a stamp of S
StampedFrom(S) == {op \in Op : op.do \in {"inject", "record"} => op.stamp \in S}

\* Every event on its way has a stamp of S.
AllStampedFrom(S) == \A t \in Thread : todo[t] \in Seq(StampedFrom(S))

LEMMA StampedOps ==
    ASSUME NEW S
    PROVE  /\ \A s \in State : Change(s) \in StampedFrom(S)
           /\ \A k \in Kind : Cancel(k) \in StampedFrom(S) /\ Invalidate(k) \in StampedFrom(S)
           /\ \A n \in S \cap Nat : Inject(n) \in StampedFrom(S) /\ Record(n) \in StampedFrom(S)
           /\ \A g \in 1..MaxGen, d \in BOOLEAN, s \in BOOLEAN :
                 ArmLifecycle(g, d, s) \in StampedFrom(S)
           /\ \A name \in SimpleNames : Simple(name) \in StampedFrom(S)
BY OpTypes DEF StampedFrom, Change, Cancel, Invalidate, Inject, Record, ArmLifecycle, Simple,
   SimpleNames

LEMMA StampedPrograms ==
    ASSUME NEW S
    PROVE  /\ <<>> \in Seq(StampedFrom(S))
           /\ \A a \in StampedFrom(S) : <<a>> \in Seq(StampedFrom(S))
           /\ \A a \in StampedFrom(S), b \in StampedFrom(S) : <<a, b>> \in Seq(StampedFrom(S))
           /\ \A a \in StampedFrom(S), b \in StampedFrom(S), c \in StampedFrom(S) :
                 <<a, b, c>> \in Seq(StampedFrom(S))
           /\ \A p \in Seq(StampedFrom(S)), q \in Seq(StampedFrom(S)) :
                 p \o q \in Seq(StampedFrom(S))
           /\ \A p \in Seq(StampedFrom(S)) :
                 p # <<>> => /\ Head(p) \in StampedFrom(S)
                             /\ Tail(p) \in Seq(StampedFrom(S))
BY EmptySeq, ConcatProperties, HeadTailProperties

\* The programs of calls and timers have no events.
LEMMA CodeHasNoStamps ==
    ASSUME NEW S
    PROVE  /\ StartNoMotionTimer \in Seq(StampedFrom(S))
           /\ ScheduleActiveWindow \in Seq(StampedFrom(S))
           /\ ReleaseController \in Seq(StampedFrom(S))
           /\ GoDown \in Seq(StampedFrom(S))
           /\ Activate \in Seq(StampedFrom(S))
           /\ StopProgram \in Seq(StampedFrom(S))
           /\ BinderDiedProgram \in Seq(StampedFrom(S))
           /\ NoMotionProgram \in Seq(StampedFrom(S))
           /\ WindowProgram \in Seq(StampedFrom(S))
           /\ \A d \in BOOLEAN, s \in BOOLEAN :
                 LifecycleProgram(d, s) \in Seq(StampedFrom(S))
<1> DEFINE P == Seq(StampedFrom(S))
<1>1. StartNoMotionTimer \in P /\ ScheduleActiveWindow \in P
  BY StampedOps, StampedPrograms
     DEF StartNoMotionTimer, ScheduleActiveWindow, Kind, SimpleNames
<1>2. InvalidateTimers \in P
  BY StampedOps, StampedPrograms DEF InvalidateTimers, Kind
<1>3. ReleaseController \in P
  BY <1>2, StampedOps, StampedPrograms DEF ReleaseController, SimpleNames
<1>4. GoDown \in P
  BY StampedOps, StampedPrograms DEF GoDown, State
<1>5. Activate \in P
  BY <1>1, StampedOps, StampedPrograms DEF Activate, State, SimpleNames
<1>6. StopProgram \in P
  BY <1>2, <1>4, StampedPrograms DEF StopProgram
<1>7. BinderDiedProgram \in P
  BY <1>2, <1>3, StampedOps, StampedPrograms DEF BinderDiedProgram, SimpleNames
<1>8. NoMotionProgram \in P /\ WindowProgram \in P
  BY StampedOps, StampedPrograms DEF NoMotionProgram, WindowProgram, SimpleNames
<1>9. \A d \in BOOLEAN, s \in BOOLEAN : LifecycleProgram(d, s) \in P
  BY StampedOps, StampedPrograms DEF LifecycleProgram, SimpleNames
<1> QED BY <1>1, <1>3, <1>4, <1>5, <1>6, <1>7, <1>8, <1>9

LEMMA StartHasNoStamps ==
    ASSUME NEW S, NEW cfg \in StartConfig, NEW g \in 1..MaxGen
    PROVE  StartProgram(cfg, g) \in Seq(StampedFrom(S))
<1> DEFINE P == Seq(StampedFrom(S))
<1>1. \A d \in BOOLEAN, s \in BOOLEAN : StartLifecycleTimer(g, d, s) \in P
  BY StampedOps, StampedPrograms DEF StartLifecycleTimer, Kind
<1>2. StartLifecycleTimer(g, TRUE, cfg.activeStop) \in P
  BY <1>1 DEF StartConfig
<1>3. StartLifecycleTimer(g, FALSE, TRUE) \in P
  BY <1>1
<1>4. <<Change("STARTING")>> \in P
  BY StampedOps, StampedPrograms DEF State
<1> QED BY <1>2, <1>3, <1>4, CodeHasNoStamps, StampedPrograms DEF StartProgram

\* The moves of a thread keep to stamps of S when what it goes on with does.
LEMMA MovesKeepStamps ==
    ASSUME Types, NEW S, AllStampedFrom(S), NEW t \in Thread,
           NEW program \in Seq(StampedFrom(S)),
           \/ Continue(t, program)
           \/ \E pc : Leave(t, pc, program)
           \/ CallOut(t, program)
           \/ \E k : CancelThread(t, k, program)
           \/ Enter(t, program)
    PROVE  AllStampedFrom(S)'
<1>0. todo \in [Thread -> Seq(Op)]
  BY DEF Types, ThreadsOK, ThreadsTypeOK
<1>1. CASE Enter(t, program)
  <2>1. program \o <<Simple("return")>> \o todo[t] \in Seq(StampedFrom(S))
    BY StampedOps, StampedPrograms DEF AllStampedFrom, SimpleNames
  <2> QED BY <1>0, <1>1, <2>1 DEF Enter, AllStampedFrom
<1>2. CASE todo' = [todo EXCEPT ![t] = program]
  BY <1>0, <1>2 DEF AllStampedFrom
<1> QED BY <1>1, <1>2 DEF Continue, Leave, CallOut, CancelThread

LEMMA SpawnKeepsStamps ==
    ASSUME Types, NEW S, AllStampedFrom(S), NEW t \in Thread, NEW k, NEW g, NEW pc,
           NEW program \in Seq(StampedFrom(S)), NEW rest \in Seq(StampedFrom(S)),
           Spawn(t, k, g, pc, program, rest)
    PROVE  AllStampedFrom(S)'
BY DEF Types, ThreadsOK, ThreadsTypeOK, Spawn, AllStampedFrom

LEMMA StepKeepsStamps ==
    ASSUME Types, NEW S, AllStampedFrom(S), NEW t \in Thread, Step(t)
    PROVE  AllStampedFrom(S)' /\ (lastEvent' = lastEvent \/ lastEvent' \in S)
<1> USE StampedPrograms, CodeHasNoStamps
<1>1. ASSUME todo[t] # <<>>
      PROVE  Head(todo[t]) \in StampedFrom(S) /\ Tail(todo[t]) \in Seq(StampedFrom(S))
  BY <1>1 DEF AllStampedFrom
<1>2. lastEvent' = lastEvent \/ lastEvent' \in S
  <2>1. CASE RecordEvent(t)
    <3>1. todo[t] # <<>> /\ Head(todo[t]).do = "record"
      BY <2>1 DEF RecordEvent, Types, ThreadsOK, DeliveryIsRecorded
    <3>2. Head(todo[t]).stamp \in S
      BY <1>1, <3>1 DEF StampedFrom
    <3> QED BY <2>1, <3>2 DEF RecordEvent
  <2>2. CASE ~RecordEvent(t)
    BY <2>2 DEF Step, ChangeState, CancelTimer, InvalidateTimer, ArmLifecycleTimer,
       ArmNoMotionTimer, ArmWindowScheduler, UpdateActiveWindow, InjectLocked,
       EndSessionOfTheDead, Release, ReturnToCallback, TakeMutex, OnEvent, sensorVars
  <2> QED BY <2>1, <2>2
<1> SUFFICES AllStampedFrom(S)'
  BY <1>2
<1>3. CASE ChangeState(t) \/ CancelTimer(t) \/ InvalidateTimer(t) \/ Release(t)
           \/ ReturnToCallback(t)
  BY <1>1, <1>3, MovesKeepStamps DEF ChangeState, CancelTimer, InvalidateTimer, Release,
     ReturnToCallback, Runs
<1>4. CASE ArmLifecycleTimer(t)
  <2>1. LifecycleProgram(Head(todo[t]).delayed, Head(todo[t]).stops) \in Seq(StampedFrom(S))
    BY <1>4, RunsType, OpFields DEF ArmLifecycleTimer, Types
  <2> QED BY <1>1, <1>4, <2>1, SpawnKeepsStamps DEF ArmLifecycleTimer, Runs
<1>5. CASE ArmNoMotionTimer(t) \/ ArmWindowScheduler(t)
  BY <1>1, <1>5, MovesKeepStamps, SpawnKeepsStamps
     DEF ArmNoMotionTimer, ArmWindowScheduler, Runs
<1>6. CASE UpdateActiveWindow(t)
  BY <1>1, <1>6, MovesKeepStamps DEF UpdateActiveWindow, Runs
<1>7. CASE InjectLocked(t)
  <2>1. Record(Head(todo[t]).stamp) \in StampedFrom(S)
    <3>1. Head(todo[t]).stamp \in S
      BY <1>1, <1>7 DEF InjectLocked, Runs, StampedFrom
    <3>2. Head(todo[t]).stamp \in Nat
      BY <1>7, RunsType, OpFields DEF InjectLocked, Types
    <3> QED BY <3>1, <3>2, StampedOps
  <2> QED BY <1>7, <2>1, MovesKeepStamps DEF InjectLocked
<1>8. CASE EndSessionOfTheDead(t)
  <2>1. <<Change("STOPPED")>> \in Seq(StampedFrom(S))
    BY StampedOps DEF State
  <2> QED BY <1>1, <1>8, <2>1, MovesKeepStamps DEF EndSessionOfTheDead, Runs
<1>9. CASE TakeMutex(t) \/ \E l \in Listeners : OnEvent(t, l)
  BY <1>9 DEF TakeMutex, OnEvent, AllStampedFrom
<1>10. CASE RecordEvent(t)
  <2>1. todo' = [todo EXCEPT ![t] = <<>>]
    BY <1>10 DEF RecordEvent
  <2> QED BY <2>1 DEF AllStampedFrom, Types, ThreadsOK, ThreadsTypeOK
<1> QED BY <1>3, <1>4, <1>5, <1>6, <1>7, <1>8, <1>9, <1>10 DEF Step

LEMMA TimerStepKeepsStamps ==
    ASSUME Types, NEW S, \A n \in Nat : n > stamps => n \in S, AllStampedFrom(S),
           NEW k \in Kind, NEW g \in 1..MaxGen, TimerStep(k, g)
    PROVE  AllStampedFrom(S)' /\ lastEvent' = lastEvent
<1> DEFINE t == <<k, g>>
<1> USE StampedPrograms, CodeHasNoStamps
<1>0. t \in Thread
  BY TimerThreadsAreThreads
<1>1. ASSUME todo[t] # <<>> PROVE Tail(todo[t]) \in Seq(StampedFrom(S))
  BY <1>0, <1>1 DEF AllStampedFrom
<1>2. lastEvent' = lastEvent
  BY DEF TimerStep, BeginWait, WaitCancelled, WaitTimesOut, ActivateAfterDelay,
     CheckBeforeWait, AutoStop, NoMotionExpires, BoundaryReached, sensorVars
<1> SUFFICES AllStampedFrom(S)'
  BY <1>2
<1>3. CASE BeginWait(k, g) \/ ActivateAfterDelay(k, g) \/ CheckBeforeWait(k, g)
  BY <1>0, <1>1, <1>3, MovesKeepStamps DEF BeginWait, ActivateAfterDelay, CheckBeforeWait, Runs
<1>4. CASE WaitCancelled(k, g) \/ WaitTimesOut(k, g)
  BY <1>0, <1>4 DEF WaitCancelled, WaitTimesOut, AllStampedFrom, Types, ThreadsOK,
     ThreadsTypeOK
<1>5. CASE AutoStop(k, g)
  <2>1. <<Cancel("noMotion"), Cancel("window")>> \in Seq(StampedFrom(S))
    BY StampedOps DEF Kind
  <2> QED BY <1>0, <1>5, <2>1, MovesKeepStamps DEF AutoStop
<1>6. CASE BoundaryReached(k, g)
  <2>1. <<Simple("update")>> \in Seq(StampedFrom(S))
    BY StampedOps DEF SimpleNames
  <2> QED BY <1>0, <1>6, <2>1, MovesKeepStamps DEF BoundaryReached
<1>7. CASE NoMotionExpires(k, g)
  <2>1. stamps + 1 \in S /\ stamps + 1 \in Nat
    BY DEF Types, WorldTypeOK
  <2>2. <<Record(stamps + 1)>> \in Seq(StampedFrom(S))
    BY <2>1, StampedOps
  <2> QED BY <1>0, <1>7, <2>2, MovesKeepStamps DEF NoMotionExpires
<1> QED BY <1>3, <1>4, <1>5, <1>6, <1>7 DEF TimerStep

\* An event is on its way only if it was before, or has just been stamped.
LEMMA NextKeepsStamps ==
    ASSUME Types, NEW S, \A n \in Nat : n > stamps => n \in S, AllStampedFrom(S), [Next]_vars
    PROVE  AllStampedFrom(S)' /\ (lastEvent' \in {lastEvent, 0} \/ lastEvent' \in S)
<1> USE StampedPrograms, CodeHasNoStamps
<1>1. CASE ClientDies \/ Rest \/ UNCHANGED vars
  BY <1>1 DEF ClientDies, Rest, vars, threadVars, sensorVars, AllStampedFrom
<1>2. CASE DeathNotice
  <2>1. ASSUME NEW t \in DeathThreads, NEW h \in 1..MaxOpens, BinderDied(t, h)
        PROVE  AllStampedFrom(S)' /\ lastEvent' = lastEvent
    <3>1. t \in Thread
      BY DEF Thread, PoolThreads
    <3>2. lastEvent' = lastEvent /\ (todo' = todo \/ Enter(t, BinderDiedProgram))
      BY <2>1 DEF BinderDied, sensorVars
    <3> QED BY <3>1, <3>2, MovesKeepStamps DEF AllStampedFrom
  <2> QED BY <1>2, <2>1 DEF DeathNotice
<1>3. ASSUME NEW t \in Thread, NEW cfg \in Configs, Start(t, cfg)
      PROVE  AllStampedFrom(S)' /\ lastEvent' = 0
  <2>1. cfg \in StartConfig /\ gen["lifecycle"] + 1 \in 1..MaxGen
    BY <1>3, BoundAssumption, ConfigAssumption DEF Start, Types, TimersTypeOK, Kind
  <2>2. StartProgram(cfg, gen["lifecycle"] + 1) \in Seq(StampedFrom(S))
    BY <2>1, StartHasNoStamps
  <2> QED BY <1>3, <2>2, MovesKeepStamps DEF Start
<1>4. ASSUME NEW t \in Thread, Stop(t) \/ Close(t)
      PROVE  AllStampedFrom(S)' /\ lastEvent' = lastEvent
  BY <1>4, MovesKeepStamps DEF Stop, Close, sensorVars
<1>5. ASSUME NEW t \in Thread, Open(t) \/ SetActiveWindows(t)
      PROVE  AllStampedFrom(S)' /\ lastEvent' = lastEvent
  BY <1>5 DEF Open, SetActiveWindows, threadVars, AllStampedFrom
<1>6. ASSUME NEW l \in Listeners, RegisterEventListener(l) \/ UnregisterEventListener(l)
      PROVE  AllStampedFrom(S)' /\ lastEvent' = lastEvent
  BY <1>6 DEF RegisterEventListener, UnregisterEventListener, threadVars, AllStampedFrom
<1>7. ASSUME NEW t \in InjectThreads, InjectMotionEvent(t)
      PROVE  AllStampedFrom(S)' /\ lastEvent' = lastEvent
  <2>1. stamps + 1 \in S /\ stamps + 1 \in Nat
    BY DEF Types, WorldTypeOK
  <2>2. <<Inject(stamps + 1)>> \in Seq(StampedFrom(S))
    BY <2>1, StampedOps
  <2> QED BY <1>7, <2>2 DEF InjectMotionEvent, sensorVars, AllStampedFrom, Types, ThreadsOK,
             ThreadsTypeOK
<1> QED BY <1>1, <1>2, <1>3, <1>4, <1>5, <1>6, <1>7, StepKeepsStamps, TimerStepKeepsStamps
           DEF Next, ClientCall

\* Every event on its way is one of UnderWay.
LEMMA UnderWayIsAll == ASSUME Types PROVE AllStampedFrom(UnderWay)
<1> SUFFICES ASSUME NEW t \in Thread PROVE todo[t] \in Seq(StampedFrom(UnderWay))
  BY DEF AllStampedFrom
<1>1. todo[t] \in Seq(Op)
  BY DEF Types, ThreadsOK, ThreadsTypeOK
<1>2. \A i \in DOMAIN todo[t] : todo[t][i] \in StampedFrom(UnderWay)
  <2> SUFFICES ASSUME NEW i \in DOMAIN todo[t], todo[t][i].do \in {"inject", "record"}
               PROVE  todo[t][i].stamp \in UnderWay
    BY <1>1 DEF StampedFrom
  <2>1. todo[t][i].stamp \in EventsOf(t)
    BY DEF EventsOf
  <2> QED BY <2>1 DEF UnderWay
<1> QED BY <1>1, <1>2, SeqDef

\* Stamps of the clock only grow.
LEMMA StampsGrow ==
    ASSUME Types, [Next]_vars
    PROVE  /\ stamps' \in Nat /\ stamps' >= stamps
           /\ \/ resetAt' = resetAt /\ starts' = starts
              \/ \E t \in Thread, cfg \in Configs : Start(t, cfg)
<1>0. stamps \in Nat
  BY DEF Types, WorldTypeOK
<1>1. ASSUME NEW t \in Thread, Step(t) PROVE UNCHANGED worldVars
  BY <1>1 DEF Step, ChangeState, CancelTimer, InvalidateTimer, ArmLifecycleTimer,
     ArmNoMotionTimer, ArmWindowScheduler, UpdateActiveWindow, InjectLocked,
     EndSessionOfTheDead, Release, ReturnToCallback, TakeMutex, RecordEvent, OnEvent
<1>2. ASSUME NEW k \in Kind, NEW g \in 1..MaxGen, TimerStep(k, g)
      PROVE  stamps' \in {stamps, stamps + 1} /\ UNCHANGED <<resetAt, starts>>
  BY <1>2 DEF TimerStep, BeginWait, WaitCancelled, WaitTimesOut, ActivateAfterDelay,
     CheckBeforeWait, AutoStop, NoMotionExpires, BoundaryReached, worldVars
<1>3. ASSUME NEW t \in Thread, Open(t) \/ Stop(t) \/ Close(t) \/ SetActiveWindows(t)
      PROVE  UNCHANGED <<stamps, resetAt, starts>>
  BY <1>3 DEF Open, Stop, Close, SetActiveWindows, worldVars
<1>4. ASSUME NEW t \in Thread, NEW cfg \in Configs, Start(t, cfg) PROVE stamps' = stamps
  BY <1>4 DEF Start
<1>5. ASSUME NEW l \in Listeners, RegisterEventListener(l) \/ UnregisterEventListener(l)
      PROVE  UNCHANGED <<stamps, resetAt, starts>>
  BY <1>5 DEF RegisterEventListener, UnregisterEventListener, worldVars
<1>6. ASSUME NEW t \in InjectThreads, InjectMotionEvent(t)
      PROVE  stamps' = stamps + 1 /\ UNCHANGED <<resetAt, starts>>
  BY <1>6 DEF InjectMotionEvent
<1>7. CASE ClientDies \/ DeathNotice \/ Rest \/ UNCHANGED vars
  BY <1>0, <1>7 DEF ClientDies, DeathNotice, BinderDied, Rest, vars, worldVars
<1> QED BY <1>0, <1>1, <1>2, <1>3, <1>4, <1>5, <1>6, <1>7 DEF Next, ClientCall, worldVars

\* No event is on its way when a client starts the sensor.
NothingUnderWayAtStart ==
    [][\A t \in Thread, cfg \in Configs : Start(t, cfg) => UnderWay = {}]_vars

\* The stamps after the last start
SinceReset == {n \in Nat : n > resetAt}

StampedSinceReset ==
    /\ resetAt <= stamps
    /\ lastEvent # 0 => lastEvent > resetAt
    /\ AllStampedFrom(SinceReset)

\* What start() cannot wipe out is only what is on its way: with any number of
\* clients, threads and injected motions, with calls from callbacks and deaths,
\* m_lastEventInfo holds an event of the session for which start() last reset
\* it, unless a start() found an event that was still being injected or
\* delivered (which it then does not wait for).
THEOREM LastEventsOfSession == Spec /\ NothingUnderWayAtStart => []LastEventOfSession
<1>1. Init => StampedSinceReset
  <2> SUFFICES ASSUME Init PROVE StampedSinceReset
    OBVIOUS
  <2>1. AllStampedFrom(SinceReset)
    BY StampedPrograms DEF Init, AllStampedFrom
  <2> QED BY <2>1 DEF Init, StampedSinceReset
<1>2. /\ Types /\ StampedSinceReset /\ [Next]_vars
      /\ [\A t \in Thread, cfg \in Configs : Start(t, cfg) => UnderWay = {}]_vars
      => StampedSinceReset'
  <2> SUFFICES ASSUME Types, StampedSinceReset, [Next]_vars,
                      [\A t \in Thread, cfg \in Configs : Start(t, cfg) => UnderWay = {}]_vars
               PROVE  StampedSinceReset'
    OBVIOUS
  <2>0. stamps \in Nat /\ resetAt \in Nat /\ lastEvent \in Nat
    BY DEF Types, WorldTypeOK, SensorTypeOK
  <2>1. ASSUME NEW t \in Thread, NEW cfg \in Configs, Start(t, cfg)
        PROVE  StampedSinceReset'
    <3>1. lastEvent' = 0 /\ resetAt' = stamps /\ stamps' = stamps /\ starts' # starts
      BY <2>1 DEF Start, Types, WorldTypeOK
    <3>2. UnderWay = {}
      BY <2>1, <3>1 DEF vars, worldVars
    <3>3. PICK S : S = {n \in Nat : n > stamps}
      OBVIOUS
    <3>4. AllStampedFrom(S)
      <4>1. AllStampedFrom({})
        BY <3>2, UnderWayIsAll
      <4>2. StampedFrom({}) \subseteq StampedFrom(S)
        BY DEF StampedFrom
      <4> QED BY <4>1, <4>2, SeqDef DEF AllStampedFrom
    <3>5. AllStampedFrom(S)'
      BY <3>3, <3>4, NextKeepsStamps
    <3>6. SinceReset' = S
      BY <3>1, <3>3 DEF SinceReset
    <3> QED BY <2>0, <3>1, <3>5, <3>6 DEF StampedSinceReset, AllStampedFrom
  <2>2. ASSUME ~ \E t \in Thread, cfg \in Configs : Start(t, cfg)
        PROVE  StampedSinceReset'
    <3>1. resetAt' = resetAt /\ stamps' \in Nat /\ stamps' >= stamps
      BY <2>2, StampsGrow
    <3>2. PICK S : S = SinceReset
      OBVIOUS
    <3>3. \A n \in Nat : n > stamps => n \in S
      BY <2>0, <3>2 DEF SinceReset, StampedSinceReset
    <3>4. AllStampedFrom(S)' /\ (lastEvent' \in {lastEvent, 0} \/ lastEvent' \in S)
      BY <3>2, <3>3, NextKeepsStamps DEF StampedSinceReset, AllStampedFrom
    <3>5. SinceReset' = S
      BY <3>1, <3>2 DEF SinceReset
    <3>6. resetAt' <= stamps' /\ (lastEvent' # 0 => lastEvent' > resetAt')
      BY <2>0, <3>1, <3>2, <3>4 DEF SinceReset, StampedSinceReset
    <3> QED BY <3>4, <3>5, <3>6 DEF StampedSinceReset, AllStampedFrom
  <2> QED BY <2>1, <2>2
<1>3. StampedSinceReset => LastEventOfSession
  BY DEF StampedSinceReset, LastEventOfSession
<1> QED BY <1>1, <1>2, <1>3, TypesInvariant, PTL DEF Spec, NothingUnderWayAtStart

=============================================================================
