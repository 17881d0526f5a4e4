---------------------------- MODULE ServiceProofs ----------------------------
(* Theorems about Service, for all files, messages and bounds.              *)
EXTENDS ServiceProperties, WellFoundedInduction, TLAPS

-----------------------------------------------------------------------------
(* The operators.                                                           *)

\* The calls of onControlPlaneMessage that get past the filter.
Acting(m) == {key \in Key : Present(m, key) /\ ~Filtered(m, key)}

\* At most one of the calls for a message gets past the filter, whichever keys
\* the message has.
LEMMA OneCallActs ==
    ASSUME NEW m \in Message, NEW j \in Acting(m), NEW k \in Acting(m)
    PROVE  j = k
  BY DEF Acting, Filtered, Present, Key, Root, NamespacedCommand, PlainCommand

\* A motion command has a key for which one call gets past the filter.
LEMMA SomeCallActs ==
    ASSUME NEW m \in Message, IsMotionCommand(m)
    PROVE  Acting(m) # {}
<1>1. Present(m, NamespacedCommand) \/ Present(m, PlainCommand)
  BY DEF IsMotionCommand, FirstString, Present, Key, Root, NamespacedCommand, PlainCommand
<1>2. CASE Present(m, Root)
  BY <1>2 DEF Acting, Filtered, Present, Key, Root, NamespacedCommand, PlainCommand
<1>3. CASE ~Present(m, Root) /\ Present(m, NamespacedCommand)
  BY <1>3 DEF Acting, Filtered, Present, Key, Root, NamespacedCommand, PlainCommand
<1>4. CASE ~Present(m, Root) /\ ~Present(m, NamespacedCommand)
  BY <1>1, <1>4 DEF Acting, Filtered, Present, Key, Root, NamespacedCommand, PlainCommand
<1> QED BY <1>2, <1>3, <1>4

\* A set of natural numbers that is not empty has a least element.
LEMMA LeastNatural ==
    ASSUME NEW S \in SUBSET Nat, S # {}
    PROVE  \E i \in S : \A j \in S : i <= j
<1> DEFINE Less == {ss \in Nat \X Nat : ss[1] < ss[2]}
<1>1. Less = OpToRel(<, Nat)
  BY DEF OpToRel
<1>2. IsWellFoundedOn(Less, Nat)
  BY <1>1, NatLessThanWellFounded
<1>3. \A i, j \in Nat : <<j, i>> \in Less <=> j < i
  OBVIOUS
<1> HIDE DEF Less
<1>4. \E i \in S : \A j \in S : ~(<<j, i>> \in Less)
  BY <1>2, WFMin
<1>5. PICK i \in S : \A j \in S : ~(<<j, i>> \in Less)
  BY <1>4
<1>6. ASSUME NEW j \in S PROVE i <= j
  <2>1. i \in Nat /\ j \in Nat
    OBVIOUS
  <2>2. ~(j < i)
    BY <1>3, <1>5, <2>1, Zenon
  <2> QED BY <2>1, <2>2
<1> QED
  BY <1>6

\* getMotionSensor gives the first sensor with the id, if there is one.
LEMMA LookupFinds ==
    ASSUME NEW id, NEW list \in Seq(Entry)
    PROVE  LET Named == {i \in DOMAIN list : list[i].id = id}
           IN IF Named # {}
              THEN /\ Lookup(list, id) \in Named /\ Lookup(list, id) \in 1..Len(list)
                   /\ \A j \in Named : Lookup(list, id) <= j
              ELSE Lookup(list, id) = 0
<1> DEFINE Named == {i \in DOMAIN list : list[i].id = id}
<1>1. Named \in SUBSET Nat /\ DOMAIN list = 1..Len(list)
  OBVIOUS
<1>2. CASE Named = {}
  BY <1>2 DEF Lookup
<1>3. CASE Named # {}
  <2>1. \E i \in Named : \A j \in Named : i <= j
    BY <1>1, <1>3, LeastNatural
  <2>2. \E i \in DOMAIN list :
            list[i].id = id /\ \A j \in DOMAIN list : list[j].id = id => i <= j
    BY <2>1
  <2>3. Lookup(list, id) = CHOOSE i \in DOMAIN list :
            list[i].id = id /\ \A j \in DOMAIN list : list[j].id = id => i <= j
    BY <2>2 DEF Lookup
  <2>4. /\ Lookup(list, id) \in DOMAIN list /\ list[Lookup(list, id)].id = id
        /\ \A j \in DOMAIN list : list[j].id = id => Lookup(list, id) <= j
    BY <2>2, <2>3
  <2> QED BY <1>1, <1>3, <2>4
<1> QED BY <1>2, <1>3

-----------------------------------------------------------------------------
(* The inductive invariant.                                                 *)

\* What has been read of the file so far is its beginning, and valid.
ReadPrefix ==
    /\ main = "arguments" => configuration = <<>>
    /\ main = "load" => /\ Len(configuration) <= Len(file)
                        /\ \A i \in DOMAIN configuration :
                               configuration[i] = file[i] /\ ValidEntry(configuration[i])

\* From the constructor of the manager on, it has the whole file.
WholeFile ==
    main \in {"start", "publish", "serve", "stop"} =>
        /\ sensors = file
        /\ \A i \in DOMAIN sensors : ValidEntry(sensors[i])

\* The control plane has all it needs or nothing, and main decides which.
PlaneState ==
    IF main \in {"publish", "serve", "stop"}
    THEN instance /\ manager /\ registered = Key
    ELSE ~instance /\ ~manager /\ registered = {} /\ worker = "idle" /\ inbox = <<>>

\* How far the worker is with a message: before the call that gets past the
\* filter nothing is injected; after it, that call's sensor.
MessageState ==
    IF worker = "idle"
    THEN pending = {} /\ injecting = 0 /\ hits = <<>>
    ELSE /\ inbox # <<>>
         /\ \A key \in pending : Present(Head(inbox), key)
         /\ IF Acting(Head(inbox)) \cap pending # {} \/ Addressed(Head(inbox)) = 0
            THEN injecting = 0 /\ hits = <<>>
            ELSE \/ injecting = Addressed(Head(inbox)) /\ hits = <<>>
                 \/ injecting = 0 /\ hits = <<Addressed(Head(inbox))>>

ServiceInv == TypeOK /\ ReadPrefix /\ WholeFile /\ PlaneState /\ MessageState

\* Addressed is a sensor or 0.
LEMMA AddressedType ==
    ASSUME NEW m, sensors \in Seq(Entry)
    PROVE  Addressed(m) \in 0..Len(sensors)
<1>1. Lookup(sensors, SensorId(FirstId(m.id))) \in 0..Len(sensors)
  BY LookupFinds
<1> QED BY <1>1 DEF Addressed

\* The sensor of a message stays the same while the sensors do.
LEMMA AddressedStable ==
    ASSUME sensors' = sensors, Head(inbox') = Head(inbox)
    PROVE  Addressed(Head(inbox))' = Addressed(Head(inbox))
  BY DEF Addressed

\* Two lists with the same entries are the same.
LEMMA SameEntries ==
    ASSUME NEW a \in Seq(Entry), NEW b \in Seq(Entry), Len(a) = Len(b),
           \A i \in DOMAIN a : a[i] = b[i]
    PROVE  a = b
  OBVIOUS

\* A message that arrives waits behind the one in work.
LEMMA HeadStays ==
    ASSUME NEW q \in Seq(Message), NEW n \in Message, q # <<>>
    PROVE  Head(Append(q, n)) = Head(q) /\ Append(q, n) # <<>>
  OBVIOUS

\* What main has read of its arguments keeps its type.
LEMMA ArgumentTypes ==
    ASSUME ArgumentsTypeOK,
           ReadOption \/ UNCHANGED argumentVars
    PROVE  ArgumentsTypeOK'
<1>1. CASE UNCHANGED argumentVars
  <2>1. arguments' = arguments /\ index' = index /\ path' = path /\ port' = port
    BY <1>1 DEF argumentVars
  <2>2. ValidPort(port)' = ValidPort(port)
    BY <2>1 DEF ValidPort
  <2> QED BY <2>1, <2>2 DEF ArgumentsTypeOK
<1>2. CASE ReadOption
  <2> DEFINE value == arguments[index + 1]
             option == arguments[index].option
  <2>1. arguments \in Seq(Argument) /\ index \in Nat \ {0}
    BY ArgumentAssumption, Zenon DEF ArgumentsTypeOK
  <2>2. /\ index < Len(arguments) /\ index' = index + 2 /\ arguments' = arguments
    BY <1>2, Zenon DEF ReadOption
  <2>3. /\ Suits(value, option)
        /\ path' = IF option = "--hfp" THEN value.path ELSE path
        /\ port' = IF option = "--port" THEN value.port ELSE port
    BY <1>2, Zenon DEF ReadOption
  <2>4. value \in Argument
    <3>1. index + 1 \in 1..Len(arguments)
      BY <2>1, <2>2
    <3> QED BY <2>1, <3>1
  <2>5. value.path \in Paths \cup {NoPath}
    BY <2>4 DEF Argument
  <2> HIDE DEF value, option
  <2>6. path' \in Paths
    BY <2>3, <2>5, Zenon DEF Suits, ArgumentsTypeOK
  <2>7. ValidPort(port')
    BY <2>3, Zenon DEF Suits, ArgumentsTypeOK
  <2>8. index' \in Nat \ {0}
    BY <2>1, <2>2
  <2>9. arguments' \in CommandLines
    BY <2>2, Zenon DEF ArgumentsTypeOK
  <2> QED BY <2>6, <2>7, <2>8, <2>9 DEF ArgumentsTypeOK
<1> QED BY <1>1, <1>2

\* Every step keeps the types.
LEMMA TypeStep ==
    ASSUME ServiceInv, [Next]_vars
    PROVE  TypeOK'
<1> USE DEF TypeOK, ServiceInv
<1>a. ArgumentsTypeOK'
  BY ArgumentTypes DEF Next, MainStep, WorkerStep, ReadOption, RejectArguments, OpenFile,
     ReadSensor, RejectEmptyFile, MakeManager, InitFails, RegisterCallbacks, PublishService,
     StopControlPlane, LeaveThreadPool, TakeMessage, HandleKey, InjectReturns,
     FinishMessage, Receive, Exited, mainVars, vars
<1> USE <1>a
<1>0. CASE ReadOption
  BY <1>0 DEF ReadOption, planeVars, workerVars
<1>16. CASE RejectArguments
  BY <1>16 DEF RejectArguments, planeVars, workerVars
<1>17. CASE OpenFile
  <2>1. file' \in Seq(Entry)
    <3>1. path \in Paths
      BY DEF ArgumentsTypeOK
    <3> QED BY <1>17, <3>1, FileAssumption DEF OpenFile
  <2> QED
    BY <1>17, <2>1 DEF OpenFile, planeVars, workerVars
<1>1. CASE ReadSensor
  <2>1. file[Len(configuration) + 1] \in Entry
    BY <1>1 DEF ReadSensor
  <2>2. /\ main' = main \/ main' = "exit"
        /\ \/ configuration' = Append(configuration, file[Len(configuration) + 1])
           \/ configuration' = <<>>
    BY <1>1 DEF ReadSensor
  <2>3. configuration' \in Seq(Entry)
    <3>1. ASSUME NEW e \in Entry PROVE Append(configuration, e) \in Seq(Entry)
      OBVIOUS
    <3>2. <<>> \in Seq(Entry)
      OBVIOUS
    <3> QED BY <2>1, <2>2, <3>1, <3>2, Zenon
  <2> QED
    BY <1>1, <2>2, <2>3 DEF ReadSensor, planeVars, workerVars
<1>2. CASE RejectEmptyFile
  BY <1>2 DEF RejectEmptyFile, planeVars, workerVars
<1>3. CASE MakeManager
  <2>1. injecting = 0 /\ hits = <<>>
    BY <1>3 DEF MakeManager, PlaneState, MessageState
  <2>2. sensors' \in Seq(Entry) /\ main' = "start"
    BY <1>3 DEF MakeManager
  <2> QED
    BY <1>3, <2>1, <2>2 DEF MakeManager, planeVars, workerVars
<1>4. CASE InitFails
  BY <1>4 DEF InitFails, workerVars
<1>5. CASE RegisterCallbacks
  BY <1>5 DEF RegisterCallbacks, workerVars
<1>6. CASE PublishService
  BY <1>6 DEF PublishService, planeVars, workerVars
<1>7. CASE StopControlPlane
  <2>1. inbox' \in Seq(Message)
    BY <1>7 DEF StopControlPlane
  <2>2. UNCHANGED <<file, configuration, sensors, published, received>> /\ UNCHANGED workerVars
    BY <1>7 DEF StopControlPlane
  <2>3. main' = "exit" /\ instance' = FALSE /\ manager' = FALSE /\ registered' = {}
    BY <1>7 DEF StopControlPlane
  <2> QED
    BY <2>1, <2>2, <2>3 DEF workerVars
<1>8. CASE LeaveThreadPool
  BY <1>8 DEF LeaveThreadPool, planeVars, workerVars
<1>9. CASE TakeMessage
  BY <1>9 DEF TakeMessage, mainVars, planeVars
<1>10. ASSUME NEW key \in Key, HandleKey(key) PROVE TypeOK'
  <2>1. Addressed(Head(inbox)) \in 0..Len(sensors)
    BY AddressedType
  <2>2. injecting' \in 0..Len(sensors) /\ pending' \subseteq Key
    BY <1>10, <2>1 DEF HandleKey
  <2> QED
    BY <1>10, <2>2 DEF HandleKey, mainVars, planeVars
<1>11. CASE InjectReturns
  <2>1. injecting \in DOMAIN sensors
    BY <1>11 DEF InjectReturns
  <2>2. hits' \in Seq(DOMAIN sensors) /\ injecting' = 0 /\ sensors' = sensors
    BY <1>11, <2>1 DEF InjectReturns, mainVars
  <2>3. injecting' \in 0..Len(sensors)
    BY <2>2
  <2> QED
    BY <1>11, <2>2, <2>3 DEF InjectReturns, mainVars, planeVars
<1>12. CASE FinishMessage
  <2>1. inbox # <<>>
    BY <1>12 DEF FinishMessage, MessageState
  <2>2. inbox' \in Seq(Message) /\ hits' = <<>> /\ worker' = "idle"
    BY <1>12, <2>1 DEF FinishMessage
  <2>3. hits' \in Seq(DOMAIN sensors)
    BY <2>2
  <2> QED
    BY <1>12, <2>2, <2>3 DEF FinishMessage, mainVars, planeVars
<1>13. ASSUME NEW m \in Messages, Receive(m) PROVE TypeOK'
  <2>1. m \in Message
    BY MessageAssumption
  <2>2. inbox' \in Seq(Message) /\ received' \in Nat
    BY <1>13, <2>1 DEF Receive
  <2> QED
    BY <1>13, <2>2 DEF Receive, mainVars, planeVars, workerVars
<1>14. CASE Exited
  BY <1>14 DEF Exited, vars, mainVars, planeVars, workerVars
<1>15. CASE UNCHANGED vars
  BY <1>15 DEF vars, mainVars, planeVars, workerVars
<1> QED
  BY <1>0, <1>1, <1>2, <1>3, <1>4, <1>5, <1>6, <1>7, <1>8, <1>9, <1>10, <1>11, <1>12,
     <1>13, <1>14, <1>15, <1>16, <1>17 DEF Next, MainStep, WorkerStep

\* Every step of main keeps the invariant.
LEMMA MainKeeps ==
    ASSUME ServiceInv, MainStep \/ LeaveThreadPool
    PROVE  (ReadPrefix /\ WholeFile /\ PlaneState /\ MessageState)'
<1> USE DEF TypeOK, ServiceInv
<1>0. CASE ReadOption \/ RejectArguments \/ OpenFile
  <2>1. /\ main = "arguments" /\ main' \in {"arguments", "load", "exit"}
        /\ configuration = <<>>
        /\ UNCHANGED <<configuration, sensors, planeVars, workerVars, inbox>>
    BY <1>0 DEF ReadOption, RejectArguments, OpenFile, ReadPrefix
  <2>2. file' \in Seq(Entry)
    BY TypeStep, <1>0 DEF Next, MainStep
  <2>3. ReadPrefix' /\ WholeFile'
    BY <2>1, <2>2 DEF ReadPrefix, WholeFile
  <2>4. PlaneState' /\ MessageState'
    BY <2>1 DEF PlaneState, MessageState, planeVars, workerVars
  <2> QED BY <2>3, <2>4
<1>1. CASE ReadSensor
  <2>1. ReadPrefix'
    <3> SUFFICES ASSUME main' = "load"
                 PROVE  /\ Len(configuration') <= Len(file)
                        /\ \A i \in DOMAIN configuration' :
                              configuration'[i] = file[i] /\ ValidEntry(configuration'[i])
      BY <1>1 DEF ReadSensor, ReadPrefix
    <3> DEFINE e == file[Len(configuration) + 1]
    <3>1. configuration' = Append(configuration, e) /\ ValidEntry(e)
      BY <1>1 DEF ReadSensor
    <3>2. Len(configuration) < Len(file)
      BY <1>1 DEF ReadSensor
    <3>3. \A i \in DOMAIN configuration :
             configuration[i] = file[i] /\ ValidEntry(configuration[i])
      BY <1>1 DEF ReadSensor, ReadPrefix
    <3>4. /\ Len(configuration') = Len(configuration) + 1
          /\ DOMAIN configuration' = 1..(Len(configuration) + 1)
          /\ configuration'[Len(configuration) + 1] = e
          /\ \A i \in DOMAIN configuration : configuration'[i] = configuration[i]
      BY <3>1
    <3>5. Len(configuration') <= Len(file)
      BY <3>2, <3>4
    <3>6. ASSUME NEW i \in DOMAIN configuration'
          PROVE  configuration'[i] = file[i] /\ ValidEntry(configuration'[i])
      <4>1. CASE i \in DOMAIN configuration
        BY <3>3, <3>4, <4>1
      <4>2. CASE i = Len(configuration) + 1
        BY <3>1, <3>4, <4>2
      <4> QED BY <3>4, <4>1, <4>2
    <3> QED BY <3>5, <3>6
  <2>2. WholeFile'
    BY <1>1 DEF ReadSensor, WholeFile
  <2>3. PlaneState'
    BY <1>1 DEF ReadSensor, PlaneState, planeVars, workerVars
  <2>4. MessageState'
    BY <1>1 DEF ReadSensor, PlaneState, MessageState, workerVars
  <2> QED BY <2>1, <2>2, <2>3, <2>4
<1>2. CASE RejectEmptyFile
  BY <1>2 DEF RejectEmptyFile, ReadPrefix, WholeFile, PlaneState, MessageState, planeVars,
     workerVars
<1>3. CASE MakeManager
  <2>1. configuration = file
    <3>1. /\ Len(configuration) = Len(file)
          /\ \A i \in DOMAIN configuration : configuration[i] = file[i]
      BY <1>3 DEF MakeManager, ReadPrefix
    <3>2. configuration \in Seq(Entry) /\ file \in Seq(Entry)
      OBVIOUS
    <3> QED BY <3>1, <3>2, SameEntries
  <2>2. WholeFile' /\ ReadPrefix'
    BY <1>3, <2>1 DEF MakeManager, ReadPrefix, WholeFile
  <2>3. PlaneState' /\ MessageState'
    BY <1>3 DEF MakeManager, PlaneState, MessageState, planeVars, workerVars
  <2> QED BY <2>2, <2>3
<1>4. CASE InitFails
  BY <1>4 DEF InitFails, ReadPrefix, WholeFile, PlaneState, MessageState, workerVars
<1>5. CASE RegisterCallbacks
  <2>1. ReadPrefix' /\ WholeFile'
    BY <1>5 DEF RegisterCallbacks, ReadPrefix, WholeFile
  <2>2. PlaneState'
    BY <1>5 DEF RegisterCallbacks, PlaneState, workerVars
  <2>3. MessageState'
    BY <1>5 DEF RegisterCallbacks, PlaneState, MessageState, workerVars
  <2> QED BY <2>1, <2>2, <2>3
<1>6. ASSUME PublishService \/ LeaveThreadPool
      PROVE  (ReadPrefix /\ WholeFile /\ PlaneState /\ MessageState)'
  <2>1. /\ main \in {"publish", "serve"} /\ main' \in {"serve", "stop"}
        /\ UNCHANGED <<file, configuration, sensors, planeVars, workerVars, inbox>>
    BY <1>6 DEF PublishService, LeaveThreadPool, planeVars, workerVars
  <2>2. ReadPrefix' /\ WholeFile' /\ PlaneState'
    BY <2>1 DEF ReadPrefix, WholeFile, PlaneState, planeVars
  <2>3. Addressed(Head(inbox))' = Addressed(Head(inbox))
    BY <2>1 DEF Addressed
  <2>4. MessageState'
    BY <2>1, <2>3 DEF MessageState, workerVars
  <2> QED BY <2>2, <2>4
<1>7. CASE StopControlPlane
  <2>1. ReadPrefix' /\ WholeFile'
    BY <1>7 DEF StopControlPlane, ReadPrefix, WholeFile
  <2>2. PlaneState'
    BY <1>7 DEF StopControlPlane, PlaneState, workerVars
  <2>3. MessageState'
    BY <1>7 DEF StopControlPlane, MessageState, workerVars
  <2> QED BY <2>1, <2>2, <2>3
<1> QED
  BY <1>0, <1>1, <1>2, <1>3, <1>4, <1>5, <1>6, <1>7 DEF MainStep

\* The worker works on a message only while main is between the start and the
\* end of the control plane.
LEMMA BusyWhileRunning ==
    ASSUME PlaneState, inbox # <<>> \/ worker # "idle" \/ instance
    PROVE  main \in {"publish", "serve", "stop"} /\ instance /\ manager /\ registered = Key
  BY DEF PlaneState

\* Every step of the worker, and every message received, keeps the invariant.
LEMMA WorkerKeeps ==
    ASSUME ServiceInv, WorkerStep \/ \E m \in Messages : Receive(m)
    PROVE  (ReadPrefix /\ WholeFile /\ PlaneState /\ MessageState)'
<1> USE DEF TypeOK, ServiceInv
<1> DEFINE m == Head(inbox)
<1>1. UNCHANGED mainVars /\ UNCHANGED planeVars
  BY DEF WorkerStep, TakeMessage, HandleKey, InjectReturns, FinishMessage, Receive
<1>2. inbox # <<>> \/ instance
  BY DEF WorkerStep, TakeMessage, HandleKey, InjectReturns, FinishMessage, Receive, MessageState
<1>3. main \in {"publish", "serve", "stop"} /\ instance /\ manager /\ registered = Key
  BY <1>2, BusyWhileRunning
<1>4. ReadPrefix' /\ WholeFile' /\ PlaneState'
  BY <1>1, <1>3 DEF mainVars, planeVars, ReadPrefix, WholeFile, PlaneState
<1>5. ASSUME inbox # <<>>, Head(inbox') = m
      PROVE  Addressed(Head(inbox))' = Addressed(m)
  BY <1>1, <1>5, AddressedStable DEF mainVars
<1>6. ASSUME inbox # <<>> PROVE m \in Message
  BY <1>6
<1>7. CASE TakeMessage
  <2>1. /\ inbox # <<>> /\ inbox' = inbox /\ worker' = "busy"
        /\ pending' = {key \in Key : Present(m, key)}
        /\ injecting' = 0 /\ hits' = <<>>
    BY <1>3, <1>7 DEF TakeMessage, MessageState
  <2>2. Acting(m) \cap pending' # {} \/ Addressed(m) = 0
    <3>1. Acting(m) \subseteq pending'
      BY <2>1 DEF Acting
    <3>2. CASE IsMotionCommand(m)
      BY <1>6, <2>1, <3>1, <3>2, SomeCallActs
    <3>3. CASE ~IsMotionCommand(m)
      BY <3>3 DEF Addressed
    <3> QED BY <3>2, <3>3
  <2>3. Addressed(Head(inbox))' = Addressed(m) /\ Head(inbox') = m
    BY <1>5, <2>1
  <2> QED BY <1>4, <2>1, <2>2, <2>3 DEF MessageState
<1>8. ASSUME NEW key \in Key, HandleKey(key) PROVE MessageState'
  <2>1. /\ worker = "busy" /\ worker' = "busy" /\ injecting = 0 /\ key \in pending
        /\ pending' = pending \ {key} /\ inbox' = inbox /\ hits' = hits
        /\ injecting' = IF Filtered(m, key) THEN 0 ELSE Addressed(m)
    BY <1>3, <1>8 DEF HandleKey
  <2>2. inbox # <<>> /\ \A k \in pending : Present(m, k)
    BY <2>1 DEF MessageState
  <2>3. Addressed(Head(inbox))' = Addressed(m) /\ Head(inbox') = m
    BY <1>5, <2>1, <2>2
  <2>4. CASE key \in Acting(m)
    <3>1. hits = <<>> /\ injecting' = Addressed(m)
      BY <2>1, <2>4 DEF MessageState, Acting
    <3>2. Acting(m) \cap pending' = {}
      BY <1>6, <2>1, <2>2, <2>4, OneCallActs
    <3> QED BY <2>1, <2>2, <2>3, <3>1, <3>2 DEF MessageState
  <2>5. CASE key \notin Acting(m)
    <3>1. injecting' = 0
      BY <2>1, <2>2, <2>5 DEF Acting
    <3>2. Acting(m) \cap pending' = Acting(m) \cap pending
      BY <2>1, <2>5
    <3> QED BY <2>1, <2>2, <2>3, <3>1, <3>2 DEF MessageState
  <2> QED BY <2>4, <2>5
<1>9. CASE InjectReturns
  <2>1. /\ injecting # 0 /\ injecting' = 0 /\ hits' = Append(hits, injecting)
        /\ inbox' = inbox /\ worker' = worker /\ pending' = pending
    BY <1>9 DEF InjectReturns
  <2>2. /\ worker # "idle" /\ inbox # <<>> /\ \A k \in pending : Present(m, k)
        /\ ~(Acting(m) \cap pending # {} \/ Addressed(m) = 0)
        /\ injecting = Addressed(m) /\ hits = <<>>
    BY <2>1 DEF MessageState
  <2>3. Addressed(Head(inbox))' = Addressed(m) /\ Head(inbox') = m
    BY <1>5, <2>1, <2>2
  <2>4. hits' = <<Addressed(m)>>
    BY <2>1, <2>2
  <2> QED BY <1>4, <2>1, <2>2, <2>3, <2>4 DEF MessageState
<1>10. CASE FinishMessage
  BY <1>4, <1>10 DEF FinishMessage, MessageState
<1>11. ASSUME NEW n \in Messages, Receive(n) PROVE MessageState'
  <2>1. inbox' = Append(inbox, n) /\ UNCHANGED workerVars
    BY <1>11 DEF Receive
  <2>2. CASE worker = "idle"
    BY <2>1, <2>2 DEF MessageState, workerVars
  <2>3. CASE worker # "idle"
    <3>1. inbox # <<>>
      BY <2>3 DEF MessageState
    <3>2. Head(inbox') = m /\ inbox' # <<>>
      <4>1. n \in Message /\ inbox \in Seq(Message)
        BY MessageAssumption
      <4> QED BY <2>1, <3>1, <4>1, HeadStays
    <3>3. Addressed(Head(inbox))' = Addressed(m)
      BY <1>5, <3>1, <3>2
    <3> QED BY <2>1, <2>3, <3>2, <3>3 DEF MessageState, workerVars
  <2> QED BY <2>2, <2>3
<1> QED
  BY <1>4, <1>7, <1>8, <1>9, <1>10, <1>11 DEF WorkerStep

-----------------------------------------------------------------------------
(* The theorems.                                                            *)

\* The inductive invariant of the process: what has been read of the file, who
\* has the control plane's globals when, and how far a message is.
THEOREM ServiceInvariant == Spec => []ServiceInv
<1>1. Init => ServiceInv
  <2> SUFFICES ASSUME Init PROVE ServiceInv
    OBVIOUS
  <2>1. TypeOK
    <3>1. file \in Seq(Entry) /\ configuration \in Seq(Entry) /\ sensors \in Seq(Entry)
      BY DEF Init
    <3>3. ArgumentsTypeOK
      <4>1. arguments \in CommandLines /\ path = DefaultPath /\ port = DefaultPort /\ index = 1
        BY DEF Init
      <4>2. DefaultPath \in Paths /\ ValidPort(DefaultPort)
        BY ArgumentAssumption, Zenon
      <4>3. index \in Nat \ {0}
        BY <4>1
      <4> QED BY <4>1, <4>2, <4>3, Zenon DEF ArgumentsTypeOK
    <3>2. inbox \in Seq(Message) /\ hits \in Seq(DOMAIN sensors) /\ injecting \in 0..Len(sensors)
      BY DEF Init
    <3> QED BY <3>1, <3>2, <3>3 DEF Init, TypeOK
  <2>2. ReadPrefix /\ WholeFile /\ PlaneState /\ MessageState
    BY <2>1 DEF Init, TypeOK, ReadPrefix, WholeFile, PlaneState, MessageState
  <2> QED BY <2>1, <2>2 DEF ServiceInv
<1>2. ServiceInv /\ [Next]_vars => ServiceInv'
  <2> SUFFICES ASSUME ServiceInv, [Next]_vars PROVE ServiceInv'
    OBVIOUS
  <2>1. TypeOK'
    BY TypeStep
  <2>2. CASE MainStep \/ LeaveThreadPool
    BY <2>1, <2>2, MainKeeps DEF ServiceInv
  <2>3. CASE WorkerStep \/ \E m \in Messages : Receive(m)
    BY <2>1, <2>3, WorkerKeeps DEF ServiceInv
  <2>4. CASE Exited \/ UNCHANGED vars
    <3>1. UNCHANGED vars
      BY <2>4 DEF Exited
    <3>2. UNCHANGED <<main, file, configuration, sensors, instance, manager, registered>>
      BY <3>1 DEF vars, mainVars, planeVars
    <3>3. UNCHANGED <<inbox, worker, pending, injecting, hits>>
      BY <3>1 DEF vars, workerVars
    <3>4. ReadPrefix' /\ WholeFile' /\ PlaneState'
      BY <3>2, <3>3 DEF ServiceInv, ReadPrefix, WholeFile, PlaneState
    <3>5. Addressed(Head(inbox))' = Addressed(Head(inbox))
      BY <3>2, <3>3, AddressedStable
    <3>6. MessageState'
      BY <3>3, <3>5 DEF ServiceInv, MessageState
    <3> QED BY <2>1, <3>4, <3>6 DEF ServiceInv
  <2> QED BY <2>2, <2>3, <2>4 DEF Next
<1> QED BY <1>1, <1>2, PTL DEF Spec

\* Every variable of the process has its type: in particular the sensor a
\* message is injected into is one of the manager's.
THEOREM ServiceTypeCorrect == Spec => []TypeOK
<1>1. ServiceInv => TypeOK
  BY DEF ServiceInv
<1> QED BY <1>1, ServiceInvariant, PTL

\* onControlPlaneMessage injects each motion command exactly once, for every
\* combination of keys, every order of the calls, and whether or not the
\* library reports the root.
THEOREM CommandsInjectOnce == Spec => []InjectedOnce
<1>1. ServiceInv => InjectedOnce
  <2> SUFFICES ASSUME ServiceInv, worker = "busy", pending = {}, injecting = 0
               PROVE  LET m == Head(inbox)
                          Named == {i \in DOMAIN sensors :
                                        sensors[i].id = SensorId(FirstId(m.id))}
                      IN IF IsMotionCommand(m) /\ Named # {}
                         THEN \E i \in Named : hits = <<i>>
                         ELSE hits = <<>>
    BY DEF InjectedOnce
  <2> DEFINE m == Head(inbox)
             Named == {i \in DOMAIN sensors : sensors[i].id = SensorId(FirstId(m.id))}
  <2>1. IF Addressed(m) = 0 THEN hits = <<>> ELSE hits = <<Addressed(m)>>
    BY DEF ServiceInv, MessageState
  <2>2. sensors \in Seq(Entry)
    BY DEF ServiceInv, TypeOK
  <2>3. IF Named # {}
        THEN /\ Lookup(sensors, SensorId(FirstId(m.id))) \in Named
             /\ Lookup(sensors, SensorId(FirstId(m.id))) \in 1..Len(sensors)
        ELSE Lookup(sensors, SensorId(FirstId(m.id))) = 0
    BY <2>2, LookupFinds
  <2>4. CASE IsMotionCommand(m) /\ Named # {}
    <3>1. Addressed(m) \in Named /\ Addressed(m) # 0
      BY <2>3, <2>4 DEF Addressed
    <3> QED BY <2>1, <2>4, <3>1
  <2>5. CASE ~(IsMotionCommand(m) /\ Named # {})
    <3>1. Addressed(m) = 0
      BY <2>3, <2>5 DEF Addressed
    <3> QED BY <2>1, <2>5, <3>1
  <2> QED BY <2>4, <2>5
<1> QED BY <1>1, ServiceInvariant, PTL

\* The worker never handles a message without a manager, although it reads
\* gMotionSensorManager without a lock.
THEOREM ManagerStays == Spec => []ManagerOutlivesWorker
<1>1. ServiceInv => ManagerOutlivesWorker
  BY DEF ServiceInv, PlaneState, ManagerOutlivesWorker
<1> QED BY <1>1, ServiceInvariant, PTL

\* main returns with the control plane stopped, on every one of its ways out.
THEOREM NothingIsLeft == Spec => []ExitLeavesNothing
<1>1. ServiceInv => ExitLeavesNothing
  BY DEF ServiceInv, PlaneState, ExitLeavesNothing
<1> QED BY <1>1, ServiceInvariant, PTL

\* The service is offered with all sensors of the file or not at all.
THEOREM FileIsServedWhole == Spec => []ServesWholeFile
<1>1. ServiceInv => ServesWholeFile
  BY DEF ServiceInv, WholeFile, ServesWholeFile
<1> QED BY <1>1, ServiceInvariant, PTL

-----------------------------------------------------------------------------
(* The arguments.                                                           *)

\* What main has read of its arguments, and ArgumentsHonoured once it is done.
ArgumentsInv ==
    /\ main = "arguments" =>
           /\ index % 2 = 1 /\ index <= Len(arguments) + 1
           /\ Understood(index - 1)
           /\ PathGiven(index - 1, path)
           /\ PortGiven(index - 1, port)
    /\ ArgumentsHonoured

\* Between an odd place and the next one there is an even one.
LEMMA OddPlaces ==
    ASSUME NEW n \in Nat \ {0}, n % 2 = 1
    PROVE  /\ (n + 2) % 2 = 1 /\ (n + 1) % 2 # 1
           /\ \A i \in 1..(n + 1) : i % 2 = 1 => i = n \/ i \in 1..(n - 1)
<1>1. (n + 2) % 2 = 1 /\ (n + 1) % 2 # 1
  OBVIOUS
<1>2. ASSUME NEW i \in 1..(n + 1), i % 2 = 1 PROVE i = n \/ i \in 1..(n - 1)
  <2>1. i # n + 1
    BY <1>1, <1>2
  <2> QED BY <2>1
<1> QED BY <1>1, <1>2

\* An option that is read is the last of its kind.
LEMMA OptionsGrow ==
    ASSUME index \in Nat \ {0}, index % 2 = 1, NEW o
    PROVE  /\ Options(o, index + 1) = IF arguments[index].option = o
                                      THEN Options(o, index - 1) \cup {index}
                                      ELSE Options(o, index - 1)
           /\ arguments[index].option = o => IsLast(index, o, index + 1)
<1> DEFINE Old == Options(o, index - 1)
           New == Options(o, index + 1)
<1>1. \A i : i \in New <=> i \in Old \/ (i = index /\ arguments[index].option = o)
  <2>1. ASSUME NEW i \in New PROVE i \in Old \/ (i = index /\ arguments[index].option = o)
    BY <2>1, OddPlaces DEF Options
  <2>2. ASSUME NEW i \in Old PROVE i \in New
    BY <2>2 DEF Options
  <2>3. ASSUME arguments[index].option = o PROVE index \in New
    BY <2>3 DEF Options
  <2> QED BY <2>1, <2>2, <2>3
<1>2. \A i \in Old : i \in Nat /\ i <= index
  BY DEF Options
<1> HIDE DEF Old, New
<1>3. New = IF arguments[index].option = o THEN Old \cup {index} ELSE Old
  BY <1>1
<1>4. ASSUME arguments[index].option = o PROVE index \in New /\ \A j \in New : j <= index
  BY <1>1, <1>2, <1>4
<1> QED BY <1>3, <1>4 DEF Old, New, IsLast

\* Reading an option keeps what is known of the arguments.
LEMMA OptionRead ==
    ASSUME ArgumentsTypeOK, ArgumentsInv, ReadOption
    PROVE  ArgumentsInv'
<1> DEFINE value == arguments[index + 1]
           option == arguments[index].option
<1>1. /\ main = "arguments" /\ main' = "arguments" /\ arguments' = arguments
      /\ index' = index + 2 /\ index < Len(arguments)
      /\ Suits(value, option)
      /\ path' = IF option = "--hfp" THEN value.path ELSE path
      /\ port' = IF option = "--port" THEN value.port ELSE port
  BY DEF ReadOption
<1>2. /\ index \in Nat \ {0} /\ arguments \in Seq(Argument)
      /\ index % 2 = 1 /\ Understood(index - 1)
      /\ PathGiven(index - 1, path) /\ PortGiven(index - 1, port)
  BY <1>1, ArgumentAssumption DEF ArgumentsTypeOK, ArgumentsInv
<1>3. index' % 2 = 1 /\ index' <= Len(arguments) + 1 /\ index' - 1 = index + 1
  BY <1>1, <1>2, OddPlaces
<1>4. option # "other"
  BY <1>1, Zenon DEF Suits
<1>5. Understood(index + 1)
  BY <1>1, <1>2, <1>4, OddPlaces DEF Understood
<1>6. index \in 1..(index + 1) /\ \A i \in 1..(index - 1) : i \in 1..(index + 1)
  BY <1>2
<1>7. PathGiven(index + 1, path')
  <2>1. CASE option = "--hfp"
    BY <1>1, <1>2, <1>6, <2>1, OptionsGrow, Zenon DEF PathGiven
  <2>2. CASE option # "--hfp"
    <3>1. Options("--hfp", index + 1) = Options("--hfp", index - 1) /\ path' = path
      BY <1>1, <1>2, <2>2, OptionsGrow, Zenon
    <3> QED BY <1>2, <1>6, <3>1, Zenon DEF PathGiven, IsLast
  <2> QED BY <2>1, <2>2
<1>8. PortGiven(index + 1, port')
  <2>1. CASE option = "--port"
    BY <1>1, <1>2, <1>6, <2>1, OptionsGrow, Zenon DEF PortGiven
  <2>2. CASE option # "--port"
    <3>1. Options("--port", index + 1) = Options("--port", index - 1) /\ port' = port
      BY <1>1, <1>2, <2>2, OptionsGrow, Zenon
    <3> QED BY <1>2, <1>6, <3>1, Zenon DEF PortGiven, IsLast
  <2> QED BY <2>1, <2>2
<1>9. Understood(index - 1)' /\ PathGiven(index - 1, path)' /\ PortGiven(index - 1, port)'
  <2>1. Understood(index - 1)'
    BY <1>1, <1>3, <1>5 DEF Understood
  <2>2. PathGiven(index - 1, path)'
    BY <1>1, <1>3, <1>7 DEF PathGiven, IsLast, Options
  <2>3. PortGiven(index - 1, port)'
    BY <1>1, <1>3, <1>8 DEF PortGiven, IsLast, Options
  <2> QED BY <2>1, <2>2, <2>3
<1> QED
  BY <1>1, <1>3, <1>9 DEF ArgumentsInv, ArgumentsHonoured

\* The service runs with the file and on the port its arguments ask for last,
\* and only if it understood all of them (main).
THEOREM ArgumentsAreHonoured == Spec => []ArgumentsHonoured
<1>1. Init => ArgumentsInv
  <2> SUFFICES ASSUME Init PROVE ArgumentsInv
    OBVIOUS
  <2>1. arguments \in Seq(Argument) /\ index = 1
    BY ArgumentAssumption DEF Init
  <2>2. index % 2 = 1 /\ index <= Len(arguments) + 1 /\ 1..(index - 1) = {}
    BY <2>1
  <2>3. Understood(index - 1) /\ PathGiven(index - 1, path) /\ PortGiven(index - 1, port)
    BY <2>2 DEF Init, Understood, PathGiven, PortGiven, Options
  <2> QED BY <2>2, <2>3 DEF Init, ArgumentsInv, ArgumentsHonoured
<1>2. ServiceInv /\ ArgumentsInv /\ [Next]_vars => ArgumentsInv'
  <2> SUFFICES ASSUME ServiceInv, ArgumentsInv, [Next]_vars PROVE ArgumentsInv'
    OBVIOUS
  <2>1. ArgumentsTypeOK
    BY DEF ServiceInv, TypeOK
  <2>2. CASE ReadOption
    BY <2>1, <2>2, OptionRead
  <2>3. CASE OpenFile
    <3>1. /\ main = "arguments" /\ main' = "load" /\ file' = FileAt[path]
          /\ arguments' = arguments /\ port' = port /\ index > Len(arguments)
      BY <2>3 DEF OpenFile, argumentVars
    <3>2. index \in Nat \ {0} /\ arguments \in Seq(Argument) /\ path \in Paths
      BY <2>1, ArgumentAssumption DEF ArgumentsTypeOK
    <3>3. /\ Understood(index - 1) /\ PathGiven(index - 1, path)
          /\ PortGiven(index - 1, port) /\ index <= Len(arguments) + 1
      BY <3>1 DEF ArgumentsInv
    <3>4. index - 1 = Len(arguments)
      BY <3>1, <3>2, <3>3
    <3>5. /\ Understood(Len(arguments)) /\ PathGiven(Len(arguments), path)
          /\ PortGiven(Len(arguments), port)
      BY <3>3, <3>4
    <3>6. Understood(Len(arguments))'
      BY <3>1, <3>5 DEF Understood
    <3>7. \E p \in Paths : PathGiven(Len(arguments), p) /\ file' = FileAt[p]
      BY <3>1, <3>2, <3>5
    <3>8. (\E p \in Paths : PathGiven(Len(arguments), p) /\ file = FileAt[p])'
      BY <3>1, <3>7 DEF PathGiven, IsLast, Options
    <3>9. PortGiven(Len(arguments), port)'
      BY <3>1, <3>5 DEF PortGiven, IsLast, Options
    <3>10. main' # "arguments"
      BY <3>1
    <3> QED BY <3>6, <3>8, <3>9, <3>10 DEF ArgumentsInv, ArgumentsHonoured
  <2>4. CASE RejectArguments
    BY <2>4 DEF RejectArguments, ArgumentsInv, ArgumentsHonoured
  <2>5. CASE ~(ReadOption \/ OpenFile \/ RejectArguments)
    <3>1. /\ UNCHANGED <<arguments, index, path, port, file>>
          /\ main' = main \/ (main # "arguments" /\ main' # "arguments")
          /\ main \in {"arguments", "exit"} => main' = main
      BY <2>5 DEF Next, MainStep, WorkerStep, ReadSensor, RejectEmptyFile, MakeManager,
         InitFails, RegisterCallbacks, PublishService, StopControlPlane, LeaveThreadPool,
         TakeMessage, HandleKey, InjectReturns, FinishMessage, Receive, Exited, vars,
         mainVars, argumentVars
    <3> QED
      BY <3>1 DEF ArgumentsInv, ArgumentsHonoured, Understood, PathGiven, PortGiven, IsLast,
         Options
  <2> QED BY <2>2, <2>3, <2>4, <2>5
<1>3. ArgumentsInv => ArgumentsHonoured
  BY DEF ArgumentsInv
<1> QED BY <1>1, <1>2, <1>3, ServiceInvariant, PTL DEF Spec
=============================================================================
