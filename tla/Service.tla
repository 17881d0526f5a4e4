------------------------------- MODULE Service -------------------------------
(***************************************************************************)
(* The process around the sensors: main, the HFP configuration, the        *)
(* manager and the control plane, with the worker thread of the control    *)
(* plane.  The sensors are those of MotionSensor; here the only thing that *)
(* happens to one is a call of injectMotionEvent, which takes time and     *)
(* returns.                                                                *)
(*                                                                         *)
(* What only main does before the worker exists is one step.  The steps    *)
(* that matter are those on either side of UT_ControlPlane_Start and Stop: *)
(* from the first to the second the worker reads the manager pointer main  *)
(* writes, without a lock.                                                 *)
(***************************************************************************)
EXTENDS ControlPlane

CONSTANTS
    Paths,        \* paths of files
    FileAt,       \* FileAt[p]: the sensors listed in the file at p
    DefaultPath,  \* kDefaultMotionSensorHfpPath
    NoPath,       \* the empty path
    DefaultPort,  \* kDefaultMotionSensorControlPlanePort
    CommandLines, \* the arguments the service may be started with
    Messages,     \* the messages a tester may send
    MaxQueue,     \* bound: messages waiting in the control plane
    MaxReceived   \* bound: messages received

SecondsPerDay == 86400

TimeWindow == [start : Int, end : Int]

\* A sensor of the file; "readable" if every required field is there and
\* parses.  A text of the file that is no operational mode is "other".
Entry == [id : Int32, readable : BOOLEAN, min : Int, max : Int,
          mode : {"MOTION", "NO_MOTION", "other"}, windows : SUBSET TimeWindow]

\* A file that cannot be opened or has no list of sensors has no entries.
ASSUME FileAssumption == FileAt \in [Paths -> Seq(Entry)]

\* What main tells apart of an argument: the option it is, the path it is when
\* trimmed, and the number it is, or 0.
Argument == [option : {"--hfp", "--port", "other"}, path : Paths \cup {NoPath}, port : Int]

ValidPort(n) == n \in 1..65535

ASSUME ArgumentAssumption ==
    /\ CommandLines \subseteq Seq(Argument)
    /\ DefaultPath \in Paths /\ NoPath \notin Paths
    /\ ValidPort(DefaultPort)

ASSUME MessageAssumption == Messages \subseteq Message

ASSUME QueueAssumption == MaxQueue \in Nat /\ MaxReceived \in Nat

VARIABLES
    main,            \* where main is
    arguments,       \* argv after the name of the program
    index,           \* argumentIndex
    path,            \* configPath
    port,            \* controlPlanePort
    file,            \* the HFP file, once it is opened
    configuration,   \* the sensors read from it so far
    sensors,         \* m_sensors of the manager
    instance,        \* gControlPlaneInstance: none, or the running one
    manager,         \* is gMotionSensorManager set?
    registered,      \* the keys with a callback
    published,       \* is the Binder service published?
    inbox,           \* messages received; the worker is busy with the first
    worker,          \* where the worker thread of the control plane is
    pending,         \* the keys of that message it still has to call back for
    injecting,       \* the sensor (its place in sensors) it calls, or 0
    hits,            \* sensors that message was injected into, in order
    received         \* number of messages received

argumentVars == <<arguments, index, path, port>>
mainVars == <<main, argumentVars, file, configuration, sensors, published>>
planeVars == <<instance, manager, registered>>
workerVars == <<worker, pending, injecting, hits>>
vars == <<mainVars, planeVars, workerVars, inbox, received>>

-----------------------------------------------------------------------------
Init ==
    /\ main = "arguments"
    /\ arguments \in CommandLines
    /\ index = 1
    /\ path = DefaultPath
    /\ port = DefaultPort
    /\ file = <<>>
    /\ configuration = <<>>
    /\ sensors = <<>>
    /\ instance = FALSE
    /\ manager = FALSE
    /\ registered = {}
    /\ published = FALSE
    /\ inbox = <<>>
    /\ worker = "idle"
    /\ pending = {}
    /\ injecting = 0
    /\ hits = <<>>
    /\ received = 0

-----------------------------------------------------------------------------
(* main: the arguments.                                                     *)

\* what an option accepts for a value
Suits(value, option) ==
    \/ option = "--hfp" /\ value.path # NoPath
    \/ option = "--port" /\ ValidPort(value.port)

\* Mutant: a port that is none is ignored.
ReadOptionAnyPort ==
    /\ main = "arguments"
    /\ index < Len(arguments)
    /\ LET option == arguments[index].option
           value == arguments[index + 1]
       IN /\ option = "--port" \/ Suits(value, option)
          /\ path' = IF option = "--hfp" THEN value.path ELSE path
          /\ port' = IF Suits(value, "--port") THEN value.port ELSE port
    /\ index' = index + 2
    /\ UNCHANGED <<main, arguments, file, configuration, sensors, published, planeVars,
                   workerVars, inbox, received>>

\* one turn of the loop over the arguments: an option takes the argument that
\* follows, whatever that looks like
ReadOption ==
    /\ main = "arguments"
    /\ index < Len(arguments)
    /\ LET option == arguments[index].option
           value == arguments[index + 1]
       IN /\ Suits(value, option)
          /\ path' = IF option = "--hfp" THEN value.path ELSE path
          /\ port' = IF option = "--port" THEN value.port ELSE port
    /\ index' = index + 2
    /\ UNCHANGED <<main, arguments, file, configuration, sensors, published, planeVars,
                   workerVars, inbox, received>>

\* no option, or an option without a value that suits it
RejectArguments ==
    /\ main = "arguments"
    /\ index <= Len(arguments)
    /\ ~(index < Len(arguments) /\ Suits(arguments[index + 1], arguments[index].option))
    /\ main' = "exit"
    /\ UNCHANGED <<argumentVars, file, configuration, sensors, published, planeVars,
                   workerVars, inbox, received>>

\* no argument is left: the file is opened
OpenFile ==
    /\ main = "arguments"
    /\ index > Len(arguments)
    /\ file' = FileAt[path]
    /\ main' = "load"
    /\ UNCHANGED <<argumentVars, configuration, sensors, published, planeVars, workerVars,
                   inbox, received>>

-----------------------------------------------------------------------------
(* main: the configuration and the manager.                                 *)

ValidWindow(w) ==
    /\ w.start >= 0 /\ w.start < SecondsPerDay
    /\ w.end >= 0 /\ w.end < SecondsPerDay

\* getMotionSensorInfo succeeds
ValidEntry(e) ==
    /\ e.readable
    /\ e.min >= 0 /\ e.max >= 0 /\ e.min <= e.max
    /\ e.mode \in {"MOTION", "NO_MOTION"}
    /\ \A w \in e.windows : ValidWindow(w)

\* Mutant: the loop over the sensors ends at the first invalid one, and what
\* was read so far is the configuration.
ReadSensorUntilInvalid ==
    /\ main = "load"
    /\ Len(configuration) < Len(file)
    /\ LET e == file[Len(configuration) + 1]
       IN IF ValidEntry(e)
          THEN configuration' = Append(configuration, e) /\ UNCHANGED <<main, sensors>>
          ELSE main' = "start" /\ sensors' = configuration /\ UNCHANGED configuration
    /\ UNCHANGED <<argumentVars, file, published, planeVars, workerVars, inbox, received>>

\* one turn of the loop of parseMotionSensorConfig; an invalid sensor ends
\* main
ReadSensor ==
    /\ main = "load"
    /\ Len(configuration) < Len(file)
    /\ LET e == file[Len(configuration) + 1]
       IN IF ValidEntry(e)
          THEN configuration' = Append(configuration, e) /\ UNCHANGED main
          ELSE configuration' = <<>> /\ main' = "exit"
    /\ UNCHANGED <<argumentVars, file, sensors, published, planeVars, workerVars, inbox, received>>

\* no list of sensors in the file
RejectEmptyFile ==
    /\ main = "load"
    /\ Len(file) = 0
    /\ main' = "exit"
    /\ UNCHANGED <<argumentVars, file, configuration, sensors, published, planeVars, workerVars,
                   inbox, received>>

\* setConfiguration and the constructor of the manager
MakeManager ==
    /\ main = "load"
    /\ Len(file) > 0
    /\ Len(configuration) = Len(file)
    /\ sensors' = configuration
    /\ main' = "start"
    /\ UNCHANGED <<argumentVars, file, configuration, published, planeVars, workerVars, inbox, received>>

-----------------------------------------------------------------------------
(* main: the control plane.  The port and the manager were checked before.  *)

\* startMotionSensorControlPlane with UT_ControlPlane_Init failing
InitFails ==
    /\ main = "start"
    /\ manager' = FALSE
    /\ main' = "exit"
    /\ UNCHANGED <<argumentVars, file, configuration, sensors, published, instance, registered,
                   workerVars, inbox, received>>

\* Mutant: a registration that fails leaves the instance behind.
RegisterCallbacksNoReset ==
    /\ main = "start"
    /\ \E ok \in SUBSET Key :
          /\ registered' = ok
          /\ main' = IF ok = Key THEN "publish" ELSE "exit"
    /\ instance' = TRUE
    /\ manager' = TRUE
    /\ UNCHANGED <<argumentVars, file, configuration, sensors, published, workerVars, inbox, received>>

\* startMotionSensorControlPlane with an instance: the callbacks of "ok" can
\* be registered, and the instance is started if that is all of them
RegisterCallbacks ==
    /\ main = "start"
    /\ \E ok \in SUBSET Key :
          IF ok = Key
          THEN instance' = TRUE /\ manager' = TRUE /\ registered' = ok /\ main' = "publish"
          ELSE instance' = FALSE /\ manager' = FALSE /\ registered' = {} /\ main' = "exit"
    /\ UNCHANGED <<argumentVars, file, configuration, sensors, published, workerVars, inbox, received>>

\* addService; if it fails main stops the control plane and returns
PublishService ==
    /\ main = "publish"
    /\ \E ok \in BOOLEAN :
          /\ published' = ok
          /\ main' = IF ok THEN "serve" ELSE "stop"
    /\ UNCHANGED <<argumentVars, file, configuration, sensors, planeVars, workerVars, inbox, received>>

\* joinThreadPool returns
LeaveThreadPool ==
    /\ main = "serve"
    /\ main' = "stop"
    /\ UNCHANGED <<argumentVars, file, configuration, sensors, published, planeVars, workerVars,
                   inbox, received>>

\* Mutant: the globals are reset without waiting for the worker.
StopControlPlaneNoJoin ==
    /\ main = "stop"
    /\ instance' = FALSE
    /\ manager' = FALSE
    /\ registered' = {}
    /\ inbox' = IF worker = "idle" THEN <<>> ELSE <<Head(inbox)>>
    /\ main' = "exit"
    /\ UNCHANGED <<argumentVars, file, configuration, sensors, published, workerVars, received>>

\* stopMotionSensorControlPlane: UT_ControlPlane_Stop waits for the worker,
\* which finishes the message it is busy with; the rest is dropped
StopControlPlane ==
    /\ main = "stop"
    /\ worker = "idle"
    /\ instance' = FALSE
    /\ manager' = FALSE
    /\ registered' = {}
    /\ inbox' = <<>>
    /\ main' = "exit"
    /\ UNCHANGED <<argumentVars, file, configuration, sensors, published, workerVars, received>>

\* the process is over
Exited == main = "exit" /\ worker = "idle" /\ UNCHANGED vars

-----------------------------------------------------------------------------
(* The control plane's worker thread.                                       *)

\* A tester's message arrives.
Receive(m) ==
    /\ instance
    /\ Len(inbox) < MaxQueue
    /\ received < MaxReceived
    /\ inbox' = Append(inbox, m)
    /\ received' = received + 1
    /\ UNCHANGED <<mainVars, planeVars, workerVars>>

\* The worker takes the next message, unless it is to stop.
TakeMessage ==
    /\ worker = "idle"
    /\ inbox # <<>>
    /\ main \notin {"stop", "exit"}
    /\ worker' = "busy"
    /\ pending' = {key \in registered : Present(Head(inbox), key)}
    /\ UNCHANGED <<mainVars, planeVars, injecting, hits, inbox, received>>

\* Mutant: the end of the list is not told from a sensor.
LookupUnchecked(list, id) ==
    IF \E i \in DOMAIN list : list[i].id = id
    THEN CHOOSE i \in DOMAIN list : list[i].id = id
    ELSE Len(list) + 1

\* getMotionSensor: the place of the first sensor of the list with the id, or 0
Lookup(list, id) ==
    IF \E i \in DOMAIN list : list[i].id = id
    THEN CHOOSE i \in DOMAIN list :
            list[i].id = id /\ \A j \in DOMAIN list : list[j].id = id => i <= j
    ELSE 0

\* the sensor the handler calls for message m: 0 if it returns before
Addressed(m) == IF IsMotionCommand(m) THEN Lookup(sensors, SensorId(FirstId(m.id))) ELSE 0

\* onControlPlaneMessage for one key, up to the call of injectMotionEvent;
\* the library may call for the keys in any order
HandleKey(key) ==
    /\ worker = "busy"
    /\ injecting = 0
    /\ key \in pending
    /\ pending' = pending \ {key}
    /\ LET m == Head(inbox)
       IN injecting' = IF Filtered(m, key) \/ ~manager THEN 0 ELSE Addressed(m)
    /\ UNCHANGED <<mainVars, planeVars, worker, hits, inbox, received>>

\* injectMotionEvent returns; what it answers is logged
InjectReturns ==
    /\ injecting # 0
    /\ hits' = Append(hits, injecting)
    /\ injecting' = 0
    /\ UNCHANGED <<mainVars, planeVars, worker, pending, inbox, received>>

\* All callbacks of the message were made.
FinishMessage ==
    /\ worker = "busy"
    /\ pending = {}
    /\ injecting = 0
    /\ worker' = "idle"
    /\ inbox' = Tail(inbox)
    /\ hits' = <<>>
    /\ UNCHANGED <<mainVars, planeVars, pending, injecting, received>>

-----------------------------------------------------------------------------
MainStep ==
    \/ ReadOption \/ RejectArguments \/ OpenFile
    \/ ReadSensor \/ RejectEmptyFile \/ MakeManager
    \/ InitFails \/ RegisterCallbacks \/ PublishService \/ StopControlPlane

WorkerStep ==
    \/ TakeMessage
    \/ \E key \in Key : HandleKey(key)
    \/ InjectReturns
    \/ FinishMessage

Next ==
    \/ MainStep
    \/ LeaveThreadPool
    \/ WorkerStep
    \/ \E m \in Messages : Receive(m)
    \/ Exited

Spec == Init /\ [][Next]_vars
=============================================================================
