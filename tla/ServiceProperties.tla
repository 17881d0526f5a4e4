-------------------------- MODULE ServiceProperties --------------------------
(* What the process around the sensors promises.                            *)
EXTENDS Service

\* What main has read of its arguments.
ArgumentsTypeOK ==
    arguments \in CommandLines /\ index \in Nat \ {0} /\ path \in Paths /\ ValidPort(port)

\* Every variable has its type.
TypeOK ==
    /\ main \in {"arguments", "load", "start", "publish", "serve", "stop", "exit"}
    /\ ArgumentsTypeOK
    /\ file \in Seq(Entry) /\ configuration \in Seq(Entry) /\ sensors \in Seq(Entry)
    /\ instance \in BOOLEAN /\ manager \in BOOLEAN /\ published \in BOOLEAN
    /\ registered \subseteq Key
    /\ inbox \in Seq(Message)
    /\ worker \in {"idle", "busy"}
    /\ pending \subseteq Key
    /\ injecting \in 0..Len(sensors)
    /\ hits \in Seq(DOMAIN sensors)
    /\ received \in Nat

\* When the callbacks of a message are through, it has been injected exactly
\* once, into a sensor that has the id it gives, or not at all if it is no
\* motion command or no sensor has that id.  A message reaches
\* onControlPlaneMessage once for each registered key it has; the returns on
\* kCommandKey and kPlainCommandKey must add up to one motion, whichever keys
\* are there, in whatever order, and whether or not the library reports the
\* root.
InjectedOnce ==
    worker = "busy" /\ pending = {} /\ injecting = 0 =>
        LET m == Head(inbox)
            Named == {i \in DOMAIN sensors : sensors[i].id = SensorId(FirstId(m.id))}
        IN IF IsMotionCommand(m) /\ Named # {}
           THEN \E i \in Named : hits = <<i>>
           ELSE hits = <<>>

\* While the worker handles a message there is a manager behind the pointer it
\* reads: gMotionSensorManager is set, and main, which owns the manager, has
\* not returned.  The pointer is not locked; only the order of the calls in
\* startMotionSensorControlPlane, stopMotionSensorControlPlane and main
\* protects it.
ManagerOutlivesWorker ==
    worker = "busy" => instance /\ manager /\ main \in {"publish", "serve", "stop"}

\* However main ends, nothing of the control plane is left: a later
\* startMotionSensorControlPlane would take a leftover instance for a running
\* one, and a callback would use the manager after its destruction.
ExitLeavesNothing ==
    main = "exit" => ~instance /\ ~manager /\ registered = {} /\ worker = "idle"

\* The service is offered, and its control plane runs, only with the sensors
\* of the whole file, all of them valid: an invalid sensor is never skipped,
\* and the valid ones before it are not served alone.
ServesWholeFile ==
    main \in {"publish", "serve", "stop"} =>
        /\ sensors = file
        /\ \A i \in DOMAIN sensors : ValidEntry(sensors[i])

\* The places of the first n arguments that are the option o
Options(o, n) == {i \in 1..n : i % 2 = 1 /\ arguments[i].option = o}

\* i is the place where option o was given last
IsLast(i, o, n) == i \in Options(o, n) /\ \A j \in Options(o, n) : j <= i

\* After n arguments p is the path, or the port, given last, or the default.
PathGiven(n, p) ==
    \/ Options("--hfp", n) = {} /\ p = DefaultPath
    \/ \E i \in 1..n : IsLast(i, "--hfp", n) /\ p = arguments[i + 1].path

PortGiven(n, p) ==
    \/ Options("--port", n) = {} /\ p = DefaultPort
    \/ \E i \in 1..n : IsLast(i, "--port", n) /\ p = arguments[i + 1].port

\* The first n arguments are options, each with its value.
Understood(n) ==
    \A i \in 1..n : i % 2 = 1 => i < Len(arguments) /\ arguments[i].option # "other"

\* The service runs only if every argument was understood, as options with
\* their values in turn, and then with the file and on the port that were
\* asked for last: an argument that is no value is not passed over, a value
\* that looks like an option is not taken for one, and what was wrong with
\* one option is not forgotten over the next.
ArgumentsHonoured ==
    main \notin {"arguments", "exit"} =>
        /\ Understood(Len(arguments))
        /\ \E p \in Paths : PathGiven(Len(arguments), p) /\ file = FileAt[p]
        /\ PortGiven(Len(arguments), port)
=============================================================================
