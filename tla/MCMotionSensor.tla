--------------------------- MODULE MCMotionSensor ---------------------------
(* Values of the constants of MotionSensor for TLC.                         *)
EXTENDS MotionSensorProperties, TLC

CONSTANTS c1, c2, d1, i1, l1    \* threads and a listener

OneClient  == {c1}
TwoClients == {c1, c2}
OneDeath   == {d1}
OneInject  == {i1}
OneListener == {l1}
None       == {}

Config(mode, noMotion, activeStart, activeStop) ==
    [mode |-> mode, noMotion |-> noMotion, activeStart |-> activeStart,
     activeStop |-> activeStop]

\* MOTION mode with every combination of activation delay and automatic stop
MotionConfigs == {Config("MOTION", FALSE, a, s) : a \in BOOLEAN, s \in BOOLEAN}

\* NO_MOTION mode, with an automatic stop or with an activation delay
TimedNoMotionConfigs == {Config("NO_MOTION", TRUE, FALSE, TRUE),
                         Config("NO_MOTION", TRUE, TRUE, FALSE)}

\* NO_MOTION mode with nothing else
PlainNoMotionConfigs == {Config("NO_MOTION", TRUE, FALSE, FALSE)}

\* MOTION mode with an automatic stop
StoppingMotionConfigs == {Config("MOTION", FALSE, FALSE, TRUE)}

\* MOTION mode with nothing else
PlainMotionConfigs == {Config("MOTION", FALSE, FALSE, FALSE)}

NoWindows == {FALSE}
SomeWindows == {TRUE}
AnyWindows == BOOLEAN

\* Client threads are interchangeable (for runs of safety properties only).
ClientSymmetry == Permutations(ClientThreads)
=============================================================================
