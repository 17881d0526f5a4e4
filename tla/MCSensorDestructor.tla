------------------------- MODULE MCSensorDestructor -------------------------
(* Values of the constants of SensorDestructor for TLC.                     *)
EXTENDS SensorDestructor

CONSTANT c1  \* a client thread

OneClient == {c1}
None == {}
SomeWindows == {TRUE}

\* A session in MOTION mode that starts after a delay
DelayedConfigs == {[mode |-> "MOTION", noMotion |-> FALSE, activeStart |-> TRUE,
                    activeStop |-> FALSE]}
=============================================================================
