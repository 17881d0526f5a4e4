--------------------------- MODULE SensorLifecycle ---------------------------
(***************************************************************************)
(* What a client may rely on that opens a motion sensor and calls it one   *)
(* call at a time: the sensor is owned by one session at a time, follows   *)
(* its life cycle, and leaves every transient state by itself.  Timers,    *)
(* callbacks and the mutex, with which the code brings that about, are in  *)
(* MotionSensor.                                                           *)
(***************************************************************************)
EXTENDS Integers

VARIABLES
    state,    \* the state of the sensor
    session,  \* the opening that owns the sensor, or 0
    opened,   \* number of openings so far
    limited   \* does the running session stop by itself?

lifeVars == <<state, session, opened, limited>>

LifeInit == state = "STOPPED" /\ session = 0 /\ opened = 0 /\ limited = FALSE

\* open(): a sensor has one owner
Open ==
    /\ session = 0
    /\ opened' = opened + 1
    /\ session' = opened + 1
    /\ UNCHANGED <<state, limited>>

\* close(): of a stopped sensor only
Close ==
    /\ session # 0 /\ state = "STOPPED"
    /\ session' = 0
    /\ UNCHANGED <<state, opened, limited>>

\* start(), with or without activeStopSeconds
Start(stops) ==
    /\ session # 0 /\ state = "STOPPED"
    /\ state' = "STARTING"
    /\ limited' = stops
    /\ UNCHANGED <<session, opened>>

\* at once, or after activeStartSeconds
Activate ==
    /\ state = "STARTING"
    /\ state' = "STARTED"
    /\ UNCHANGED <<session, opened, limited>>

\* stop(), or the automatic stop
GoDown ==
    /\ state = "STARTED"
    /\ state' = "STOPPING"
    /\ UNCHANGED <<session, opened, limited>>

Finish ==
    /\ state = "STOPPING"
    /\ state' = "STOPPED"
    /\ limited' = FALSE
    /\ UNCHANGED <<session, opened>>

LifeNext ==
    \/ Open \/ Close
    \/ \E stops \in BOOLEAN : Start(stops)
    \/ Activate \/ GoDown \/ Finish

\* What the sensor owes without another call.
Progress ==
    /\ state = "STARTING" ~> state # "STARTING"
    /\ state = "STOPPING" ~> state = "STOPPED"
    /\ state = "STARTED" /\ limited ~> state # "STARTED"

Spec == LifeInit /\ [][LifeNext]_lifeVars /\ Progress
=============================================================================
