-------------------------- MODULE SensorDestructor --------------------------
(***************************************************************************)
(* The end of a motion sensor: ~MotionSensor against the timer threads     *)
(* that are still running (src/src/aidl/vcomponent_MotionSensor.cpp).  It  *)
(* runs when the last reference is dropped, so no call of a client, of the *)
(* driver or of the control plane is in progress then and none comes any   *)
(* more; a session may still be running.                                   *)
(***************************************************************************)
EXTENDS MotionSensorProperties

VARIABLES
    life,  \* "alive", "joining" (in the destructor) or "destroyed"
    taken  \* taken[k]: the thread the destructor moved out of handle k

destructorVars == <<vars, life, taken>>

DestructorInit ==
    /\ Init
    /\ life = "alive"
    /\ taken = [k \in Kind |-> Nobody]

\* The critical section: every timer is cancelled, gets a new generation and
\* loses its handle to the destructor
BeginDestruction ==
    /\ life = "alive"
    /\ Unlocked
    /\ \A t \in PoolThreads : at[t] = "idle"
    /\ \A k \in Kind : gen[k] < MaxGen
    /\ life' = "joining"
    /\ taken' = handle
    /\ handle' = [k \in Kind |-> Nobody]
    /\ cancelled' = [k \in Kind |-> TRUE]
    /\ gen' = [k \in Kind |-> gen[k] + 1]
    /\ UNCHANGED <<threadVars, sensorVars, worldVars>>

\* The joins, after which the members are destroyed
EndDestruction ==
    /\ life = "joining"
    /\ \A k \in Kind : taken[k] # Nobody => at[taken[k]] = "idle"
    /\ life' = "destroyed"
    /\ UNCHANGED <<vars, taken>>

\* The sensor serves calls while it is referenced; its timer threads run until
\* it is destroyed.
DestructorNext ==
    \/ life = "alive" /\ (ClientCall \/ ClientDies \/ DeathNotice) /\ UNCHANGED <<life, taken>>
    \/ /\ life # "destroyed"
       /\ \/ \E t \in Thread : Step(t)
          \/ \E k \in Kind, g \in 1..MaxGen : TimerStep(k, g)
       /\ UNCHANGED <<life, taken>>
    \/ BeginDestruction
    \/ EndDestruction

DestructorSpec == DestructorInit /\ [][DestructorNext]_destructorVars

\* No timer thread is left when the members are destroyed, neither running nor
\* in a member: the destructor "prevents delayed lifecycle work from accessing
\* a sensor after the manager releases its final Binder reference"
\* (vcomponent_MotionSensor.h:77-78).
DestructorClean ==
    life = "destroyed" => /\ \A k \in Kind : handle[k] = Nobody
                          /\ \A t \in TimerThreads : at[t] = "idle"
=============================================================================
