---------------------------- MODULE OneShotTimer ----------------------------
(***************************************************************************)
(* What the inactivity timer and the window scheduler of a motion sensor   *)
(* promise: a one-shot timer that can be armed again.  Each time it is     *)
(* armed it gets a new number.  At most one number is live, arming it      *)
(* again takes a cancel first, and only a live number fires: one that was  *)
(* cancelled may go on sleeping, but it never fires any more, whatever is  *)
(* armed after it.                                                         *)
(*                                                                         *)
(* The threads, flags and generations with which the code keeps that       *)
(* promise are in MotionSensor.                                            *)
(***************************************************************************)
EXTENDS Integers

VARIABLES
    last,    \* the number given out last
    live,    \* the number that can still fire: a set of at most one
    asleep,  \* the numbers whose thread sleeps
    awake    \* the numbers whose thread is starting or has fired

vars == <<last, live, asleep, awake>>

Init == last = 0 /\ live = {} /\ asleep = {} /\ awake = {}

\* A new number.  The thread that arms the timer may be one that fired, and
\* end with that.
Arm ==
    /\ live = {}
    /\ last' = last + 1
    /\ live' = {last + 1}
    /\ \E ended \in SUBSET awake : awake' = (awake \ ended) \cup {last + 1}
    /\ UNCHANGED asleep

\* Nothing can fire.  A number may be used up.
Cancel ==
    /\ live' = {}
    /\ last' \in {last, last + 1}
    /\ awake' \in SUBSET awake
    /\ UNCHANGED asleep

\* The thread of g begins its sleep.
Sleep(g) ==
    /\ g \in awake
    /\ awake' = awake \ {g}
    /\ asleep' = asleep \cup {g}
    /\ UNCHANGED <<last, live>>

\* The period is over and g is live.
Fire(g) ==
    /\ g \in asleep \cap live
    /\ awake' = awake \cup {g}
    /\ asleep' = asleep \ {g}
    /\ UNCHANGED <<last, live>>

\* A cancelled thread notices.
Drop(g) ==
    /\ g \in asleep \ live
    /\ asleep' = asleep \ {g}
    /\ UNCHANGED <<last, live, awake>>

\* A thread ends.
Return(g) ==
    /\ g \in awake
    /\ awake' = awake \ {g}
    /\ live' = live \ {g}
    /\ UNCHANGED <<last, asleep>>

Next ==
    \/ Arm \/ Cancel
    \/ \E g \in awake : Sleep(g) \/ Return(g)
    \/ \E g \in asleep : Fire(g) \/ Drop(g)

Spec == Init /\ [][Next]_vars
=============================================================================
