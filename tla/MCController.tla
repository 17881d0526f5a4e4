---------------------------- MODULE MCController ----------------------------
(* Values of the constants of Controller for TLC.                           *)
EXTENDS Controller

CONSTANTS c1, i1, l1, invalid

OneClient == {c1}
OneInject == {i1}
OneListener == {l1}
None == {}

\* Two start configurations of sessions that report motion
TwoConfigs ==
    [mode : {"MOTION"}, noMotion : BOOLEAN, activeStart : {FALSE}, activeStop : {FALSE}]

AnyWindows == BOOLEAN

\* None of the windows clients pass is valid: sessions have no scheduler.
OneWindow == {invalid}

\* With sensitivity control only, and with deep-sleep autonomy only
EitherControl == {[minSensitivity |-> 1, maxSensitivity |-> 1, autonomy |-> FALSE],
                  [minSensitivity |-> 0, maxSensitivity |-> 0, autonomy |-> TRUE]}

\* Below, in and above the range
AroundTheRange == 0..2
=============================================================================
