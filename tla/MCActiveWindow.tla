-------------------------- MODULE MCActiveWindow ----------------------------
(* Values of the constants of ActiveWindow for TLC: a day of a few seconds, *)
(* and every set of at most two windows on it.                              *)
EXTENDS ActiveWindow

UpToTwoWindows == {{}} \cup {{v, w} : v \in Window, w \in Window}

OneWindow == {{w} : w \in Window}
=============================================================================
