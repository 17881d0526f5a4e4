------------------------------ MODULE MCService ------------------------------
(* Values of the constants of Service for TLC.                              *)
EXTENDS ServiceProperties

Sensor(id) == [id |-> id, readable |-> TRUE, min |-> 1, max |-> 2, mode |-> "MOTION",
               windows |-> {[start |-> 72000, end |-> SecondsPerDay - 1]}]

\* What may be wrong with a sensor of the file
Invalid == [field |-> [Sensor(1) EXCEPT !.readable = FALSE],
            range |-> [Sensor(1) EXCEPT !.min = 3],
            mode |-> [Sensor(1) EXCEPT !.mode = "other"],
            window |-> [Sensor(1) EXCEPT !.windows = {[start |-> 0, end |-> SecondsPerDay]}]]

\* Files with several sensors (two with the same id, one with a negative id),
\* with one, with an invalid one behind a valid one, and with none
SomePaths == {"several", "one", "none", "--port"} \cup DOMAIN Invalid

SomeFiles == [p \in SomePaths |->
    CASE p = "several" -> <<Sensor(0), Sensor(1), Sensor(1), Sensor(-1)>>
      [] p = "one" -> <<Sensor(0)>>
      [] p \in DOMAIN Invalid -> <<Sensor(0), Invalid[p]>>
      [] OTHER -> <<>>]

Hfp == [option |-> "--hfp", path |-> "none", port |-> 0]
Port == [option |-> "--port", path |-> "--port", port |-> 0]
Text(p) == [option |-> "other", path |-> p, port |-> 0]
PortNumber(n) == [option |-> "other", path |-> "none", port |-> n]

\* no option, one, one without a value or with one that does not suit it, one
\* given twice, and an option as the value of another
SomeCommandLines ==
         {<<>>, <<Hfp>>, <<Text("one")>>, <<Hfp, Text("")>>, <<Hfp, Port>>,
          <<Hfp, Port, PortNumber(1)>>, <<Port, Hfp, Text("one")>>,
          <<Hfp, Text("none"), Hfp, Text("one")>>, <<Hfp, Text("one"), Port>>,
          <<Port, PortNumber(1), Hfp, Text("one"), Port, PortNumber(65535)>>}
    \cup {<<Hfp, Text(p)>> : p \in SomePaths}
    \cup {<<Port, PortNumber(n)>> : n \in {-1, 0, 65536}}
    \cup {<<Port, PortNumber(0), Port, PortNumber(1)>>}

Absent == [is |-> "absent", value |-> 0]
Number(n) == [is |-> "number", value |-> n]
Other(u) == [is |-> "other", value |-> u]

Both(namespaced, plain) == [namespaced |-> namespaced, plain |-> plain]

\* every way to give the command; an event and an id of every kind
SomeMessages ==
         [root : BOOLEAN, command : Field(CommandText \ {"other"}),
          event : {Both("absent", "MOTION")}, id : {Both(Absent, Number(1))}]
    \cup [root : {TRUE}, command : {Both("other", "motion_sensor_event")},
          event : {Both("absent", "MOTION")}, id : {Both(Absent, Number(0))}]
    \cup [root : {FALSE}, command : {Both("absent", "motion_sensor_event")},
          event : {Both("empty", "MOTION"), Both("other", "MOTION")},
          id : {Both(Number(0), Number(1)), Both(Other(2 * Half - 1), Number(0)),
                Both(Absent, Absent), Both(Absent, Other(2))}]
=============================================================================
