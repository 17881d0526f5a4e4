---------------------------- MODULE ControlPlane ----------------------------
(***************************************************************************)
(* What onControlPlaneMessage reads out of a message                       *)
(* (src/src/controller/vcomponent_MotionSensorControlPlane.cpp).           *)
(*                                                                         *)
(* The UT control plane calls back once for each registered key a message  *)
(* has, and the service registers three: the root "IMotionSensor", the     *)
(* command below it and a plain command.  Each call looks at the whole     *)
(* message, so a filter has to leave one call out of up to three.          *)
(***************************************************************************)
EXTENDS Integers, Sequences, FiniteSets

CONSTANT Half   \* half the range of a 32-bit integer: 2^31 in the code

ASSUME HalfAssumption == Half \in Nat \ {0}

Root == "IMotionSensor"
NamespacedCommand == "IMotionSensor/command"
PlainCommand == "command"

Key == {Root, NamespacedCommand, PlainCommand}

Int32 == (-Half)..(Half - 1)

UInt32 == 0..(2 * Half - 1)

\* static_cast<int32_t> of a uint32_t
AsInt32(u) == IF u < Half THEN u ELSE u - 2 * Half

\* A field may be given below the root, plainly, or both.
Field(S) == [namespaced : S, plain : S]

CommandText == {"absent", "empty", "motion_sensor_event", "other"}

EventText == {"absent", "empty", "MOTION", "other"}

\* A sensor id that parseNonNegativeInt32 accepts is a "number" with its
\* value; any other text has the value ut_kvp_getUInt32Field gives it.
IdText ==      [is : {"absent"}, value : {0}]
          \cup [is : {"number"}, value : 0..(Half - 1)]
          \cup [is : {"other"}, value : UInt32]

\* "root": does ut_kvp_fieldPresent report the key IMotionSensor?  That key has
\* no text of its own, so the library may say no although there are fields
\* below it.
Message == [root : BOOLEAN, command : Field(CommandText),
            event : Field(EventText), id : Field(IdText)]

\* kvpFieldPresent for a registered key
Present(m, key) ==
    \/ key = Root /\ m.root
    \/ key = NamespacedCommand /\ m.command.namespaced # "absent"
    \/ key = PlainCommand /\ m.command.plain # "absent"

\* kvpGetFirstString: the first field with a text in it
FirstString(field) ==
    IF field.namespaced \notin {"absent", "empty"} THEN field.namespaced ELSE field.plain

\* kvpGetFirstSensorId: the first field there is
FirstId(field) ==
    IF field.namespaced.is # "absent" THEN field.namespaced ELSE field.plain

\* the number of an id: parseNonNegativeInt32, or the unsigned field cast
SensorId(text) == IF text.is = "number" THEN text.value ELSE AsInt32(text.value)

\* Mutant: the plain command is left out for the root only.
FilteredByRootOnly(m, key) ==
    key \in {NamespacedCommand, PlainCommand} /\ Present(m, Root)

\* the calls the handler returns from at once
Filtered(m, key) ==
    \/ key = NamespacedCommand /\ Present(m, Root)
    \/ key = PlainCommand /\ (Present(m, Root) \/ Present(m, NamespacedCommand))

\* the checks of the handler before it looks for the sensor
IsMotionCommand(m) ==
    /\ FirstString(m.command) = "motion_sensor_event"
    /\ FirstString(m.event) = "MOTION"
    /\ FirstId(m.id).is # "absent"
=============================================================================
