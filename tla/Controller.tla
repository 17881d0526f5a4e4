----------------------------- MODULE Controller -----------------------------
(***************************************************************************)
(* The rest of a MotionSensorController: the settings of the sensor and    *)
(* the calls that read it (vcomponent_MotionSensorController.cpp), on top  *)
(* of the sensor of MotionSensor with all its threads.  Every open() hands *)
(* out a controller, named by the number of the opening; a client may keep *)
(* using the one of a session that is over, next to the controller of the  *)
(* current one.                                                            *)
(*                                                                         *)
(* Each of these calls is one critical section.  One that the code rejects *)
(* changes nothing and is not a step.                                      *)
(***************************************************************************)
EXTENDS MotionSensorProperties

CONSTANTS
    Capabilities,   \* capabilities a sensor may be configured with
    Sensitivities,  \* sensitivities clients ask for
    Windows,        \* time windows clients ask for
    ValidWindows    \* those isValidWindow accepts

ASSUME CapabilitiesAssumption ==
    Capabilities \subseteq [minSensitivity : Int, maxSensitivity : Int, autonomy : BOOLEAN]

\* A file with an empty range of sensitivities is rejected.
ASSUME RangeAssumption ==
    \A cap \in Capabilities : cap.minSensitivity <= cap.maxSensitivity

ASSUME SettingsAssumption == Sensitivities \subseteq Int /\ ValidWindows \subseteq Windows

VARIABLES
    capabilities,  \* m_capabilities
    settings,      \* m_sensitivity, m_autonomousDuringDeepSleepEnabled, m_activeWindows
    known,         \* what the owner was told of the settings in its session
    starter,       \* the controller whose start() was accepted last, or 0
    asked,         \* the configuration it passed to that start()
    underWay,      \* the stamps that were under way at that start()
    answer         \* what the last step answered, if it was a call about the session

settingVars == <<capabilities, settings, known>>
historyVars == <<starter, asked, underWay, answer>>
controllerVars == <<vars, settingVars, historyVars>>

NoAnswer == [call |-> "none"]

\* The constructor: the lowest sensitivity and the windows of the file
ControllerInit ==
    /\ Init
    /\ capabilities \in Capabilities
    /\ \E ws \in SUBSET ValidWindows :
          /\ settings = [sensitivity |-> capabilities.minSensitivity,
                         autonomous |-> FALSE, windows |-> ws]
          /\ hasWindows = (ws # {})
    /\ known = <<>>
    /\ starter = 0
    /\ asked = startConfig
    /\ underWay = {}
    /\ answer = NoAnswer
-----------------------------------------------------------------------------
\* The owner hears that setting f is v
Learn(f, v) ==
    known' = [g \in DOMAIN known \cup {f} |-> IF g = f THEN v ELSE known[g]]

\* Mutant: the controller of any opening may change settings.
MayConfigureAnyController(t, c) ==
    /\ MayCall(t)
    /\ Unlocked
    /\ owner # 0 /\ c \notin dead
    /\ state = "STOPPED"

\* Settings are the owner's, and fixed while the sensor runs
MayConfigure(t, c) ==
    /\ MayCall(t)
    /\ Unlocked
    /\ owner = c /\ c \notin dead
    /\ state = "STOPPED"

\* Setting f becomes v and the caller is told so
Configure(c, f, v) ==
    /\ settings' = [settings EXCEPT ![f] = v]
    /\ IF c = owner THEN Learn(f, v) ELSE UNCHANGED known
    /\ answer' = NoAnswer
    /\ UNCHANGED <<capabilities, starter, asked, underWay>>

\* Mutant: a sensor without sensitivity control takes any value.
SetSensitivityUnsupported(t, c, s) ==
    /\ MayConfigure(t, c)
    /\ \/ s \in capabilities.minSensitivity..capabilities.maxSensitivity
       \/ capabilities.minSensitivity = 0 /\ capabilities.maxSensitivity = 0
    /\ Configure(c, "sensitivity", s)
    /\ UNCHANGED vars

\* setSensitivity: a range of 0 to 0 means that there is no such control
SetSensitivity(t, c, s) ==
    /\ MayConfigure(t, c)
    /\ ~(capabilities.minSensitivity = 0 /\ capabilities.maxSensitivity = 0)
    /\ s \in capabilities.minSensitivity..capabilities.maxSensitivity
    /\ Configure(c, "sensitivity", s)
    /\ UNCHANGED vars

\* setAutonomousDuringDeepSleep
SetAutonomousDuringDeepSleep(t, c, enabled) ==
    /\ MayConfigure(t, c)
    /\ capabilities.autonomy
    /\ Configure(c, "autonomous", enabled)
    /\ UNCHANGED vars

ReplaceWindows(t, c, ws) ==
    /\ MayConfigure(t, c)
    /\ Configure(c, "windows", ws)
    /\ hasWindows' = (ws # {})
    /\ UNCHANGED <<threadVars, state, owner, startConfig, lastEvent, within, listeners,
                   timerVars, worldVars>>

\* setActiveWindows: all of the windows or none
SetWindows(t, c, ws) == ws \subseteq ValidWindows /\ ReplaceWindows(t, c, ws)

\* clearActiveWindows
ClearWindows(t, c) == ReplaceWindows(t, c, {})
-----------------------------------------------------------------------------
\* A getter of setting f, in any state of the sensor
ReadSetting(c, f) ==
    /\ Unlocked
    /\ owner = c /\ c \notin dead
    /\ Learn(f, settings[f])
    /\ answer' = NoAnswer
    /\ UNCHANGED <<vars, capabilities, settings, starter, asked, underWay>>

GetSensitivity(c) == ReadSetting(c, "sensitivity")
IsAutonomousDuringDeepSleepEnabled(c) == ReadSetting(c, "autonomous")
GetActiveWindows(c) == ReadSetting(c, "windows")

\* Mutant: the session need not be running.
MayReadSessionStopped(c) ==
    /\ Unlocked
    /\ owner = c /\ c \notin dead

\* The start configuration and the last event belong to a running session
MayReadSession(c) ==
    /\ Unlocked
    /\ owner = c /\ c \notin dead
    /\ state # "STOPPED"

GetStartConfig(c) ==
    /\ MayReadSession(c)
    /\ answer' = [call |-> "getStartConfig", by |-> c, config |-> startConfig]
    /\ UNCHANGED <<vars, settingVars, starter, asked, underWay>>

GetLastEventInfo(c) ==
    /\ MayReadSession(c)
    /\ answer' = [call |-> "getLastEventInfo", by |-> c, event |-> lastEvent]
    /\ UNCHANGED <<vars, settingVars, starter, asked, underWay>>
-----------------------------------------------------------------------------
\* Any step of the sensor.  A new owner has not been told anything yet.
SensorStep ==
    /\ Next
    /\ hasWindows' = hasWindows
    /\ UNCHANGED <<capabilities, settings>>
    /\ known' = IF owner' = owner THEN known ELSE <<>>
    /\ IF starts' = starts
       THEN UNCHANGED <<starter, asked, underWay>>
       ELSE starter' = owner /\ asked' = startConfig' /\ underWay' = UnderWay
    /\ answer' = NoAnswer

SettingCall(c) ==
    \/ \E t \in Thread :
          \/ \E s \in Sensitivities : SetSensitivity(t, c, s)
          \/ \E enabled \in BOOLEAN : SetAutonomousDuringDeepSleep(t, c, enabled)
          \/ \E ws \in SUBSET Windows : SetWindows(t, c, ws)
          \/ ClearWindows(t, c)
    \/ GetSensitivity(c) \/ IsAutonomousDuringDeepSleepEnabled(c) \/ GetActiveWindows(c)

SessionCall(c) == GetStartConfig(c) \/ GetLastEventInfo(c)

ControllerNext ==
    \/ SensorStep
    \/ \E c \in 1..opens : SettingCall(c) \/ SessionCall(c)

ControllerSpec == ControllerInit /\ [][ControllerNext]_controllerVars
-----------------------------------------------------------------------------
\* The type of the settings is what the file allows: however many clients set
\* them, in whatever order, the sensitivity stays in the range of the
\* capabilities (and at 0 when there is no such control), deep-sleep autonomy
\* is on only where it is supported, and every window is valid and known to
\* the sensor (hasWindows is what the timers look at).
SettingsWithinCapabilities ==
    /\ capabilities \in Capabilities
    /\ settings \in [sensitivity : capabilities.minSensitivity..capabilities.maxSensitivity,
                     autonomous : {FALSE, capabilities.autonomy},
                     windows : SUBSET ValidWindows]
    /\ hasWindows = (settings.windows # {})

\* What a client set or read is what its sensor uses until the client itself
\* changes it: nothing that the controller of an earlier session does, no
\* start, stop or timer of its own, and no death of another client gets
\* between a setter's or a getter's answer and the session that relies on it.
OwnerKnowsSettings == \A f \in DOMAIN known : known[f] = settings[f]

\* getStartConfig and getLastEventInfo tell a client of the session it started
\* itself, never of one of an earlier owner whose configuration and event the
\* sensor still holds.  What the code does not rule out is an event that was
\* stamped before that start and that a thread was still injecting or
\* delivering then: it is written after the unlocked delivery, whoever has
\* started the sensor meanwhile.
ReadsOwnSession ==
    /\ answer.call # "none" => answer.by = starter
    /\ answer.call = "getStartConfig" => answer.config = asked
    /\ answer.call = "getLastEventInfo" /\ answer.event # 0
          => answer.event > resetAt \/ answer.event \in underWay
=============================================================================
