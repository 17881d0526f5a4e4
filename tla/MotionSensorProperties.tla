----------------------- MODULE MotionSensorProperties -----------------------
(* What the code of one motion sensor promises.                             *)
EXTENDS MotionSensor

\* The places a thread can be in (at[t]).
Place == {"idle", "begin", "run", "callback", "join", "wait", "deliver", "terminated"}

\* Where each thread is, and what it still has to do.
ThreadsTypeOK ==
    /\ mutex \in Thread \cup {Nobody}
    /\ at \in [Thread -> Place]
    /\ todo \in [Thread -> Seq(Op)]
    /\ target \in [Thread -> Thread \cup {Nobody}]

\* The snapshots of listeners that threads are calling.
EventsTypeOK ==
    /\ audience \in [Thread -> SUBSET Listeners]
    /\ delivered \in [Thread -> BOOLEAN]

SensorTypeOK ==
    /\ state \in State
    /\ owner \in 0..MaxOpens
    /\ startConfig \in StartConfig
    /\ lastEvent \in Nat
    /\ hasWindows \in BOOLEAN
    /\ within \in BOOLEAN
    /\ listeners \subseteq Listeners

\* A handle owns a thread of its own kind.
TimersTypeOK ==
    /\ handle \in [Kind -> TimerThreads \cup {Nobody}]
    /\ \A k \in Kind : handle[k] # Nobody => handle[k][1] = k
    /\ cancelled \in [Kind -> BOOLEAN]
    /\ gen \in [Kind -> 0..MaxGen]

WorldTypeOK ==
    /\ opens \in Nat /\ starts \in Nat /\ stamps \in Nat
    /\ resetAt \in Nat /\ boundaries \in Nat
    /\ obituaries \subseteq dead /\ dead \subseteq 1..MaxOpens

\* Every variable has its type.
TypeOK == ThreadsTypeOK /\ EventsTypeOK /\ SensorTypeOK /\ TimersTypeOK /\ WorldTypeOK
-----------------------------------------------------------------------------
(* The timer threads.                                                       *)

\* The kinds whose threads look at their generation while they wait
GenerationKind == Kind \ {"lifecycle"}

\* At most one inactivity timer and one window scheduler can still fire, and
\* it is the one m_noMotionTimerThread or m_activeWindowSchedulerThread owns.
\* The generations and flags of the code exist for this: a timer that lost
\* its handle in the window a join or a callback opens can never be cancelled
\* again, and would report inactivity of a session that is over.
ArmedTimerIsOwned ==
    \A k \in GenerationKind, g \in 1..MaxGen :
        at[<<k, g>>] \in {"begin", "wait"} /\ ~WaitOver(k, g) => handle[k] = <<k, g>>

\* A thread joins only timers that are on their way out: t joins a waiting
\* timer of one of kinds only after the predicate of its wait_for became
\* true, and nothing makes it false again before the timer has seen it.
PromptJoinOf(kinds) ==
    \A t \in Thread, k \in kinds, g \in 1..MaxGen :
        at[t] = "join" /\ target[t] = <<k, g>> /\ at[<<k, g>>] = "wait" => WaitOver(k, g)

\* No call waits out the period of an inactivity timer or of a window
\* scheduler that it cancels, even when another thread starts the next timer
\* (and clears the flag) before the cancelled one wakes.
PromptJoin == PromptJoinOf(GenerationKind)

\* The same for the lifecycle thread, whose wait looks at the flag alone.
PromptLifecycleJoin == PromptJoinOf({"lifecycle"})

\* Assigning a new thread never finds the old one still in its handle, which
\* would end the service process with std::terminate.
NeverTerminates == ~Terminated

-----------------------------------------------------------------------------
(* The session.                                                             *)

\* No thread is anywhere between taking the mutex and being done.
Settled == \A t \in Thread : at[t] \in {"idle", "wait"}

\* A sensor that is starting or started is open: nobody else's close, and no
\* death of the owner, leaves it running with no one who could stop it.
SessionHasOwner == state \in {"STARTING", "STARTED"} => owner # 0

\* When a stopped sensor is at rest it has no timer thread left: none of them
\* reaches into the next session.
StoppedMeansQuiet == state = "STOPPED" /\ Settled => \A t \in Thread : at[t] = "idle"

\* A thread of kind k waits, is the one the handle owns, and is not cancelled
Pending(k) ==
    /\ handle[k] # Nobody
    /\ at[handle[k]] = "wait"
    /\ ~cancelled[k] /\ gen[k] = handle[k][2]

\* At rest, a session has the threads its future depends on: the one that
\* ends the activation delay, the one that stops it automatically and the one
\* that notices the next window boundary.  A missing one is never replaced.
TimersArmed ==
    Settled => /\ state # "STOPPING"
               /\ state = "STARTING" => Pending("lifecycle")
               /\ state = "STARTED" /\ startConfig.activeStop => Pending("lifecycle")
               /\ state = "STARTED" /\ hasWindows => Pending("window")

\* Once a session goes down no inactivity event of it is being delivered: the
\* timer thread was joined first, its calls of the listeners included.
NoEventAfterStop ==
    state \in {"STOPPING", "STOPPED"} => \A t \in TimerThreads : at[t] # "deliver"

\* The stamps of the events that thread t is injecting or delivering
EventsOf(t) ==
    {todo[t][i].stamp : i \in {j \in DOMAIN todo[t] : todo[t][j].do \in {"inject", "record"}}}

\* The stamps of all events that are on their way
UnderWay == UNION {EventsOf(t) : t \in Thread}

\* The event getLastEventInfo reports was stamped in the current session:
\* start() resets it, and although it is written only after the listeners
\* were called, long after its time stamp, no inactivity timer of an earlier
\* session writes it later.  (An injected motion may: nothing joins the thread
\* that injects it.)
LastEventOfSession == lastEvent # 0 => lastEvent > resetAt

\* Without windows motion is monitored around the clock: in a session at rest
\* the window status that an earlier session left is gone.
NoWindowsPermit == state = "STARTED" /\ ~hasWindows /\ Settled => within

-----------------------------------------------------------------------------
(* Progress.                                                                *)

\* A start with a delay is followed by the activation (or by the end of the
\* session): STARTING can be left neither by stop() nor by close().
StartingEnds == state = "STARTING" ~> state # "STARTING"

\* Some thread is blocked in the join of a thread it cancels.
Joining == \E t \in Thread : at[t] = "join"

\* Joins end: no two threads wait for each other, and none for itself, with a
\* scheduler that cancels itself, and an owner who may die at any point, while
\* cancels join threads that are in callbacks.  It takes a client whose
\* callbacks return without a call of the sensor: a stop() from the window
\* callback joins the thread that is joining the caller.
JoinsEnd == Joining ~> ~Joining

\* The sensor of a client that died becomes free again.
DeathReleases == \A h \in 1..MaxOpens : h \in dead ~> owner # h
-----------------------------------------------------------------------------
(* The timers implement OneShotTimer.                                       *)

\* The threads of kind k in one of places
ThreadsIn(k, places) == {g \in 1..MaxGen : at[<<k, g>>] \in places}

\* The thread of kind k that its flag and its generation let fire
LiveTimer(k) ==
    {g \in 1..MaxGen : at[<<k, g>>] # "idle" /\ ~cancelled[k] /\ gen[k] = g}

NoMotionTimer == INSTANCE OneShotTimer WITH
    last   <- gen["noMotion"],
    live   <- LiveTimer("noMotion"),
    asleep <- ThreadsIn("noMotion", {"wait"}),
    awake  <- ThreadsIn("noMotion", Place \ {"idle", "wait"})

WindowTimer == INSTANCE OneShotTimer WITH
    last   <- gen["window"],
    live   <- LiveTimer("window"),
    asleep <- ThreadsIn("window", {"wait"}),
    awake  <- ThreadsIn("window", Place \ {"idle", "wait"})

\* The inactivity timer and the window scheduler are one-shot timers, in every
\* interleaving of their cancels and restarts: what was cancelled never fires,
\* although the flag that cancels it is cleared for the next timer before the
\* cancelled thread wakes, and although threads join and call back with the
\* mutex released.
ImplementsTimers == NoMotionTimer!Spec /\ WindowTimer!Spec
-----------------------------------------------------------------------------
(* The sensor implements SensorLifecycle.                                   *)

Lifecycle == INSTANCE SensorLifecycle WITH
    session <- owner,
    opened  <- opens,
    limited <- state # "STOPPED" /\ startConfig.activeStop

\* A client that makes one call at a time sees the life cycle of
\* SensorLifecycle: nobody closes a session that runs, and no state is skipped
\* or repeated when the automatic stop and a stop() meet with the mutex
\* released.
FollowsLifecycle == Lifecycle!LifeInit /\ [][Lifecycle!LifeNext]_(Lifecycle!lifeVars)

\* It also sees its progress: a delayed start activates, a stop ends, and a
\* session with activeStopSeconds ends.
CompletesLifecycle == Lifecycle!Progress
=============================================================================
