--------------------------------- MODULE Timers ---------------------------------
(***************************************************************************)
(* A PeriodicalTimer and the Timer it owns (ecma/timers): start() and      *)
(* stop() at any moment, a callback that takes its time, and that may      *)
(* throw, reject or call start() and stop() itself.                        *)
(*                                                                         *)
(* setTimeout() is a step that an armed timer may take; it takes it in the *)
(* end.  delay() and sleep() are one such step followed by the callback's. *)
(***************************************************************************)
EXTENDS Integers

CONSTANTS
    MaxRunning      \* bound: the callbacks that run at the same time

VARIABLES
    tickOnStart, waitForCompletion,     \* the options
    started,
    active,     \* is the timeout of the Timer pending?
    running,    \* the callbacks that are not over
    restarts    \* history: the calls of start() while callbacks were running

timerVars == <<tickOnStart, waitForCompletion, started, active, running, restarts>>

TimersInit ==
    /\ tickOnStart \in BOOLEAN
    /\ waitForCompletion \in BOOLEAN
    /\ started = FALSE /\ active = FALSE
    /\ running = 0 /\ restarts = 0

\* Timer.start(): nothing happens if it is active.
ScheduleNextTick(isStarted, isActive) == active' = (isActive \/ isStarted)

\* The callback begins.  A callback that throws, or whose promise rejects, is
\* over like any other: noThrowAsync() throws its error elsewhere.
OnTick(isActive) ==
    /\ running < MaxRunning
    /\ running' = running + 1
    /\ IF waitForCompletion THEN active' = isActive
       ELSE ScheduleNextTick(started', isActive)

Start ==
    /\ ~started
    /\ started' = TRUE
    /\ restarts < MaxRunning
    /\ restarts' = IF running > 0 THEN restarts + 1 ELSE 0
    /\ IF tickOnStart THEN OnTick(active)
       ELSE ScheduleNextTick(TRUE, active) /\ UNCHANGED running
    /\ UNCHANGED <<tickOnStart, waitForCompletion>>

\* Variant: the Timer is not cancelled.
StopOnly ==
    /\ started
    /\ started' = FALSE
    /\ UNCHANGED <<tickOnStart, waitForCompletion, active, running, restarts>>

Stop ==
    /\ started
    /\ started' = FALSE
    /\ active' = FALSE
    /\ UNCHANGED <<tickOnStart, waitForCompletion, running, restarts>>

\* The timeout of the Timer: Timer.onTick(), which calls PeriodicalTimer.onTick().
Timeout ==
    /\ active
    /\ started' = started
    /\ OnTick(FALSE)
    /\ UNCHANGED <<tickOnStart, waitForCompletion, restarts>>

\* A callback ends, in whatever way, and the next tick is scheduled if the
\* timer awaited it.
CallbackEnds ==
    /\ running > 0
    /\ running' = running - 1
    /\ restarts' = IF running = 1 THEN 0 ELSE restarts
    /\ IF waitForCompletion THEN ScheduleNextTick(started, active) ELSE active' = active
    /\ UNCHANGED <<tickOnStart, waitForCompletion, started>>

TimersNext == Start \/ Stop \/ Timeout \/ CallbackEnds

-----------------------------------------------------------------------------
(***************************************************************************)
(* A timer that is started has a tick to come, or a callback that will     *)
(* schedule it; one that is stopped has none.  Callbacks that are awaited  *)
(* overlap only if the timer was started again while one ran, and go on to *)
(* overlap until there is a moment when none runs.                         *)
(***************************************************************************)
TicksGoOn ==
    /\ active => started
    /\ started => active \/ (waitForCompletion /\ running > 0)
    /\ waitForCompletion => running <= 1 + restarts
=============================================================================
