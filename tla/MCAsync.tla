------------------------------- MODULE MCAsync -------------------------------
(* A broadcast channel, tasks that hold several locks, event dispatchers, or  *)
(* one of the services - a timer, a file written atomically, locks between    *)
(* processes, a pid file, log files, printers, a socket or a console - is     *)
(* used, chosen at the start.                                                 *)
EXTENDS LockHold, Broadcast, TLC

CONSTANTS
    EventNames, Listeners, Waiters, Iterators, Priorities, MaxSubscriptions, MaxDispatches,
    First,      \* the subscriber all receivers listen to
    MaxRunning, Writers, MaxFaults, Here, There, MaxCloseFaults, Instances, Pids,
    Logs, CutOff, MaxRetained, MaxCalls, MaxBreaks, Texts, MaxCount, MaxPrints, MaxOthers,
    SocketCalls, MaxErrors, Labels, MaxConsoleCalls

ASSUME AsyncAssumption ==
    /\ MaxErrors \in Nat
    /\ "half" \notin Writers     \* the piece of a content that was not written whole
    /\ "free" \notin Here \cup There     \* no task is what a lock is that nobody has,
    /\ 0 \notin Instances \cup Pids      \* and no process is no process

VARIABLES
    used,
    mode, queue, queueSeq, waits, iterator, walk, dispatches,
    service,
    tickOnStart, waitForCompletion, started, active, running, restarts,
    file, tmp, flag, step, faults, before, alone, copied,
    class, taken, handle, doing, polling, signalled, dead, closeFaults, causes,
    stage, pid, pidCall, exitHandlers, cleanUpHandlers, pidFile, killer, wroteFile, ran, upset,
    files, contents, fileStream, textStreamPrinter, task, writer, lateCloses, rotation, again,
    oldFiles, calls, breaks, expired, overlapped,
    holdsRepeated, record, spool, flushing, batch, handling, current, next, lastText, skipCount,
    tick, counting, others, printFailures, written, resolved, rejected, failed, cleared,
    kind, socket, call, errorListeners, handledErrorEvents, errors, takenBy, dispatched, thrown,
    countMap, timerTable, groupStack, unspooled, clearing, output, overtaken, consoleCalls

FirstOnly == [r \in Receivers |-> First]

E == INSTANCE Events

T == INSTANCE Timers
A == INSTANCE AtomicWrites
K == INSTANCE ProcessLocks
P == INSTANCE ProcessLife
F == INSTANCE LogFiles
R == INSTANCE Printers
S == INSTANCE Sockets
C == INSTANCE Consoles

eventVars == <<mode, queue, queueSeq, waits, iterator, walk, dispatches>>
timerVars == <<tickOnStart, waitForCompletion, started, active, running, restarts>>
atomicVars == <<file, tmp, flag, step, faults, before, alone, copied>>
lockVars == <<class, taken, handle, doing, polling, signalled, dead, closeFaults, causes>>
lifeVars == <<stage, pid, pidCall, exitHandlers, cleanUpHandlers, pidFile, killer, wroteFile, ran,
    upset>>
logVars == <<files, contents, fileStream, textStreamPrinter, task, writer, lateCloses, rotation,
    again, oldFiles, calls, breaks, expired, overlapped>>
printerVars == <<holdsRepeated, record, spool, flushing, batch, handling, current, next, lastText,
    skipCount, tick, counting, others, printFailures, written, resolved, rejected, failed, cleared>>
socketVars == <<kind, socket, call, errorListeners, handledErrorEvents, errors, takenBy, dispatched,
    thrown>>
consoleVars ==
    <<countMap, timerTable, groupStack, unspooled, clearing, output, overtaken, consoleCalls>>

systemVars == <<timerVars, atomicVars, lockVars, lifeVars>>
loggerVars == <<logVars, printerVars, socketVars, consoleVars>>
serviceVars == <<service, systemVars, loggerVars>>
asyncVars == <<broadcastVars, holdVars, eventVars>>
vars == <<used, asyncVars, serviceVars>>

ServicesInit ==
    /\ T!TimersInit /\ A!AtomicInit /\ K!LocksInit /\ P!LifeInit
    /\ F!LogInit /\ R!PrintersInit /\ S!SocketsInit /\ C!ConsoleInit
    /\ service \in {"timer", "file", "lock", "process", "logs", "printer", "socket", "console"}
    /\ service # "timer" => ~tickOnStart /\ ~waitForCompletion
    /\ service # "printer" => ~holdsRepeated
    /\ service # "socket" => kind = "dgram"
    /\ service # "file" => file = {}
    /\ service # "lock" => class = "file"

ServicesNext ==
    /\ UNCHANGED service
    /\ \/ /\ UNCHANGED loggerVars
          /\ \/ service = "timer" /\ T!TimersNext /\ UNCHANGED <<atomicVars, lockVars, lifeVars>>
             \/ service = "file" /\ A!AtomicNext /\ UNCHANGED <<timerVars, lockVars, lifeVars>>
             \/ service = "lock" /\ K!LocksNext /\ UNCHANGED <<timerVars, atomicVars, lifeVars>>
             \/ service = "process" /\ P!LifeNext /\ UNCHANGED <<timerVars, atomicVars, lockVars>>
       \/ /\ UNCHANGED systemVars
          /\ \/ service = "logs" /\ F!LogNext /\ UNCHANGED <<printerVars, socketVars, consoleVars>>
             \/ service = "printer" /\ R!PrintersNext /\ UNCHANGED <<logVars, socketVars, consoleVars>>
             \/ service = "socket" /\ S!SocketsNext /\ UNCHANGED <<logVars, printerVars, consoleVars>>
             \/ service = "console" /\ C!ConsoleNext /\ UNCHANGED <<logVars, printerVars, socketVars>>

Init ==
    /\ used \in {"broadcast", "locks", "events", "service"}
    /\ BroadcastInit /\ HoldInit /\ E!EventsInit /\ ServicesInit
    /\ used = "broadcast" \/ \A c \in Capacities : c <= capacity
    /\ used # "service" => service = "timer" /\ ~tickOnStart /\ ~waitForCompletion

AsyncNext ==
    \/ used = "broadcast" /\ BroadcastNext /\ UNCHANGED <<holdVars, eventVars>>
    \/ used = "locks" /\ HoldNext /\ UNCHANGED <<broadcastVars, eventVars>>
    \/ used = "events" /\ E!EventsNext /\ UNCHANGED <<broadcastVars, holdVars>>

Next ==
    /\ UNCHANGED used
    /\ \/ AsyncNext /\ UNCHANGED serviceVars
       \/ used = "service" /\ ServicesNext /\ UNCHANGED asyncVars

Spec == Init /\ [][Next]_vars

Symmetry == Permutations(Receivers)

\* dispatch() finds, calls and serves the subscribers (see Events).
DispatchServesSubscribers == used = "events" => E!DispatchServesSubscribers

\* A timer that is started ticks, and only then (see Timers).
TicksGoOn == service = "timer" => T!TicksGoOn

\* A file written atomically is one version or the other (see AtomicWrites).
WholeOrLost == service = "file" => A!WholeOrLost

\* A lock between processes comes back (see ProcessLocks).
LocksComeBack == service = "lock" => K!LocksComeBack

\* The pid file tells which process runs (see ProcessLife).
PidFileTells == service = "process" => P!PidFileTells

\* No record of a rotated log is lost (see LogFiles).
RecordsKept == service = "logs" => F!RecordsKept

\* A spool prints each record once and in order (see Printers).
SpoolPrintsInOrder == service = "printer" => R!SpoolPrintsInOrder

\* An error rejects a call or is forwarded (see Sockets).
ErrorsReported == service = "socket" => S!ErrorsReported

\* The groups and counts shown are those of the console (see Consoles).
OutputTellsGroups == service = "console" => C!OutputTellsGroups
=============================================================================
