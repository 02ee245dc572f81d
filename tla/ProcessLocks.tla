----------------------------- MODULE ProcessLocks -----------------------------
(***************************************************************************)
(* FileLock and UdpBindLock (async/synchro): locks between processes, that  *)
(* are polled for with waitFor().  A process has one lock object, which its *)
(* tasks share; the lock file, or the port, is shared by all.  A process    *)
(* may end at any moment: the system closes its socket, but leaves the file.*)
(***************************************************************************)
EXTENDS Integers, FiniteSets

CONSTANTS
    Here,           \* the tasks of a process,
    There,          \* and those of another one
    MaxCloseFaults  \* bound: the calls of close() and unlink() that fail

Free == "free"
LockTasks == Here \cup There
LockProcesses == {Here, There}
Home(t) == IF t \in Here THEN Here ELSE There

VARIABLES
    class,      \* "file" or "udp"
    taken,      \* the call that made the lock file, or has the port
    handle,     \* of each object, the call whose handle or socket it has
    doing,      \* of each task
    polling,    \* does the task poll (lock()), or try once (tryLock())?
    signalled,  \* the tasks whose signal is aborted
    dead,       \* the processes that ended
    closeFaults,
    causes      \* history: what has gone wrong with the lock taken

lockVars == <<class, taken, handle, doing, polling, signalled, dead, closeFaults, causes>>

LocksInit ==
    /\ class \in {"file", "udp"}
    /\ taken = Free
    /\ handle = [p \in LockProcesses |-> Free]
    /\ doing = [t \in LockTasks |-> "idle"]
    /\ polling = [t \in LockTasks |-> FALSE]
    /\ signalled = {} /\ dead = {}
    /\ closeFaults = 0
    /\ causes = {}

Alive(t) == Home(t) \notin dead
Goes(t, next) == doing' = [doing EXCEPT ![t] = next]
SetHandle(t, h) == handle' = [handle EXCEPT ![Home(t)] = h]
Same == UNCHANGED <<class, dead>>

\* lock(signal) and tryLock(), which goes on to open() or bind().
Lock(t, polls) ==
    /\ Alive(t) /\ doing[t] = "idle"
    /\ Goes(t, "opening")
    /\ polling' = [polling EXCEPT ![t] = polls]
    /\ signalled' = signalled \ {t}
    /\ UNCHANGED <<taken, handle, closeFaults, causes>> /\ Same

\* open(, "wx") or bind(exclusive) in the system: EEXIST and EADDRINUSE are an
\* answer.  The socket is made with the signal, which closes it at once.
OpenOrBind(t) ==
    /\ Alive(t) /\ doing[t] = "opening"
    /\ IF taken # Free \/ (class = "udp" /\ polling[t] /\ t \in signalled)
       THEN taken' = taken /\ Goes(t, "refused")
       ELSE taken' = t /\ Goes(t, "opened")
    /\ UNCHANGED <<handle, polling, signalled, closeFaults, causes>> /\ Same

\* The promise of open() or bind() settles: the object gets its handle.
Opened(t) ==
    /\ Alive(t) /\ doing[t] = "opened"
    /\ SetHandle(t, t)
    /\ Goes(t, "holding")
    /\ UNCHANGED <<taken, polling, signalled, closeFaults, causes>> /\ Same

\* tryLock() answers false; waitFor() throws if the signal is aborted, or sleeps
\* and tries again.
Refused(t) ==
    /\ Alive(t) /\ doing[t] = "refused"
    /\ Goes(t, IF polling[t] /\ t \notin signalled THEN "opening" ELSE "idle")
    /\ UNCHANGED <<taken, handle, polling, signalled, closeFaults, causes>> /\ Same

\* The signal of a lock(), also once it holds the lock: waitFor() looks at it no
\* more, but the socket is closed.
AbortSignal(t) ==
    /\ Alive(t) /\ doing[t] # "idle" /\ polling[t] /\ t \notin signalled
    /\ signalled' = signalled \cup {t}
    /\ IF class = "udp" /\ taken = t
       THEN taken' = Free /\ causes' = causes \cup {"closedBySignal"}
       ELSE UNCHANGED <<taken, causes>>
    /\ UNCHANGED <<handle, doing, polling, closeFaults>> /\ Same

\* unlock(), which throws without a handle.  The file's object forgets its
\* handle first; the object of a socket closes it at once, which gives the port
\* back, but fails for a socket that is closed already.
Unlock(t) ==
    LET socket == handle[Home(t)] IN
    /\ Alive(t) /\ doing[t] = "holding"
    /\ CASE socket = Free -> Goes(t, "idle") /\ UNCHANGED <<taken, handle>>
         [] socket # Free /\ class = "file" ->
                Goes(t, "closing") /\ SetHandle(t, Free) /\ UNCHANGED taken
         [] socket # Free /\ class = "udp" ->
                /\ UNCHANGED handle
                /\ IF socket = taken THEN Goes(t, "closed") /\ taken' = Free
                   ELSE Goes(t, "idle") /\ taken' = taken
    /\ UNCHANGED <<polling, signalled, closeFaults, causes>> /\ Same

\* The promise of close(), of the file's handle.
Close(t) ==
    /\ Alive(t) /\ doing[t] = "closing"
    /\ \/ Goes(t, "unlinking") /\ UNCHANGED <<closeFaults, causes>>
       \/ /\ closeFaults < MaxCloseFaults /\ closeFaults' = closeFaults + 1
          /\ Goes(t, "idle")
          /\ causes' = causes \cup {"closeFailed"}
    /\ UNCHANGED <<taken, handle, polling, signalled>> /\ Same

\* Variant: the file is not removed.
UnlinkNothing(t) ==
    /\ Alive(t) /\ doing[t] = "unlinking"
    /\ Goes(t, "idle")
    /\ UNCHANGED <<taken, handle, polling, signalled, closeFaults, causes>> /\ Same

UnlinkLockFile(t) ==
    /\ Alive(t) /\ doing[t] = "unlinking"
    /\ Goes(t, "idle")
    /\ \/ taken' = Free /\ UNCHANGED <<closeFaults, causes>>
       \/ /\ closeFaults < MaxCloseFaults /\ closeFaults' = closeFaults + 1
          /\ taken' = taken
          /\ causes' = causes \cup {"closeFailed"}
    /\ UNCHANGED <<handle, polling, signalled>> /\ Same

\* The promise of the socket's close(): the object forgets whatever socket it has.
Closed(t) ==
    /\ Alive(t) /\ doing[t] = "closed"
    /\ Goes(t, "idle")
    /\ causes' = IF taken # Free /\ handle[Home(t)] = taken
                 THEN causes \cup {"socketForgotten"} ELSE causes
    /\ SetHandle(t, Free)
    /\ UNCHANGED <<taken, polling, signalled, closeFaults>> /\ Same

EndProcess(p) ==
    /\ p \notin dead
    /\ dead' = dead \cup {p}
    /\ IF taken \in p /\ class = "udp" THEN taken' = Free /\ UNCHANGED causes
       ELSE /\ taken' = taken
            /\ causes' = IF taken \in p THEN causes \cup {"leftByProcess"} ELSE causes
    /\ handle' = [handle EXCEPT ![p] = Free]
    /\ doing' = [t \in LockTasks |-> IF t \in p THEN "idle" ELSE doing[t]]
    /\ polling' = [t \in LockTasks |-> polling[t] /\ t \notin p]
    /\ signalled' = signalled \ p
    /\ UNCHANGED <<class, closeFaults>>

LocksNext ==
    \/ \E t \in LockTasks :
        \/ \E polls \in BOOLEAN : Lock(t, polls)
        \/ OpenOrBind(t) \/ Opened(t) \/ Refused(t) \/ AbortSignal(t)
        \/ Unlock(t) \/ Close(t) \/ UnlinkLockFile(t) \/ Closed(t)
    \/ \E p \in LockProcesses : EndProcess(p)

-----------------------------------------------------------------------------
Holding == {t \in LockTasks : Alive(t) /\ doing[t] = "holding"}

(***************************************************************************)
(* One task at a time has the lock, unless the signal of its lock() closed  *)
(* the socket, or a second socket was opened while the first was closed.    *)
(* A lock that is taken is given back: a living task has it, is getting it  *)
(* or gives it back, unless a process left the file, the call that was to   *)
(* remove it failed, or unlock() forgot the next one's socket.  The object  *)
(* of the task that has it knows, but for these cases.                      *)
(***************************************************************************)
LocksComeBack ==
    /\ Cardinality(Holding) > 1 => "closedBySignal" \in causes
    /\ taken # Free => \/ Alive(taken) /\ doing[taken] # "idle"
                       \/ causes # {}
    /\ \A t \in Holding : \/ taken = t /\ handle[Home(t)] = t
                          \/ {"closedBySignal", "socketForgotten"}
                                \cap causes # {}
=============================================================================
