----------------------------- MODULE ProcessLife -----------------------------
(***************************************************************************)
(* Processes of one program that share a pid file (node/process): the      *)
(* ProcessPidFile, the ExitManager that removes it in the end, and          *)
(* processKillByPidFile() of app-util, called by another process.  A pid   *)
(* that is free may be given to a new process; a signal, if the process     *)
(* does not handle it, ends it without an "exit" event.                     *)
(***************************************************************************)
EXTENDS Integers, SequencesExt, FiniteSets

CONSTANTS Instances, Pids

Nobody == 0
NoFile == 0

VARIABLES
    stage,      \* of each process: "new", "running", "beforeExit", "exiting", "gone"
    pid,
    pidCall,    \* how far its write() or remove() is
    exitHandlers, cleanUpHandlers,      \* the priorities of the handlers to run
    pidFile,
    killer,     \* processKillByPidFile(): [step, pid, sigkill]
    wroteFile,  \* history: the process that wrote the pid file,
    ran,        \*   the handlers that each process ran,
    upset       \*   and what happened to the pid file

lifeVars == <<stage, pid, pidCall, exitHandlers, cleanUpHandlers, pidFile, killer,
              wroteFile, ran, upset>>

VeryEarly == 300
Normal == 0
VeryLate == -300

LifeInit ==
    /\ stage = [p \in Instances |-> "new"]
    /\ pid = [p \in Instances |-> Nobody]
    /\ pidCall = [p \in Instances |-> "none"]
    /\ exitHandlers = [p \in Instances |-> {}]
    /\ cleanUpHandlers = [p \in Instances |-> {}]
    /\ pidFile = NoFile
    /\ killer = [step |-> "idle", pid |-> Nobody, sigkill |-> FALSE]
    /\ wroteFile = Nobody
    /\ ran = [p \in Instances |-> <<>>]
    /\ upset = {}

Is(p, ps) == stage[p] \in ps
Alive == {p \in Instances : Is(p, {"running", "beforeExit", "exiting"})}
SetPhase(p, new) == stage' = [stage EXCEPT ![p] = new]
SetCall(p, new) == pidCall' = [pidCall EXCEPT ![p] = new]
FileIs(content, writer) == pidFile' = content /\ wroteFile' = writer
Removed(why) ==
    upset' = IF wroteFile \in Instances /\ Is(wroteFile, {"running"}) THEN upset \cup {why} ELSE upset

\* The program starts, and registers handlers of its own.
StartProcess(p) ==
    /\ Is(p, {"new"})
    /\ SetPhase(p, "running")
    /\ \E n \in Pids \ {pid[q] : q \in Alive} : pid' = [pid EXCEPT ![p] = n]
    /\ exitHandlers' = [exitHandlers EXCEPT ![p] = {VeryEarly, Normal}]
    /\ cleanUpHandlers' = [cleanUpHandlers EXCEPT ![p] = {Normal}]
    /\ UNCHANGED <<pidCall, pidFile, killer, wroteFile, ran, upset>>

\* write(): the file, and when that has settled the exit handler.
WritePid(p) ==
    /\ Is(p, {"running"}) /\ pidCall[p] = "none"
    /\ SetCall(p, "written")
    /\ FileIs(pid[p], p)
    /\ Removed("writtenByAnother")
    /\ UNCHANGED <<stage, pid, exitHandlers, cleanUpHandlers, killer, ran>>

\* Variant: the handler is not registered.
WriteSettlesOnly(p) ==
    /\ Is(p, {"running", "beforeExit"}) /\ pidCall[p] = "written"
    /\ SetCall(p, "registered")
    /\ UNCHANGED <<stage, pid, exitHandlers, cleanUpHandlers, pidFile, killer,
                   wroteFile, ran, upset>>

WriteSettles(p) ==
    /\ Is(p, {"running", "beforeExit"}) /\ pidCall[p] = "written"
    /\ SetCall(p, "registered")
    /\ exitHandlers' = [exitHandlers EXCEPT ![p] = @ \cup {VeryLate}]
    /\ UNCHANGED <<stage, pid, cleanUpHandlers, pidFile, killer, wroteFile, ran, upset>>

\* remove(): is the file there?  Then it is removed, whoever wrote it, and if that
\* settles the handler is unregistered.
RemovePid(p) ==
    /\ Is(p, {"running"}) /\ pidCall[p] = "registered"
    /\ SetCall(p, IF pidFile # NoFile THEN "removing" ELSE "removed")
    /\ UNCHANGED <<stage, pid, exitHandlers, cleanUpHandlers, pidFile, killer,
                   wroteFile, ran, upset>>

UnlinkPid(p) ==
    /\ Is(p, {"running"}) /\ pidCall[p] = "removing"
    /\ IF pidFile = NoFile THEN SetCall(p, "registered") /\ UNCHANGED <<pidFile, wroteFile, upset>>
       ELSE /\ SetCall(p, "removed")
            /\ FileIs(NoFile, Nobody)
            /\ IF wroteFile = p THEN upset' = upset ELSE Removed("removedByAnother")
    /\ UNCHANGED <<stage, pid, exitHandlers, cleanUpHandlers, killer, ran>>

RemoveSettles(p) ==
    /\ Is(p, {"running", "beforeExit"}) /\ pidCall[p] = "removed"
    /\ SetCall(p, "none")
    /\ exitHandlers' = [exitHandlers EXCEPT ![p] = @ \ {VeryLate}]
    /\ UNCHANGED <<stage, pid, cleanUpHandlers, pidFile, killer, wroteFile, ran, upset>>

\* The process ends: it has nothing left to do ("beforeExit", and "exit" after it),
\* or exit() is called, or an error is uncaught.
EndsByItself(p) ==
    /\ Is(p, {"running"})
    /\ pidCall[p] \in {"none", "registered"}
    /\ SetPhase(p, "beforeExit")
    /\ UNCHANGED <<pid, pidCall, exitHandlers, cleanUpHandlers, pidFile, killer,
                   wroteFile, ran, upset>>
ExitCalled(p) ==
    /\ Is(p, {"running", "beforeExit"})
    /\ SetPhase(p, "exiting")
    /\ UNCHANGED <<pid, pidCall, exitHandlers, cleanUpHandlers, pidFile, killer,
                   wroteFile, ran, upset>>

\* extract() gives the handler of the lowest number.
Lowest(handlers) == CHOOSE h \in handlers : \A other \in handlers : h <= other

\* "beforeExit" and "exit": the handlers one after the other, whether they throw or
\* not.  The handler of the pid file removes it, whoever wrote it.
CleanUp(p) ==
    /\ Is(p, {"beforeExit"}) /\ cleanUpHandlers[p] # {}
    /\ LET h == Lowest(cleanUpHandlers[p]) IN
        cleanUpHandlers' = [cleanUpHandlers EXCEPT ![p] = @ \ {h}]
    /\ UNCHANGED <<stage, pid, pidCall, exitHandlers, pidFile, killer, wroteFile, ran,
                   upset>>

AtExit(p) ==
    /\ Is(p, {"exiting"}) /\ exitHandlers[p] # {}
    /\ LET h == Lowest(exitHandlers[p]) IN
        /\ exitHandlers' = [exitHandlers EXCEPT ![p] = @ \ {h}]
        /\ ran' = [ran EXCEPT ![p] = Append(@, h)]
        /\ IF h = VeryLate
           THEN /\ FileIs(NoFile, Nobody)
                /\ IF wroteFile = p THEN upset' = upset ELSE Removed("removedByAnother")
           ELSE UNCHANGED <<pidFile, wroteFile, upset>>
    /\ UNCHANGED <<stage, pid, pidCall, cleanUpHandlers, killer>>

Gone(p) ==
    /\ Is(p, {"exiting"}) /\ exitHandlers[p] = {}
    /\ SetPhase(p, "gone")
    /\ UNCHANGED <<pid, pidCall, exitHandlers, cleanUpHandlers, pidFile, killer,
                   wroteFile, ran, upset>>

\* A signal that is not handled, and SIGKILL.
KilledNow(p) ==
    /\ SetPhase(p, "gone")
    /\ exitHandlers' = [exitHandlers EXCEPT ![p] = {}]
    /\ cleanUpHandlers' = [cleanUpHandlers EXCEPT ![p] = {}]
    /\ upset' = IF pidCall[p] # "none" THEN upset \cup {"killed"} ELSE upset

\* processKillByPidFile(): read the file,
KillRead(sigkill) ==
    /\ killer.step = "idle" /\ pidFile # NoFile
    /\ killer' = [step |-> "kill", pid |-> pidFile, sigkill |-> sigkill]
    /\ UNCHANGED <<stage, pid, pidCall, exitHandlers, cleanUpHandlers, pidFile,
                   wroteFile, ran, upset>>

\* send the signal, which throws if there is no such process,
KillSend ==
    /\ killer.step = "kill"
    /\ LET targets == {p \in Alive : pid[p] = killer.pid} IN
       \/ /\ targets = {}
          /\ killer' = [killer EXCEPT !.step = "done"]
          /\ UNCHANGED <<stage, exitHandlers, cleanUpHandlers, upset>>
       \/ \E p \in targets :
          /\ killer' = [killer EXCEPT !.step = "wait"]
          /\ \/ KilledNow(p)
             \/ /\ ~killer.sigkill /\ Is(p, {"running"})     \* SIGTERM is handled
                /\ SetPhase(p, "exiting")
                /\ UNCHANGED <<exitHandlers, cleanUpHandlers, upset>>
    /\ UNCHANGED <<pid, pidCall, pidFile, wroteFile, ran>>

\* wait until no process has the pid, and remove the file after a SIGKILL.
KillWaits ==
    /\ killer.step = "wait"
    /\ \A p \in Alive : pid[p] # killer.pid
    /\ killer' = [killer EXCEPT !.step = "done"]
    /\ IF killer.sigkill
       THEN FileIs(NoFile, Nobody) /\ Removed("removedByKiller")
       ELSE UNCHANGED <<pidFile, wroteFile, upset>>
    /\ UNCHANGED <<stage, pid, pidCall, exitHandlers, cleanUpHandlers, ran>>

LifeNext ==
    \/ \E p \in Instances :
        \/ StartProcess(p) \/ WritePid(p) \/ WriteSettles(p)
        \/ RemovePid(p) \/ UnlinkPid(p) \/ RemoveSettles(p)
        \/ EndsByItself(p) \/ ExitCalled(p)
        \/ CleanUp(p) \/ AtExit(p) \/ Gone(p)
    \/ KillRead(TRUE) \/ KillRead(FALSE) \/ KillSend \/ KillWaits

-----------------------------------------------------------------------------
HasRun(p, h) == \E i \in DOMAIN ran[p] : ran[p][i] = h

\* Its pid is the one that the killer sent its signal to.
Signalled(p) == killer.step \in {"wait", "done"} /\ killer.pid = pid[p]

(***************************************************************************)
(* The pid file tells which process runs: that of a process whose write()  *)
(* is over holds its pid until it is removed, unless another process, or    *)
(* the killer that waited for the one before, wrote or removed it; and the  *)
(* one that wrote it is alive, unless it was killed, or its exit came       *)
(* before the handler was registered.  No process runs a handler twice, and *)
(* one that is gone has run all those that were registered, that of its pid *)
(* file too, unless it was signalled.  The order is not claimed: it is that *)
(* of the numbers, the opposite of what the names VERY_EARLY = 300 and      *)
(* VERY_LATE = -300 say.                                                    *)
(***************************************************************************)
PidFileTells ==
    /\ \A p \in Instances : Is(p, {"running"}) /\ pidCall[p] = "registered" =>
        (pidFile = pid[p] /\ wroteFile = p) \/ upset # {}
    /\ pidFile # NoFile =>
        \/ wroteFile \in Alive
        \/ "killed" \in upset
        \/ pidCall[wroteFile] = "written"
    /\ \A p \in Instances :
        /\ \A i, j \in DOMAIN ran[p] : i < j => ran[p][i] # ran[p][j]
        /\ Is(p, {"gone"}) /\ ~Signalled(p) =>
            /\ HasRun(p, VeryEarly) /\ HasRun(p, Normal)
            /\ pidCall[p] = "registered" => HasRun(p, VeryLate)
=============================================================================
