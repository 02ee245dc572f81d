---------------------------- MODULE AsyncProofs ----------------------------
(***************************************************************************)
(* Proofs about the components that MCAsync puts side by side.             *)
(***************************************************************************)
EXTENDS MCAsync, FiniteSetTheorems, TLAPS

-----------------------------------------------------------------------------
\* Which service is used is chosen at the start.
LEMMA ServiceStep ==
    ASSUME [Next]_vars
    PROVE  /\ used' = used /\ service' = service
           /\ (service = "timer" /\ T!TimersNext) \/ UNCHANGED timerVars
           /\ (service = "file" /\ A!AtomicNext) \/ UNCHANGED atomicVars
           /\ (service = "lock" /\ K!LocksNext) \/ UNCHANGED lockVars
           /\ (service = "process" /\ P!LifeNext) \/ UNCHANGED lifeVars
           /\ (service = "logs" /\ F!LogNext) \/ UNCHANGED logVars
           /\ (service = "socket" /\ S!SocketsNext) \/ UNCHANGED socketVars
<1>1. CASE UNCHANGED vars
  BY <1>1 DEF vars, asyncVars, serviceVars, systemVars, loggerVars
<1>2. CASE AsyncNext /\ UNCHANGED serviceVars /\ used' = used
  BY <1>2 DEF AsyncNext, serviceVars, systemVars, loggerVars
<1>3. CASE ServicesNext /\ UNCHANGED asyncVars /\ used' = used
  BY <1>3 DEF ServicesNext, asyncVars, systemVars, loggerVars
<1> QED
  BY <1>1, <1>2, <1>3 DEF Next

-----------------------------------------------------------------------------
TimerTypes ==
    /\ tickOnStart \in BOOLEAN /\ waitForCompletion \in BOOLEAN
    /\ started \in BOOLEAN /\ active \in BOOLEAN
    /\ running \in Nat /\ restarts \in Nat

TimerInv ==
    /\ TimerTypes
    /\ T!TicksGoOn
    /\ waitForCompletion /\ active => running <= restarts

\* What each step does to the timeout, and to the numbers.
LEMMA TimerEffects ==
    ASSUME TimerInv, T!TimersNext
    PROVE  /\ tickOnStart' = tickOnStart /\ waitForCompletion' = waitForCompletion
           /\ started' \in BOOLEAN /\ active' \in BOOLEAN
           /\ \/ /\ running' = running + 1 /\ restarts' = restarts /\ started' = started
                 /\ active /\ (active' <=> started /\ ~waitForCompletion)
              \/ /\ running' = running \/ running' = running + 1
                 /\ restarts' = IF running > 0 THEN restarts + 1 ELSE 0
                 /\ ~started /\ ~active /\ started'
                 /\ active' \/ (waitForCompletion /\ running' = running + 1)
                 /\ active' /\ waitForCompletion => running' = running
              \/ /\ running' = running /\ restarts' = restarts
                 /\ ~started' /\ ~active'
              \/ /\ running > 0 /\ running' = running - 1 /\ started' = started
                 /\ restarts' = IF running = 1 THEN 0 ELSE restarts
                 /\ active' <=> active \/ (waitForCompletion /\ started)
<1> USE DEF TimerInv, TimerTypes, T!TicksGoOn
<1>2. CASE T!Start
  BY <1>2, Zenon DEF T!Start, T!OnTick, T!ScheduleNextTick
<1>3. CASE T!Stop
  BY <1>3, Zenon DEF T!Stop
<1>4. CASE T!Timeout
  BY <1>4, Zenon DEF T!Timeout, T!OnTick, T!ScheduleNextTick
<1>5. CASE T!CallbackEnds
  BY <1>5, Zenon DEF T!CallbackEnds, T!ScheduleNextTick
<1> QED
  BY <1>2, <1>3, <1>4, <1>5 DEF T!TimersNext

(***************************************************************************)
(* A timer that is started has a tick under way or a run of its callback   *)
(* that will ask for one, and one that is stopped has none; and an         *)
(* exclusive timer overlaps runs of its callback no more often than it was *)
(* started again during one (periodical-timer.ts, timer.ts).               *)
(***************************************************************************)
THEOREM TimersTick == Spec => []TicksGoOn
<1>1. Init => TimerInv
  <2> SUFFICES ASSUME Init PROVE TimerInv
    OBVIOUS
  <2>1. /\ tickOnStart \in BOOLEAN /\ waitForCompletion \in BOOLEAN
        /\ started \in BOOLEAN /\ active \in BOOLEAN
        /\ ~started /\ ~active
        /\ running = 0 /\ restarts = 0
    BY Zenon DEF Init, ServicesInit, T!TimersInit
  <2> QED
    BY <2>1 DEF TimerInv, TimerTypes, T!TicksGoOn
<1>2. TimerInv /\ [Next]_vars => TimerInv'
  <2> SUFFICES ASSUME TimerInv, [Next]_vars PROVE TimerInv'
    OBVIOUS
  <2> USE DEF TimerInv, TimerTypes, T!TicksGoOn
  <2>1. CASE UNCHANGED timerVars
    BY <2>1 DEF timerVars
  <2>2. CASE T!TimersNext
    BY <2>2, TimerEffects
  <2> QED
    BY <2>1, <2>2, ServiceStep
<1>3. TimerInv => TicksGoOn
  BY DEF TimerInv, TicksGoOn
<1> QED
  BY <1>1, <1>2, <1>3, PTL DEF Spec

-----------------------------------------------------------------------------
(***************************************************************************)
(* Sockets: what listens is a call that waits or one that threw.           *)
(***************************************************************************)
SocketTypes ==
    /\ errors \in 0 .. MaxErrors
    /\ DOMAIN call = SocketCalls
    /\ DOMAIN takenBy = 1 .. MaxErrors /\ DOMAIN dispatched = 1 .. MaxErrors
    /\ errorListeners \subseteq SocketCalls

SocketInv == SocketTypes /\ S!ErrorsReported

\* A step that leaves the errors alone: the calls that listen still wait, or threw.
LEMMA ListenersStep ==
    ASSUME SocketInv, S!SocketsNext, ~S!Error
    PROVE  /\ UNCHANGED <<kind, S!errorVars>> /\ DOMAIN call' = SocketCalls
           /\ errorListeners' \subseteq SocketCalls
           /\ thrown \subseteq thrown'
           /\ \A c \in errorListeners' : call'[c].state = "pending" \/ c \in thrown'
<1> USE DEF SocketInv, SocketTypes, S!ErrorsReported
<1>1. ASSUME NEW c \in SocketCalls, S!Open(c)
      PROVE  /\ UNCHANGED <<kind, S!errorVars>> /\ DOMAIN call' = SocketCalls
             /\ errorListeners' \subseteq SocketCalls
             /\ thrown \subseteq thrown'
             /\ \A d \in errorListeners' : call'[d].state = "pending" \/ d \in thrown'
  BY <1>1 DEF S!Open, S!Called
<1>2. ASSUME NEW c \in SocketCalls, S!Close(c)
      PROVE  /\ UNCHANGED <<kind, S!errorVars>> /\ DOMAIN call' = SocketCalls
             /\ errorListeners' \subseteq SocketCalls
             /\ thrown \subseteq thrown'
             /\ \A d \in errorListeners' : call'[d].state = "pending" \/ d \in thrown'
  <2>1. CASE S!CloseThrows(c)
    BY <1>2, <2>1 DEF S!Close, S!CloseThrows, S!Called
  <2>2. CASE S!CloseSettles(c)
    BY <1>2, <2>2 DEF S!Close, S!CloseSettles, S!Called
  <2>3. CASE S!CloseWaits(c)
    BY <1>2, <2>3 DEF S!Close, S!CloseWaits, S!Called
  <2> QED
    BY <1>2, <2>1, <2>2, <2>3 DEF S!Close
<1>3. CASE S!Opened
  BY <1>3 DEF S!Opened, S!Settle
<1>4. CASE S!Closed
  BY <1>4 DEF S!Closed, S!Settle
<1> QED
  BY <1>1, <1>2, <1>3, <1>4 DEF S!SocketsNext

\* The invariant of a socket is inductive.
LEMMA SocketStep == SocketInv /\ [Next]_vars => SocketInv'
<1> SUFFICES ASSUME SocketInv, [Next]_vars PROVE SocketInv'
  OBVIOUS
<1> USE AsyncAssumption DEF SocketInv, SocketTypes
<1>1. CASE UNCHANGED socketVars
  BY <1>1 DEF socketVars, S!ErrorsReported
<1>2. CASE S!SocketsNext /\ ~S!Error
  BY <1>2, ListenersStep DEF S!errorVars, S!ErrorsReported
<1>3. CASE S!Error
  <2> DEFINE e == errors'
             left == errorListeners \ thrown
  <2>1. /\ e = errors + 1 /\ e \in 1 .. MaxErrors
        /\ \A f \in 1 .. errors : f # e
        /\ kind' = kind /\ thrown' = thrown /\ errorListeners' = {}
        /\ DOMAIN call' = SocketCalls
        /\ takenBy' = [takenBy EXCEPT ![e] = left]
    BY <1>3 DEF S!Error, S!Settle
  <2>6. handledErrorEvents \cup S!Marked(errorListeners, e)
          = IF errorListeners = {} THEN {} ELSE {e}
    BY DEF S!Marked, S!ErrorsReported
  <2>7. /\ handledErrorEvents' = {}
        /\ dispatched' = [dispatched EXCEPT ![e] = IF errorListeners = {} THEN S!Forwarders
                                                   ELSE S!Forwarders - 1]
    BY <1>3, <2>6 DEF S!Error
  <2>2. \A f \in 1 .. errors : takenBy'[f] = takenBy[f] /\ dispatched'[f] = dispatched[f]
    BY <2>1, <2>7
  <2>3. /\ takenBy'[e] = left
        /\ dispatched'[e] = IF errorListeners = {} THEN S!Forwarders ELSE S!Forwarders - 1
    BY <2>1, <2>7
  <2>4. S!Forwarders = IF kind = "tcp" THEN 2 ELSE 1
    BY DEF S!Forwarders
  <2>5. \A f \in 1 .. errors' :
          IF takenBy'[f] # {} THEN dispatched'[f] = 0 \/ (kind' = "tcp" /\ dispatched'[f] = 1)
          ELSE dispatched'[f] = 1 \/ (kind' = "tcp" /\ dispatched'[f] = 2)
               \/ (dispatched'[f] = 0 /\ thrown' # {})
    <3>1. ASSUME NEW f \in 1 .. errors' PROVE f = e \/ f \in 1 .. errors
      BY <2>1
    <3> QED
      BY <2>1, <2>2, <2>3, <2>4, <3>1 DEF S!ErrorsReported
  <2> QED
    BY <2>1, <2>5, <2>7 DEF S!ErrorsReported
<1> QED
  BY <1>1, <1>2, <1>3, ServiceStep

(***************************************************************************)
(* An error of a socket rejects the calls that are pending or is forwarded *)
(* once, a TcpSocket's once more, and one is hidden only by the listener   *)
(* that a call left when it threw; no other call that has settled listens. *)
(* For any calls and any number of errors (stream-socket.ts,               *)
(* tcp-socket.ts, dgram-socket.ts).                                        *)
(***************************************************************************)
THEOREM ErrorsAreReported == Spec => []ErrorsReported
<1>1. Init => SocketInv
  BY AsyncAssumption DEF Init, ServicesInit, S!SocketsInit, SocketInv, SocketTypes, S!ErrorsReported
<1>2. SocketInv => ErrorsReported
  BY DEF SocketInv, ErrorsReported
<1> QED
  BY <1>1, <1>2, SocketStep, PTL DEF Spec

-----------------------------------------------------------------------------
(***************************************************************************)
(* Atomic writes.  A file that is whole has no half of a content.          *)
(***************************************************************************)
Contents == Seq(Writers \cup {"old"})
Whole == {{}} \cup {{content} : content \in Contents}

WriteSteps ==
    A!Running \cup A!Lost
        \cup {"idle", "exists", "writeFailed", "unlinkFailed", "done", "crashed"}

AtomicTypes ==
    /\ file \in Whole
    /\ DOMAIN tmp = Writers
    /\ flag \in [Writers -> {"w", "wx", "a"}]
    /\ step \in [Writers -> WriteSteps]
    /\ faults \in Nat
    /\ before \in [Writers -> Whole]
    /\ alone \in [Writers -> BOOLEAN]
    /\ copied \in [Writers -> BOOLEAN]

\* The file that a call leaves if no other one runs.
Leaves(w) ==
    IF flag[w] # "a" \/ before[w] = {} \/ ~copied[w] THEN {<<w>>}
    ELSE {Append(content, w) : content \in before[w]}

\* What the temporary file of a call is at each of its steps.
TmpOf(w) ==
    /\ step[w] \in {"idle", "stat", "copy"} => tmp[w] = {} /\ ~copied[w]
    /\ step[w] \in {"chmod", "unlink", "rename"} => tmp[w] \in Whole \ {{}}
    /\ step[w] = "write" => tmp[w] \in Whole /\ (copied[w] <=> tmp[w] # {})
    /\ step[w] \in {"done", "exists", "unlinkFailed", "renameFailed"} => tmp[w] = {}
    /\ step[w] = "chmod" => copied[w]
    /\ copied[w] \/ step[w] \in {"copy", "chmod"} => flag[w] = "a"

\* What a call that is alone finds in the file, and what it copies and writes.
AloneOf(w) ==
    alone[w] /\ step[w] \in A!Running =>
        /\ \A v \in Writers \ {w} : step[v] \notin A!Running
        /\ step[w] \in {"stat", "copy", "chmod", "write", "unlink", "cleanAfterError"} =>
             file = before[w]
        /\ step[w] \in {"chmod", "write"} /\ copied[w] => tmp[w] = before[w]
        /\ step[w] \in {"unlink", "rename"} => tmp[w] = Leaves(w)
        /\ step[w] = "clean" => file = Leaves(w)
        /\ faults = 0 =>
             /\ step[w] # "stat" /\ flag[w] = "wx" => before[w] = {}
             /\ step[w] \notin {"stat", "copy"} /\ flag[w] = "a" /\ before[w] # {} => copied[w]

FileInv ==
    file = {} =>
        \/ \A w \in Writers : before[w] = {} /\ step[w] \notin {"clean", "done"}
        \/ \E w \in Writers : step[w] \in A!Lost \cup {"rename"}

AtomicInv ==
    /\ AtomicTypes
    /\ FileInv
    /\ \A w \in Writers : TmpOf(w) /\ AloneOf(w)

\* A call that runs, or begins, leaves the others what they have, and none of
\* them is alone while it runs.
LEMMA OtherCalls ==
    ASSUME AtomicInv, NEW w \in Writers, NEW v \in Writers, v # w,
           step[w] \in A!Running \/ ~alone'[v] \/ step[v] \notin A!Running,
           alone'[v] => alone[v],
           step'[v] = step[v], tmp'[v] = tmp[v], flag'[v] = flag[v], copied'[v] = copied[v]
    PROVE  TmpOf(v)' /\ AloneOf(v)'
<1>1. TmpOf(v) /\ AloneOf(v)
  BY DEF AtomicInv
<1>2. TmpOf(v)'
  BY <1>1 DEF TmpOf
<1>3. ~(alone'[v] /\ step'[v] \in A!Running)
  BY <1>1 DEF AloneOf
<1> QED
  BY <1>2, <1>3 DEF AloneOf

\* What is left to show of a step of a call that runs.
LEMMA OneCall ==
    ASSUME AtomicInv, NEW w \in Writers, step[w] \in A!Running,
           UNCHANGED <<flag, before, alone>>, faults' \in Nat,
           NEW s \in WriteSteps, A!Goes(w, s),
           DOMAIN tmp' = Writers, copied' \in [Writers -> BOOLEAN], file' \in Whole,
           \A v \in Writers \ {w} : tmp'[v] = tmp[v] /\ copied'[v] = copied[v],
           TmpOf(w)', AloneOf(w)', FileInv'
    PROVE  AtomicInv'
<1>1. step' \in [Writers -> WriteSteps] /\ \A v \in Writers \ {w} : step'[v] = step[v]
  BY DEF AtomicInv, AtomicTypes, A!Goes
<1>2. AtomicTypes'
  BY <1>1 DEF AtomicInv, AtomicTypes
<1>3. \A v \in Writers \ {w} : TmpOf(v)' /\ AloneOf(v)'
  BY <1>1, OtherCalls
<1> QED
  BY <1>2, <1>3 DEF AtomicInv

\* A writer calls: it gets the file as it is, and the other calls are not alone.
LEMMA CallStep ==
    ASSUME AtomicInv, NEW w \in Writers, NEW f \in {"w", "wx", "a"}, A!Call(w, f)
    PROVE  AtomicInv'
<1> DEFINE rivals == {v \in Writers \ {w} : step[v] \in A!Running}
<1> USE DEF AtomicInv
<1>1. /\ step' = [step EXCEPT ![w] = "stat"] /\ step[w] = "idle"
      /\ flag' = [flag EXCEPT ![w] = f]
      /\ before' = [before EXCEPT ![w] = file]
      /\ UNCHANGED <<file, tmp, faults, copied>>
      /\ alone' = [v \in Writers |-> IF v = w THEN rivals = {} ELSE alone[v] /\ v \notin rivals]
  BY DEF A!Call, A!Goes
<1>2. alone' \in [Writers -> BOOLEAN]
  BY <1>1, Zenon DEF AtomicTypes
<1>3. /\ alone'[w] => rivals = {}
      /\ \A v \in Writers \ {w} : alone'[v] => alone[v] /\ v \notin rivals
  BY <1>1, Zenon
<1>4. AtomicTypes'
  BY <1>1, <1>2 DEF AtomicTypes, WriteSteps, A!Running
<1>5. FileInv'
  BY <1>1 DEF FileInv, AtomicTypes, A!Lost
<1>6. \A v \in Writers \ {w} : TmpOf(v)' /\ AloneOf(v)'
  BY <1>1, <1>3, OtherCalls DEF AtomicTypes
<1>7. TmpOf(w)'
  BY <1>1 DEF TmpOf, AtomicTypes
<1>8. AloneOf(w)'
  BY <1>1, <1>3 DEF AloneOf, AtomicTypes
<1> QED
  BY <1>4, <1>5, <1>6, <1>7, <1>8

\* What a call that runs is when it comes to a step.
LEMMA CallFacts ==
    ASSUME AtomicInv, NEW w \in Writers
    PROVE  /\ TmpOf(w) /\ AloneOf(w) /\ AtomicTypes /\ FileInv
           /\ file \in Whole /\ faults \in Nat
           /\ DOMAIN tmp = Writers /\ copied \in [Writers -> BOOLEAN]
  BY Zenon DEF AtomicInv, AtomicTypes

\* A call goes to its next step.
LEMMA GoesFacts ==
    ASSUME AtomicTypes, NEW w \in Writers, NEW s, A!Goes(w, s)
    PROVE  step'[w] = s
  BY DEF A!Goes, AtomicTypes

\* A call changes its temporary file.
LEMMA TmpFacts ==
    ASSUME AtomicTypes, NEW w \in Writers, NEW f, A!SetTmp(w, f)
    PROVE  /\ DOMAIN tmp' = Writers /\ tmp'[w] = f
           /\ \A v \in Writers \ {w} : tmp'[v] = tmp[v]
  BY DEF A!SetTmp, AtomicTypes

\* A system call works, or is one of the faults.
LEMMA FaultFacts ==
    ASSUME AtomicTypes, A!Works \/ A!Fails
    PROVE  faults' \in Nat /\ (faults' = 0 => faults = 0)
  BY DEF A!Works, A!Fails, AtomicTypes

\* The call looks whether the file is there, and goes on by its flag.
LEMMA StatStep ==
    ASSUME AtomicInv, NEW w \in Writers, A!Stat(w)
    PROVE  AtomicInv'
<1>0. /\ TmpOf(w) /\ AloneOf(w) /\ AtomicTypes /\ FileInv
      /\ file \in Whole /\ faults \in Nat
      /\ DOMAIN tmp = Writers /\ copied \in [Writers -> BOOLEAN]
  BY CallFacts
<1>1. PICK seen \in BOOLEAN :
        /\ IF seen = (file # {}) THEN A!Works ELSE ~seen /\ A!Fails
        /\ A!Goes(w, IF flag[w] = "wx" /\ seen THEN "exists"
                     ELSE IF flag[w] = "a" THEN "copy" ELSE "write")
  BY Zenon DEF A!Stat
<1>2. step[w] = "stat" /\ UNCHANGED <<file, tmp, copied, flag, before, alone>>
  BY DEF A!Stat, A!History
<1>3. /\ faults' \in Nat
      /\ faults' = 0 => faults = 0 /\ (seen <=> file # {})
  <2>1. CASE seen = (file # {})
    <3>1. faults' = faults
      BY <1>1, <2>1, Zenon DEF A!Works
    <3>2. seen <=> file # {}
      BY <2>1, Zenon
    <3> QED
      BY <1>0, <3>1, <3>2
  <2>2. CASE ~(seen = (file # {}))
    <3>1. faults' = faults + 1
      BY <1>1, <2>2, Zenon DEF A!Fails
    <3> QED
      BY <1>0, <3>1
  <2> QED
    BY <2>1, <2>2
<1>4. PICK s \in {"exists", "copy", "write"} :
        /\ A!Goes(w, s)
        /\ s = "exists" <=> flag[w] = "wx" /\ seen
        /\ s = "copy" <=> flag[w] = "a"
  <2>1. CASE flag[w] = "wx" /\ seen
    <3>1. A!Goes(w, "exists")
      BY <1>1, <2>1, Zenon
    <3> QED
      BY <2>1, <3>1
  <2>2. CASE ~(flag[w] = "wx" /\ seen) /\ flag[w] = "a"
    <3>1. A!Goes(w, "copy")
      BY <1>1, <2>2, Zenon
    <3> QED
      BY <2>2, <3>1
  <2>3. CASE ~(flag[w] = "wx" /\ seen) /\ flag[w] # "a"
    <3>1. A!Goes(w, "write")
      BY <1>1, <2>3, Zenon
    <3> QED
      BY <2>3, <3>1
  <2> QED
    BY <2>1, <2>2, <2>3
<1>5. s \in WriteSteps /\ step'[w] = s
  BY <1>0, <1>4, GoesFacts DEF WriteSteps, A!Running
<1>6. TmpOf(w)'
  BY <1>0, <1>2, <1>4, <1>5 DEF TmpOf, Whole
<1>7. AloneOf(w)'
  <2>1. step'[w] \in A!Running => s # "exists"
    BY <1>5 DEF A!Running
  <2>2. \A v \in Writers \ {w} : step'[v] = step[v]
    BY <1>0, <1>4 DEF A!Goes, AtomicTypes
  <2>3. step[w] \in A!Running
    BY <1>2 DEF A!Running
  <2>4. step[w] = "stat" /\ ~copied[w]
    BY <1>0, <1>2 DEF TmpOf
  <2> QED
    BY <1>0, <1>2, <1>3, <1>4, <1>5, <2>1, <2>2, <2>3, <2>4 DEF AloneOf
<1>8. FileInv'
  <2>1. \A v \in Writers \ {w} : step'[v] = step[v]
    BY <1>0, <1>4 DEF A!Goes, AtomicTypes
  <2> QED
    BY <1>0, <1>2, <1>4, <1>5, <2>1 DEF FileInv, A!Lost
<1>9. step[w] \in A!Running
  BY <1>2 DEF A!Running
<1> QED
  BY <1>0, <1>2, <1>3, <1>4, <1>5, <1>6, <1>7, <1>8, <1>9, OneCall

\* A step that leaves the file alone.
LEMMA FileKept ==
    ASSUME AtomicInv, NEW w \in Writers, NEW s, A!Goes(w, s), UNCHANGED <<file, before>>,
           s \in {"clean", "done"} => step[w] \in {"clean", "done"},
           step[w] \in A!Lost \cup {"rename"} => s \in A!Lost \cup {"rename"}
    PROVE  FileInv'
<1>1. FileInv /\ AtomicTypes
  BY DEF AtomicInv
<1>2. step'[w] = s /\ \A v \in Writers \ {w} : step'[v] = step[v]
  BY <1>1 DEF A!Goes, AtomicTypes
<1> QED
  BY <1>1, <1>2 DEF FileInv

\* The file is copied to the temporary one, or is not there.
LEMMA CopyStep ==
    ASSUME AtomicInv, NEW w \in Writers, A!Copy(w)
    PROVE  AtomicInv'
<1>0. /\ TmpOf(w) /\ AloneOf(w) /\ AtomicTypes /\ FileInv
      /\ file \in Whole /\ faults \in Nat
      /\ DOMAIN tmp = Writers /\ copied \in [Writers -> BOOLEAN]
  BY CallFacts
<1>1. step[w] = "copy" /\ UNCHANGED <<file, flag, before, alone>>
  BY DEF A!Copy, A!History
<1>2. /\ faults' \in Nat /\ (faults' = 0 => faults = 0)
      /\ \/ /\ file # {} /\ A!Goes(w, "chmod") /\ A!SetTmp(w, file)
            /\ copied' = [copied EXCEPT ![w] = TRUE]
         \/ A!Goes(w, "write") /\ UNCHANGED <<tmp, copied>> /\ (file = {} \/ faults' # 0)
  BY <1>0 DEF A!Copy, A!Works, A!Fails
<1>3. step[w] \in A!Running /\ "chmod" \in WriteSteps /\ "write" \in WriteSteps
  BY <1>1 DEF A!Running, WriteSteps
<1>4. tmp[w] = {} /\ ~copied[w] /\ flag[w] = "a"
  BY <1>0, <1>1 DEF TmpOf
<1>5. CASE /\ file # {} /\ A!Goes(w, "chmod") /\ A!SetTmp(w, file)
           /\ copied' = [copied EXCEPT ![w] = TRUE]
  <2>1. step'[w] = "chmod" /\ \A v \in Writers \ {w} : step'[v] = step[v]
    BY <1>0, <1>5 DEF A!Goes, AtomicTypes
  <2>2. /\ DOMAIN tmp' = Writers /\ tmp'[w] = file
        /\ \A v \in Writers \ {w} : tmp'[v] = tmp[v]
    BY <1>0, <1>5, TmpFacts
  <2>3. /\ copied' \in [Writers -> BOOLEAN] /\ copied'[w]
        /\ \A v \in Writers \ {w} : copied'[v] = copied[v]
    BY <1>0, <1>5
  <2>4. TmpOf(w)'
    BY <1>0, <1>1, <1>4, <1>5, <2>1, <2>2, <2>3 DEF TmpOf
  <2>5. AloneOf(w)'
    BY <1>0, <1>1, <1>2, <1>3, <2>1, <2>2, <2>3 DEF AloneOf
  <2>6. FileInv'
    BY <1>1, <1>5, FileKept DEF A!Lost
  <2> QED
    BY <1>0, <1>1, <1>2, <1>3, <1>5, <2>2, <2>3, <2>4, <2>5, <2>6, OneCall
<1>6. CASE A!Goes(w, "write") /\ UNCHANGED <<tmp, copied>> /\ (file = {} \/ faults' # 0)
  <2>1. step'[w] = "write" /\ \A v \in Writers \ {w} : step'[v] = step[v]
    BY <1>0, <1>6 DEF A!Goes, AtomicTypes
  <2>4. TmpOf(w)'
    BY <1>0, <1>1, <1>4, <1>6, <2>1 DEF TmpOf, Whole
  <2>5. AloneOf(w)'
    BY <1>0, <1>1, <1>2, <1>3, <1>4, <1>6, <2>1 DEF AloneOf
  <2>6. FileInv'
    BY <1>1, <1>6, FileKept DEF A!Lost
  <2> QED
    BY <1>0, <1>1, <1>2, <1>3, <1>6, <2>4, <2>5, <2>6, OneCall
<1> QED
  BY <1>2, <1>5, <1>6

\* The copy gets its mode, or is removed when that fails.
LEMMA ChmodStep ==
    ASSUME AtomicInv, NEW w \in Writers, A!Chmod(w)
    PROVE  AtomicInv'
<1>0. /\ TmpOf(w) /\ AloneOf(w) /\ AtomicTypes /\ FileInv
      /\ file \in Whole /\ faults \in Nat
      /\ DOMAIN tmp = Writers /\ copied \in [Writers -> BOOLEAN]
  BY CallFacts
<1>1. /\ step[w] = "chmod" /\ UNCHANGED <<file, flag, before, alone>>
      /\ A!Goes(w, "write")
  BY DEF A!Chmod, A!History
<1>2. /\ faults' \in Nat /\ (faults' = 0 => faults = 0)
      /\ \/ UNCHANGED <<tmp, copied>>
         \/ A!SetTmp(w, {}) /\ copied' = [copied EXCEPT ![w] = FALSE] /\ faults' # 0
  BY <1>0 DEF A!Chmod, A!Works, A!Fails
<1>3. step[w] \in A!Running /\ "write" \in WriteSteps
  BY <1>1 DEF A!Running, WriteSteps
<1>4. copied[w] /\ tmp[w] \in Whole /\ tmp[w] # {} /\ flag[w] = "a"
  BY <1>0, <1>1 DEF TmpOf
<1>5. step'[w] = "write" /\ \A v \in Writers \ {w} : step'[v] = step[v]
  BY <1>0, <1>1 DEF A!Goes, AtomicTypes
<1>6. FileInv'
  BY <1>1, FileKept DEF A!Lost
<1>7. CASE UNCHANGED <<tmp, copied>>
  <2>1. TmpOf(w)'
    BY <1>1, <1>4, <1>5, <1>7 DEF TmpOf
  <2>2. AloneOf(w)'
    BY <1>0, <1>1, <1>2, <1>3, <1>4, <1>5, <1>7 DEF AloneOf
  <2> QED
    BY <1>0, <1>1, <1>2, <1>3, <1>6, <1>7, <2>1, <2>2, OneCall
<1>8. CASE A!SetTmp(w, {}) /\ copied' = [copied EXCEPT ![w] = FALSE] /\ faults' # 0
  <2>2. /\ DOMAIN tmp' = Writers /\ tmp'[w] = {}
        /\ \A v \in Writers \ {w} : tmp'[v] = tmp[v]
    BY <1>0, <1>8, TmpFacts
  <2>3. /\ copied' \in [Writers -> BOOLEAN] /\ ~copied'[w]
        /\ \A v \in Writers \ {w} : copied'[v] = copied[v]
    BY <1>0, <1>8
  <2>4. TmpOf(w)'
    BY <1>5, <2>2, <2>3 DEF TmpOf, Whole
  <2>5. AloneOf(w)'
    BY <1>0, <1>1, <1>2, <1>3, <1>5, <1>8, <2>2, <2>3 DEF AloneOf
  <2> QED
    BY <1>0, <1>1, <1>2, <1>3, <1>6, <2>2, <2>3, <2>4, <2>5, OneCall
<1> QED
  BY <1>2, <1>7, <1>8

\* What is written behind a content.
LEMMA WrittenFacts ==
    ASSUME NEW w \in Writers, NEW f \in Whole
    PROVE  LET content == IF f = {} THEN <<>> ELSE CHOOSE c \in f : TRUE IN
           /\ {Append(content, w)} \in Whole \ {{}}
           /\ f = {} => {Append(content, w)} = {<<w>>}
           /\ f # {} => {Append(content, w)} = {Append(c, w) : c \in f}
<1>1. CASE f = {}
  <2>1. Append(<<>>, w) = <<w>> /\ <<w>> \in Contents
    BY DEF Contents
  <2> QED
    BY <1>1, <2>1 DEF Whole
<1>2. CASE f # {}
  <2>1. PICK c \in Contents : f = {c}
    BY <1>2 DEF Whole
  <2>2. (CHOOSE d \in f : TRUE) = c
    BY <2>1
  <2>3. Append(c, w) \in Contents
    BY DEF Contents
  <2>4. {Append(c, w)} \in Whole
    BY <2>3, Zenon DEF Whole
  <2>5. {Append(d, w) : d \in f} = {Append(c, w)}
    BY <2>1, Zenon
  <2> QED
    BY <1>2, <2>2, <2>4, <2>5
<1> QED
  BY <1>1, <1>2

\* The content is written behind what was copied, whole or not.
LEMMA WriteStep ==
    ASSUME AtomicInv, NEW w \in Writers, A!WriteTmp(w)
    PROVE  AtomicInv'
<1>0. /\ TmpOf(w) /\ AloneOf(w) /\ AtomicTypes /\ FileInv
      /\ file \in Whole /\ faults \in Nat
      /\ DOMAIN tmp = Writers /\ copied \in [Writers -> BOOLEAN]
  BY CallFacts
<1> DEFINE content == IF tmp[w] = {} THEN <<>> ELSE CHOOSE c \in tmp[w] : TRUE
<1>1. step[w] = "write" /\ UNCHANGED <<file, copied, flag, before, alone>>
  BY DEF A!WriteTmp, A!History
<1>2. /\ faults' \in Nat /\ (faults' = 0 => faults = 0)
      /\ \/ A!SetTmp(w, {Append(content, w)}) /\ A!Goes(w, "unlink")
         \/ A!SetTmp(w, {Append(content, "half")}) /\ A!Goes(w, "writeFailed")
  <2>1. (A!Works \/ A!Fails)
        /\ \/ A!SetTmp(w, {Append(content, w)}) /\ A!Goes(w, "unlink")
           \/ A!SetTmp(w, {Append(content, "half")}) /\ A!Goes(w, "writeFailed")
    BY Zenon DEF A!WriteTmp
  <2> QED
    BY <1>0, <2>1, FaultFacts
<1>3. step[w] \in A!Running /\ "unlink" \in WriteSteps /\ "writeFailed" \in WriteSteps
  BY <1>1 DEF A!Running, WriteSteps
<1>4. /\ tmp[w] \in Whole /\ (copied[w] <=> tmp[w] # {}) /\ (copied[w] => flag[w] = "a")
      /\ alone[w] /\ copied[w] => tmp[w] = before[w]
  BY <1>0, <1>1, <1>3 DEF TmpOf, AloneOf
<1>5. CASE A!SetTmp(w, {Append(content, w)}) /\ A!Goes(w, "unlink")
  <2>1. step'[w] = "unlink" /\ \A v \in Writers \ {w} : step'[v] = step[v]
    BY <1>0, <1>5 DEF A!Goes, AtomicTypes
  <2>2. /\ DOMAIN tmp' = Writers /\ tmp'[w] = {Append(content, w)}
        /\ \A v \in Writers \ {w} : tmp'[v] = tmp[v]
    BY <1>0, <1>5, TmpFacts
  <2>3. /\ tmp'[w] \in Whole \ {{}}
        /\ tmp[w] = {} => tmp'[w] = {<<w>>}
        /\ tmp[w] # {} => tmp'[w] = {Append(c, w) : c \in tmp[w]}
    <3>1. /\ {Append(content, w)} \in Whole \ {{}}
          /\ tmp[w] = {} => {Append(content, w)} = {<<w>>}
          /\ tmp[w] # {} => {Append(content, w)} = {Append(c, w) : c \in tmp[w]}
      BY <1>4, WrittenFacts, Zenon
    <3> QED
      BY <2>2, <3>1, Zenon
  <2>4. TmpOf(w)'
    BY <1>1, <1>4, <2>1, <2>3 DEF TmpOf
  <2>5. alone[w] => tmp'[w] = Leaves(w)'
    <3>1. CASE copied[w]
      BY <1>1, <1>4, <2>3, <3>1, Zenon DEF Leaves
    <3>2. CASE ~copied[w]
      BY <1>1, <1>4, <2>3, <3>2, Zenon DEF Leaves
    <3> QED
      BY <3>1, <3>2
  <2>6. AloneOf(w)'
    BY <1>0, <1>1, <1>2, <1>3, <2>1, <2>5 DEF AloneOf
  <2>7. FileInv'
    BY <1>1, <1>5, FileKept DEF A!Lost
  <2> QED
    BY <1>0, <1>1, <1>2, <1>3, <1>5, <2>2, <2>4, <2>6, <2>7, OneCall
<1>6. CASE A!SetTmp(w, {Append(content, "half")}) /\ A!Goes(w, "writeFailed")
  <2>1. step'[w] = "writeFailed"
    BY <1>0, <1>6, GoesFacts
  <2>2. DOMAIN tmp' = Writers /\ \A v \in Writers \ {w} : tmp'[v] = tmp[v]
    BY <1>0, <1>6, TmpFacts
  <2>4. TmpOf(w)'
    BY <1>1, <1>4, <2>1 DEF TmpOf
  <2>6. AloneOf(w)'
    BY <2>1 DEF AloneOf, A!Running
  <2>7. FileInv'
    BY <1>1, <1>6, FileKept DEF A!Lost
  <2> QED
    BY <1>0, <1>1, <1>2, <1>3, <1>6, <2>2, <2>4, <2>6, <2>7, OneCall
<1> QED
  BY <1>2, <1>5, <1>6

\* The file is unlinked before the rename.
LEMMA UnlinkStep ==
    ASSUME AtomicInv, NEW w \in Writers, A!Unlink(w)
    PROVE  AtomicInv'
<1>0. /\ TmpOf(w) /\ AloneOf(w) /\ AtomicTypes /\ FileInv
      /\ file \in Whole /\ faults \in Nat
      /\ DOMAIN tmp = Writers /\ copied \in [Writers -> BOOLEAN]
  BY CallFacts
<1>1. step[w] = "unlink" /\ UNCHANGED <<tmp, copied, flag, before, alone>>
  BY DEF A!Unlink, A!History
<1>2. /\ faults' \in Nat /\ (faults' = 0 => faults = 0)
      /\ \/ file' = {} /\ A!Goes(w, "rename")
         \/ file' = file /\ A!Goes(w, "cleanAfterError")
  <2>1. (A!Works \/ A!Fails)
        /\ \/ file' = {} /\ A!Goes(w, "rename")
           \/ file' = file /\ A!Goes(w, "cleanAfterError")
    BY Zenon DEF A!Unlink
  <2> QED
    BY <1>0, <2>1, FaultFacts
<1>3. /\ step[w] \in A!Running /\ "rename" \in WriteSteps /\ "cleanAfterError" \in WriteSteps
      /\ {} \in Whole
  BY <1>1 DEF A!Running, WriteSteps, Whole
<1>4. tmp[w] \in Whole \ {{}} /\ (copied[w] => flag[w] = "a")
  BY <1>0, <1>1 DEF TmpOf
<1>5. Leaves(w)' = Leaves(w)
  BY <1>1 DEF Leaves
<1>6. CASE file' = {} /\ A!Goes(w, "rename")
  <2>1. step'[w] = "rename" /\ \A v \in Writers \ {w} : step'[v] = step[v]
    BY <1>0, <1>6 DEF A!Goes, AtomicTypes
  <2>4. TmpOf(w)'
    BY <1>1, <1>4, <2>1 DEF TmpOf
  <2>6. AloneOf(w)'
    BY <1>0, <1>1, <1>2, <1>3, <1>5, <2>1 DEF AloneOf
  <2>7. FileInv'
    BY <2>1 DEF FileInv
  <2> QED
    BY <1>0, <1>1, <1>2, <1>3, <1>6, <2>4, <2>6, <2>7, OneCall
<1>7. CASE file' = file /\ A!Goes(w, "cleanAfterError")
  <2>1. step'[w] = "cleanAfterError" /\ \A v \in Writers \ {w} : step'[v] = step[v]
    BY <1>0, <1>7 DEF A!Goes, AtomicTypes
  <2>4. TmpOf(w)'
    BY <1>1, <1>4, <2>1 DEF TmpOf
  <2>6. AloneOf(w)'
    BY <1>0, <1>1, <1>2, <1>3, <1>7, <2>1 DEF AloneOf
  <2>7. FileInv'
    BY <1>1, <1>7, FileKept DEF A!Lost
  <2> QED
    BY <1>0, <1>1, <1>2, <1>3, <1>7, <2>4, <2>6, <2>7, OneCall
<1> QED
  BY <1>2, <1>6, <1>7

\* The temporary file takes the name of the file.
LEMMA RenameStep ==
    ASSUME AtomicInv, NEW w \in Writers, A!Rename(w)
    PROVE  AtomicInv'
<1>0. /\ TmpOf(w) /\ AloneOf(w) /\ AtomicTypes /\ FileInv
      /\ file \in Whole /\ faults \in Nat
      /\ DOMAIN tmp = Writers /\ copied \in [Writers -> BOOLEAN]
  BY CallFacts
<1>1. step[w] = "rename" /\ UNCHANGED <<copied, flag, before, alone>> /\ A!SetTmp(w, {})
  BY DEF A!Rename, A!History
<1>2. /\ faults' \in Nat /\ (faults' = 0 => faults = 0)
      /\ \/ file' = tmp[w] /\ A!Goes(w, "clean")
         \/ file' = file /\ A!Goes(w, "renameFailed")
  <2>1. (A!Works \/ A!Fails)
        /\ \/ file' = tmp[w] /\ A!Goes(w, "clean")
           \/ file' = file /\ A!Goes(w, "renameFailed")
    BY Zenon DEF A!Rename
  <2> QED
    BY <1>0, <2>1, FaultFacts
<1>3. /\ step[w] \in A!Running /\ "clean" \in WriteSteps /\ "renameFailed" \in WriteSteps
  BY <1>1 DEF A!Running, A!Lost, WriteSteps
<1>4. tmp[w] \in Whole \ {{}} /\ (copied[w] => flag[w] = "a")
  BY <1>0, <1>1 DEF TmpOf
<1>5. Leaves(w)' = Leaves(w)
  BY <1>1 DEF Leaves
<1>6. /\ DOMAIN tmp' = Writers /\ tmp'[w] = {}
      /\ \A v \in Writers \ {w} : tmp'[v] = tmp[v]
  BY <1>0, <1>1, TmpFacts
<1>7. CASE file' = tmp[w] /\ A!Goes(w, "clean")
  <2>1. step'[w] = "clean" /\ \A v \in Writers \ {w} : step'[v] = step[v]
    BY <1>0, <1>7 DEF A!Goes, AtomicTypes
  <2>4. TmpOf(w)'
    BY <1>1, <1>4, <2>1 DEF TmpOf
  <2>6. AloneOf(w)'
    BY <1>0, <1>1, <1>2, <1>3, <1>5, <1>7, <2>1 DEF AloneOf
  <2>7. FileInv'
    BY <1>4, <1>7 DEF FileInv
  <2> QED
    BY <1>0, <1>1, <1>2, <1>3, <1>4, <1>6, <1>7, <2>4, <2>6, <2>7, OneCall
<1>8. CASE file' = file /\ A!Goes(w, "renameFailed")
  <2>1. step'[w] = "renameFailed"
    BY <1>0, <1>8, GoesFacts
  <2>4. TmpOf(w)'
    BY <1>1, <1>4, <1>6, <2>1 DEF TmpOf
  <2>6. AloneOf(w)'
    BY <2>1 DEF AloneOf, A!Running
  <2>7. FileInv'
    BY <1>1, <1>8, FileKept DEF A!Lost
  <2> QED
    BY <1>0, <1>1, <1>2, <1>3, <1>6, <1>8, <2>4, <2>6, <2>7, OneCall
<1> QED
  BY <1>2, <1>7, <1>8

\* The temporary file is removed at the end of a call.
LEMMA CleanStep ==
    ASSUME AtomicInv, NEW w \in Writers, A!Clean(w)
    PROVE  AtomicInv'
<1>0. /\ TmpOf(w) /\ AloneOf(w) /\ AtomicTypes /\ FileInv
      /\ file \in Whole /\ faults \in Nat
      /\ DOMAIN tmp = Writers /\ copied \in [Writers -> BOOLEAN]
  BY CallFacts
<1>1. /\ step[w] \in {"clean", "cleanAfterError"} /\ A!SetTmp(w, {})
      /\ UNCHANGED <<file, faults, copied, flag, before, alone>>
  BY DEF A!Clean, A!History
<1>2. PICK s \in {"done", "unlinkFailed"} :
        A!Goes(w, s) /\ (s = "done" => step[w] = "clean")
  BY DEF A!Clean
<1>3. /\ step[w] \in A!Running /\ s \in WriteSteps
  BY <1>1 DEF A!Running, WriteSteps
<1>4. copied[w] => flag[w] = "a"
  BY <1>0 DEF TmpOf
<1>5. step'[w] = s
  BY <1>0, <1>2, GoesFacts
<1>6. /\ DOMAIN tmp' = Writers /\ tmp'[w] = {}
      /\ \A v \in Writers \ {w} : tmp'[v] = tmp[v]
  BY <1>0, <1>1, TmpFacts
<1>7. TmpOf(w)'
  BY <1>1, <1>4, <1>5, <1>6 DEF TmpOf
<1>8. AloneOf(w)'
  BY <1>5 DEF AloneOf, A!Running
<1>9. FileInv'
  BY <1>1, <1>2, FileKept DEF A!Lost
<1> QED
  BY <1>0, <1>1, <1>2, <1>3, <1>6, <1>7, <1>8, <1>9, OneCall

\* The process ends in the middle of its calls.
LEMMA CrashStep ==
    ASSUME AtomicInv, NEW w \in Writers, A!Crash(w)
    PROVE  AtomicInv'
<1>0. /\ TmpOf(w) /\ AloneOf(w) /\ AtomicTypes /\ FileInv
      /\ file \in Whole /\ faults \in Nat
      /\ DOMAIN tmp = Writers /\ copied \in [Writers -> BOOLEAN]
  BY CallFacts
<1>1. /\ step[w] \in A!Running
      /\ UNCHANGED <<file, tmp, copied, flag, before, alone>>
  BY DEF A!Crash, A!History
<1>2. PICK s \in {"crashedBeforeRename", "crashed"} :
        A!Goes(w, s) /\ (step[w] = "rename" => s = "crashedBeforeRename")
  BY DEF A!Crash
<1>3. s \in WriteSteps /\ s \notin A!Running
  BY DEF A!Running, A!Lost, WriteSteps
<1>4. copied[w] => flag[w] = "a"
  BY <1>0 DEF TmpOf
<1>5. step'[w] = s /\ faults' \in Nat
  BY <1>0, <1>2, GoesFacts, FaultFacts DEF A!Crash
<1>7. TmpOf(w)'
  BY <1>1, <1>4, <1>5 DEF TmpOf
<1>8. AloneOf(w)'
  BY <1>3, <1>5 DEF AloneOf
<1>9. FileInv'
  <2>1. step[w] \in A!Lost \cup {"rename"} => s \in A!Lost \cup {"rename"}
    BY <1>1, <1>2 DEF A!Lost, A!Running
  <2> QED
    BY <1>1, <1>2, <2>1, FileKept
<1> QED
  BY <1>0, <1>1, <1>2, <1>3, <1>5, <1>7, <1>8, <1>9, OneCall

\* The invariant is inductive, each system call by the lemma about it.
LEMMA AtomicStep == AtomicInv /\ [Next]_vars => AtomicInv'
<1> SUFFICES ASSUME AtomicInv, [Next]_vars PROVE AtomicInv'
  OBVIOUS
<1>1. CASE UNCHANGED atomicVars
  BY <1>1 DEF atomicVars, AtomicInv, AtomicTypes, FileInv, TmpOf, AloneOf, Leaves
<1>2. CASE A!AtomicNext
  BY <1>2, CallStep, StatStep, CopyStep, ChmodStep, WriteStep, UnlinkStep, RenameStep,
     CleanStep, CrashStep DEF A!AtomicNext
<1> QED
  BY <1>1, <1>2, ServiceStep

\* The invariant of the atomic writes holds at the start.
LEMMA AtomicInit == Init => AtomicInv
<1> SUFFICES ASSUME Init PROVE AtomicInv
  OBVIOUS
<1>1. /\ file \in {{}, {<<"old">>}}
      /\ tmp = [w \in Writers |-> {}] /\ flag = [w \in Writers |-> "w"]
      /\ step = [w \in Writers |-> "idle"] /\ faults = 0
      /\ before = [w \in Writers |-> {}]
  BY DEF Init, ServicesInit, A!AtomicInit
<1>2. /\ alone \in [Writers -> BOOLEAN] /\ copied \in [Writers -> BOOLEAN]
      /\ \A w \in Writers : ~copied[w]
  BY Zenon DEF Init, ServicesInit, A!AtomicInit
<1>3. {} \in Whole /\ {<<"old">>} \in Whole
  <2>1. <<"old">> \in Contents
    BY DEF Contents
  <2> QED
    BY <2>1, Zenon DEF Whole
<1>4. AtomicTypes
  BY <1>1, <1>2, <1>3 DEF AtomicTypes, WriteSteps
<1>5. FileInv
  BY <1>1 DEF FileInv
<1>6. \A w \in Writers : TmpOf(w) /\ AloneOf(w)
  BY <1>1, <1>2 DEF TmpOf, AloneOf, A!Running
<1> QED
  BY <1>4, <1>5, <1>6 DEF AtomicInv

(***************************************************************************)
(* A file that is written atomically is whole, or missing because of a     *)
(* call between its unlink() and its rename(); and a call that no other    *)
(* overlapped leaves what its flag says, whatever fails, for any number of *)
(* calls (write-file-atomic.ts).                                           *)
(***************************************************************************)
THEOREM FilesStayWhole == Spec => []WholeOrLost
<1>1. AtomicInv => WholeOrLost
  <2> SUFFICES ASSUME AtomicInv PROVE A!WholeOrLost
    BY DEF WholeOrLost
  <2>1. \A content \in file : \A i \in DOMAIN content : content[i] # "half"
    <3>1. \A c \in Contents : \A i \in DOMAIN c : c[i] # "half"
      BY AsyncAssumption DEF Contents
    <3>2. \A c \in file : c \in Contents
      BY DEF AtomicInv, AtomicTypes, Whole
    <3> QED
      BY <3>1, <3>2
  <2>2. ASSUME NEW w \in Writers
        PROVE  /\ tmp[w] # {} => step[w] \notin {"done", "exists", "unlinkFailed", "renameFailed"}
               /\ step[w] = "clean" /\ alone[w] => file = Leaves(w)
               /\ step[w] = "clean" /\ alone[w] /\ faults = 0 =>
                    /\ flag[w] = "wx" => before[w] = {}
                    /\ flag[w] = "a" /\ before[w] # {} => copied[w]
    BY <2>2 DEF AtomicInv, TmpOf, AloneOf, A!Running
  <2> QED
    BY <2>1, <2>2 DEF A!WholeOrLost, AtomicInv, FileInv, Leaves
<1> QED
  BY <1>1, AtomicInit, AtomicStep, PTL DEF Spec

-----------------------------------------------------------------------------
(***************************************************************************)
(* Locks between processes: a task that has the lock, or is about to, or   *)
(* gives it back.                                                          *)
(***************************************************************************)
WithLock == {"opened", "holding", "closing", "unlinking"}
LockSteps ==
    {"idle", "opening", "refused", "opened", "holding", "closing", "unlinking", "closed"}

ClosedBySignal == "closedBySignal" \in causes
Forgotten == "socketForgotten" \in causes

LockTypes ==
    /\ class \in {"file", "udp"}
    /\ taken \in K!LockTasks \cup {K!Free}
    /\ DOMAIN handle = K!LockProcesses
    /\ doing \in [K!LockTasks -> LockSteps]

\* The steps of unlock() are those of the lock's class, and the dead are idle.
StepOf(t) ==
    /\ class = "file" => doing[t] # "closed"
    /\ class = "udp" => doing[t] \notin {"closing", "unlinking"}
    /\ ~K!Alive(t) => doing[t] = "idle"

LockInv ==
    /\ LockTypes
    /\ \A t \in K!LockTasks :
        /\ StepOf(t)
        /\ ~ClosedBySignal /\ doing[t] \in WithLock => taken = t
        /\ ~ClosedBySignal /\ ~Forgotten /\ doing[t] = "holding" => handle[K!Home(t)] = t
    /\ causes = {} /\ taken # K!Free => doing[taken] \in WithLock

\* A task goes on to a step of the lock's class: the types are kept, and the
\* other tasks stay where they are.
LEMMA GoesOn ==
    ASSUME LockInv, NEW t \in K!LockTasks, NEW s \in LockSteps,
           K!Goes(t, s), K!Alive(t), UNCHANGED <<class, dead>>,
           class = "file" => s # "closed",
           class = "udp" => s \notin {"closing", "unlinking"},
           taken' \in K!LockTasks \cup {K!Free}, DOMAIN handle' = K!LockProcesses
    PROVE  /\ LockTypes'
           /\ \A u \in K!LockTasks :
                StepOf(u)' /\ doing'[u] = IF u = t THEN s ELSE doing[u]
<1>1. doing' \in [K!LockTasks -> LockSteps]
  BY DEF LockInv, LockTypes, K!Goes
<1>2. \A u \in K!LockTasks : doing'[u] = IF u = t THEN s ELSE doing[u]
  BY DEF LockInv, LockTypes, K!Goes
<1>3. \A u \in K!LockTasks : K!Alive(u)' <=> K!Alive(u)
  BY DEF K!Alive
<1>4. \A u \in K!LockTasks : StepOf(u)'
  BY <1>2, <1>3 DEF LockInv, StepOf
<1> QED
  BY <1>1, <1>2, <1>4 DEF LockInv, LockTypes

\* A task that goes on to no step with the lock, while the lock stays taken or not.
LEMMA GoesWithout ==
    ASSUME LockInv, NEW t \in K!LockTasks, NEW s \in {"idle", "opening", "refused"},
           K!Goes(t, s), K!Alive(t),
           doing[t] \notin WithLock \/ causes' # {},
           UNCHANGED <<class, dead, taken, handle>>, causes \subseteq causes'
    PROVE  LockInv'
<1>1. /\ LockTypes'
      /\ \A u \in K!LockTasks :
           StepOf(u)' /\ doing'[u] = IF u = t THEN s ELSE doing[u]
  <2>1. /\ s \in LockSteps /\ s # "closed" /\ s \notin {"closing", "unlinking"}
        /\ taken' \in K!LockTasks \cup {K!Free} /\ DOMAIN handle' = K!LockProcesses
    BY DEF LockSteps, LockInv, LockTypes
  <2> QED
    BY <2>1, GoesOn
<1>3. (ClosedBySignal => ClosedBySignal') /\ (Forgotten => Forgotten')
  BY DEF ClosedBySignal, Forgotten
<1>4. causes' = {} /\ taken' # K!Free => doing'[taken'] \in WithLock
  BY <1>1 DEF LockInv, LockTypes
<1> QED
  BY <1>1, <1>3, <1>4 DEF LockInv, WithLock

\* What opens, has or gives up the lock, and the signal and the end of a process.
LEMMA LockKeeps == LockInv /\ K!LocksNext => LockInv'
<1> SUFFICES ASSUME LockInv, K!LocksNext PROVE LockInv'
  OBVIOUS
<1>1. ASSUME NEW t \in K!LockTasks, NEW polls \in BOOLEAN, K!Lock(t, polls)
      PROVE  LockInv'
  BY <1>1, GoesWithout DEF K!Lock, K!Same, WithLock
<1>2. ASSUME NEW t \in K!LockTasks, K!OpenOrBind(t)
      PROVE  LockInv'
  <2>1. /\ K!Alive(t) /\ doing[t] = "opening"
        /\ UNCHANGED <<handle, causes, class, dead>>
    BY <1>2 DEF K!OpenOrBind, K!Same
  <2>2. CASE taken' = taken /\ K!Goes(t, "refused")
    BY <2>1, <2>2, GoesWithout DEF WithLock
  <2>3. CASE taken = K!Free /\ taken' = t /\ K!Goes(t, "opened")
    <3>1. /\ LockTypes'
          /\ \A u \in K!LockTasks :
               StepOf(u)' /\ doing'[u] = IF u = t THEN "opened" ELSE doing[u]
      <4>1. /\ "opened" \in LockSteps
            /\ taken' \in K!LockTasks \cup {K!Free} /\ DOMAIN handle' = K!LockProcesses
        BY <2>1, <2>3 DEF LockInv, LockTypes, LockSteps
      <4> QED
        BY <2>1, <2>3, <4>1, GoesOn
    <3>2. (ClosedBySignal <=> ClosedBySignal') /\ (Forgotten <=> Forgotten')
      BY <2>1 DEF ClosedBySignal, Forgotten
    <3>3. \A u \in K!LockTasks : u # K!Free
      BY AsyncAssumption DEF K!LockTasks, K!Free
    <3> QED
      BY <2>1, <2>3, <3>1, <3>2, <3>3 DEF LockInv, WithLock
  <2> QED
    BY <1>2, <2>2, <2>3 DEF K!OpenOrBind
<1>3. ASSUME NEW t \in K!LockTasks, K!Opened(t)
      PROVE  LockInv'
  <2>1. /\ K!Alive(t) /\ doing[t] = "opened" /\ K!Goes(t, "holding")
        /\ handle' = [handle EXCEPT ![K!Home(t)] = t]
        /\ UNCHANGED <<taken, causes, class, dead>>
    BY <1>3 DEF K!Opened, K!Same, K!SetHandle
  <2>2. /\ LockTypes'
        /\ \A u \in K!LockTasks :
             StepOf(u)' /\ doing'[u] = IF u = t THEN "holding" ELSE doing[u]
    <3>1. /\ "holding" \in LockSteps
          /\ taken' \in K!LockTasks \cup {K!Free} /\ DOMAIN handle' = K!LockProcesses
      BY <2>1 DEF LockInv, LockTypes, LockSteps
    <3> QED
      BY <2>1, <3>1, GoesOn
  <2>3. (ClosedBySignal <=> ClosedBySignal') /\ (Forgotten <=> Forgotten')
    BY <2>1 DEF ClosedBySignal, Forgotten
  <2>4. handle'[K!Home(t)] = t
    BY <2>1 DEF LockInv, LockTypes, K!Home, K!LockProcesses
  <2>5. ASSUME NEW u \in K!LockTasks, ~ClosedBySignal'
        PROVE  /\ doing'[u] \in WithLock => taken' = u
               /\ doing'[u] = "holding" => handle'[K!Home(u)] = u
    <3>1. taken = t
      BY <2>1, <2>3, <2>5 DEF LockInv, WithLock
    <3>2. u # t => doing[u] \notin WithLock
      BY <2>3, <2>5, <3>1 DEF LockInv
    <3> QED
      BY <2>1, <2>2, <2>4, <3>1, <3>2 DEF WithLock
  <2>6. causes' = {} /\ taken' # K!Free => doing'[taken'] \in WithLock
    BY <2>1, <2>2 DEF LockInv, LockTypes, WithLock
  <2> QED
    BY <2>2, <2>5, <2>6 DEF LockInv
<1>4. ASSUME NEW t \in K!LockTasks, K!Refused(t)
      PROVE  LockInv'
  BY <1>4, GoesWithout DEF K!Refused, K!Same, WithLock
<1>5. ASSUME NEW t \in K!LockTasks, K!AbortSignal(t)
      PROVE  LockInv'
  <2>1. UNCHANGED <<handle, doing, class, dead>>
    BY <1>5 DEF K!AbortSignal, K!Same
  <2>2. \/ taken' = K!Free /\ ClosedBySignal'
        \/ UNCHANGED <<taken, causes>>
    BY <1>5 DEF K!AbortSignal, ClosedBySignal
  <2>3. \A u \in K!LockTasks : StepOf(u)'
    BY <2>1 DEF LockInv, StepOf, K!Alive
  <2>4. LockTypes'
    BY <2>1, <2>2 DEF LockInv, LockTypes
  <2> QED
    BY <2>1, <2>2, <2>3, <2>4 DEF LockInv, ClosedBySignal, Forgotten
<1>6. ASSUME NEW t \in K!LockTasks, K!Unlock(t)
      PROVE  LockInv'
  <2> DEFINE had == handle[K!Home(t)]
  <2>1. /\ K!Alive(t) /\ doing[t] = "holding"
        /\ UNCHANGED <<causes, class, dead>>
    BY <1>6 DEF K!Unlock, K!Same
  <2>2. (ClosedBySignal <=> ClosedBySignal') /\ (Forgotten <=> Forgotten')
    BY <2>1 DEF ClosedBySignal, Forgotten
  <2>3. causes = {} => taken = t /\ had = t
    BY <2>1 DEF LockInv, ClosedBySignal, Forgotten, WithLock
  <2>4. t # K!Free
    BY AsyncAssumption DEF K!LockTasks, K!Free
  <2>5. CASE K!Goes(t, "idle") /\ causes # {} /\ UNCHANGED <<taken, handle>>
    BY <2>1, <2>5, GoesWithout
  <2>6. CASE class = "file" /\ K!Goes(t, "closing") /\ taken' = taken
             /\ handle' = [handle EXCEPT ![K!Home(t)] = K!Free]
    <3>1. /\ LockTypes'
          /\ \A u \in K!LockTasks :
               StepOf(u)' /\ doing'[u] = IF u = t THEN "closing" ELSE doing[u]
      <4>1. /\ "closing" \in LockSteps /\ class # "udp"
            /\ taken' \in K!LockTasks \cup {K!Free} /\ DOMAIN handle' = K!LockProcesses
        BY <2>1, <2>6 DEF LockInv, LockTypes, LockSteps
      <4> QED
        BY <2>1, <2>6, <4>1, GoesOn
    <3>2. ASSUME NEW u \in K!LockTasks, ~ClosedBySignal', doing'[u] \in WithLock
          PROVE  taken' = u /\ doing'[u] # "holding"
      <4>1. taken = t
        BY <2>1, <2>2, <3>2 DEF LockInv, WithLock
      <4>2. u # t => doing[u] \notin WithLock
        BY <2>2, <3>2, <4>1 DEF LockInv
      <4> QED
        BY <2>6, <3>1, <3>2, <4>1, <4>2
    <3>3. causes' = {} /\ taken' # K!Free => doing'[taken'] \in WithLock
      BY <2>1, <2>6, <3>1 DEF LockInv, LockTypes, WithLock
    <3> QED
      BY <3>1, <3>2, <3>3 DEF LockInv, WithLock
  <2>7. CASE class = "udp" /\ K!Goes(t, "closed") /\ taken' = K!Free /\ UNCHANGED handle
    <3>1. /\ LockTypes'
          /\ \A u \in K!LockTasks :
               StepOf(u)' /\ doing'[u] = IF u = t THEN "closed" ELSE doing[u]
      <4>1. /\ "closed" \in LockSteps /\ class # "file"
            /\ taken' \in K!LockTasks \cup {K!Free} /\ DOMAIN handle' = K!LockProcesses
        BY <2>1, <2>7 DEF LockInv, LockTypes, LockSteps
      <4> QED
        BY <2>1, <2>7, <4>1, GoesOn
    <3>2. \A u \in K!LockTasks : ~ClosedBySignal' /\ doing'[u] \in WithLock => FALSE
      BY <2>1, <2>2, <3>1 DEF LockInv, WithLock
    <3> QED
      BY <2>7, <3>1, <3>2 DEF LockInv, WithLock
  <2> QED
    BY <1>6, <2>3, <2>4, <2>5, <2>6, <2>7 DEF K!Unlock, K!SetHandle, LockInv, LockTypes
<1>7. ASSUME NEW t \in K!LockTasks, K!Close(t)
      PROVE  LockInv'
  <2>1. /\ K!Alive(t) /\ doing[t] = "closing"
        /\ UNCHANGED <<taken, handle, class, dead>>
    BY <1>7 DEF K!Close, K!Same
  <2>2. CASE K!Goes(t, "unlinking") /\ causes' = causes
    <3>1. /\ LockTypes'
          /\ \A u \in K!LockTasks :
               StepOf(u)' /\ doing'[u] = IF u = t THEN "unlinking" ELSE doing[u]
      <4>1. /\ "unlinking" \in LockSteps /\ class # "udp"
            /\ taken' \in K!LockTasks \cup {K!Free} /\ DOMAIN handle' = K!LockProcesses
        BY <2>1, <2>2 DEF LockInv, LockTypes, LockSteps, StepOf
      <4> QED
        BY <2>1, <2>2, <4>1, GoesOn
    <3>2. (ClosedBySignal <=> ClosedBySignal') /\ (Forgotten <=> Forgotten')
      BY <2>2 DEF ClosedBySignal, Forgotten
    <3>3. \A u \in K!LockTasks : /\ doing'[u] \in WithLock <=> doing[u] \in WithLock
                                 /\ doing'[u] = "holding" <=> doing[u] = "holding"
      BY <2>1, <3>1 DEF WithLock
    <3>4. ASSUME causes' = {}, taken' # K!Free
          PROVE  doing'[taken'] \in WithLock
      <4>1. taken \in K!LockTasks /\ doing[taken] \in WithLock
        BY <2>1, <2>2, <3>4 DEF LockInv, LockTypes
      <4> QED
        BY <2>1, <3>3, <4>1
    <3>5. ASSUME NEW u \in K!LockTasks, ~ClosedBySignal'
          PROVE  /\ doing'[u] \in WithLock => taken' = u
                 /\ ~Forgotten' /\ doing'[u] = "holding" => handle'[K!Home(u)] = u
      BY <2>1, <3>2, <3>3, <3>5 DEF LockInv
    <3> QED
      BY <3>1, <3>4, <3>5 DEF LockInv
  <2>3. CASE K!Goes(t, "idle") /\ causes' = causes \cup {"closeFailed"}
    BY <2>1, <2>3, GoesWithout
  <2> QED
    BY <1>7, <2>2, <2>3 DEF K!Close
<1>8. ASSUME NEW t \in K!LockTasks, K!UnlinkLockFile(t)
      PROVE  LockInv'
  <2>1. /\ K!Alive(t) /\ doing[t] = "unlinking" /\ K!Goes(t, "idle")
        /\ UNCHANGED <<handle, class, dead>>
    BY <1>8 DEF K!UnlinkLockFile, K!Same
  <2>2. CASE taken' = K!Free /\ causes' = causes
    <3>1. /\ LockTypes'
          /\ \A u \in K!LockTasks :
               StepOf(u)' /\ doing'[u] = IF u = t THEN "idle" ELSE doing[u]
      <4>1. /\ "idle" \in LockSteps
            /\ taken' \in K!LockTasks \cup {K!Free} /\ DOMAIN handle' = K!LockProcesses
        BY <2>1, <2>2 DEF LockInv, LockTypes, LockSteps
      <4> QED
        BY <2>1, <2>2, <4>1, GoesOn
    <3>2. (ClosedBySignal <=> ClosedBySignal') /\ (Forgotten <=> Forgotten')
      BY <2>2 DEF ClosedBySignal, Forgotten
    <3> QED
      BY <2>1, <2>2, <3>1, <3>2 DEF LockInv, WithLock
  <2>3. CASE taken' = taken /\ causes' = causes \cup {"closeFailed"}
    BY <2>1, <2>3, GoesWithout
  <2> QED
    BY <1>8, <2>2, <2>3 DEF K!UnlinkLockFile
<1>9. ASSUME NEW t \in K!LockTasks, K!Closed(t)
      PROVE  LockInv'
  <2>1. /\ K!Alive(t) /\ doing[t] = "closed" /\ K!Goes(t, "idle")
        /\ handle' = [handle EXCEPT ![K!Home(t)] = K!Free]
        /\ causes' = IF taken # K!Free /\ handle[K!Home(t)] = taken
                     THEN causes \cup {"socketForgotten"} ELSE causes
        /\ UNCHANGED <<taken, class, dead>>
    BY <1>9 DEF K!Closed, K!Same, K!SetHandle
  <2>2. /\ LockTypes'
        /\ \A u \in K!LockTasks :
             StepOf(u)' /\ doing'[u] = IF u = t THEN "idle" ELSE doing[u]
    <3>1. /\ "idle" \in LockSteps
          /\ taken' \in K!LockTasks \cup {K!Free} /\ DOMAIN handle' = K!LockProcesses
      BY <2>1 DEF LockInv, LockTypes, LockSteps
    <3> QED
      BY <2>1, <3>1, GoesOn
  <2>3. (ClosedBySignal <=> ClosedBySignal') /\ (Forgotten => Forgotten')
    BY <2>1 DEF ClosedBySignal, Forgotten
  <2>4. ASSUME NEW u \in K!LockTasks, ~ClosedBySignal', ~Forgotten', doing'[u] = "holding"
        PROVE  handle'[K!Home(u)] = u
    <3>1. taken = u /\ handle[K!Home(u)] = u
      BY <2>2, <2>3, <2>4 DEF LockInv, WithLock
    <3>2. u # K!Free
      BY AsyncAssumption DEF K!LockTasks, K!Free
    <3>3. K!Home(t) # K!Home(u)
      BY <2>1, <2>4, <3>1, <3>2 DEF Forgotten
    <3>4. K!Home(u) \in DOMAIN handle
      BY DEF LockInv, LockTypes, K!Home, K!LockProcesses
    <3> QED
      BY <2>1, <3>1, <3>3, <3>4
  <2>5. \A u \in K!LockTasks : doing'[u] \in WithLock => doing[u] \in WithLock
    BY <2>2 DEF WithLock
  <2>6. ASSUME causes' = {}, taken' # K!Free
        PROVE  doing'[taken'] \in WithLock
    <3>1. causes = {} /\ taken \in K!LockTasks
      BY <2>1, <2>6 DEF LockInv, LockTypes
    <3>2. doing[taken] \in WithLock /\ taken # t
      BY <2>1, <2>6, <3>1 DEF LockInv, WithLock
    <3> QED
      BY <2>1, <2>2, <3>1, <3>2
  <2>7. ASSUME NEW u \in K!LockTasks, ~ClosedBySignal', doing'[u] \in WithLock
        PROVE  taken' = u
    BY <2>1, <2>3, <2>5, <2>7 DEF LockInv
  <2> QED
    BY <2>2, <2>4, <2>6, <2>7 DEF LockInv
<1>10. ASSUME NEW p \in K!LockProcesses, K!EndProcess(p)
       PROVE  LockInv'
  <2>1. /\ p \notin dead /\ dead' = dead \cup {p} /\ class' = class
        /\ handle' = [handle EXCEPT ![p] = K!Free]
        /\ doing' = [t \in K!LockTasks |-> IF t \in p THEN "idle" ELSE doing[t]]
        /\ \/ /\ taken \in p /\ class = "udp" /\ taken' = K!Free /\ causes' = causes
           \/ /\ taken \in p /\ taken' = taken /\ causes' = causes \cup {"leftByProcess"}
           \/ /\ taken \notin p /\ UNCHANGED <<taken, causes>>
    BY <1>10 DEF K!EndProcess
  <2>2. LockTypes'
    BY <2>1 DEF LockInv, LockTypes, LockSteps
  <2>3. \A u \in K!LockTasks : u \in K!Home(u) /\ K!Home(u) \in K!LockProcesses
    BY DEF K!Home, K!LockTasks, K!LockProcesses
  <2>4. \A u \in K!LockTasks : doing'[u] = IF u \in p THEN "idle" ELSE doing[u]
    BY <2>1
  <2>5. \A u \in K!LockTasks : StepOf(u)'
    BY <2>1, <2>3, <2>4 DEF LockInv, StepOf, K!Alive
  <2>6. (ClosedBySignal <=> ClosedBySignal') /\ (Forgotten <=> Forgotten')
    BY <2>1 DEF ClosedBySignal, Forgotten
  <2>7. ASSUME NEW u \in K!LockTasks, u \notin p
        PROVE  handle'[K!Home(u)] = handle[K!Home(u)]
    BY <2>1, <2>3, <2>7 DEF LockInv, LockTypes
  <2>8. ASSUME NEW u \in K!LockTasks, doing'[u] \in WithLock, ~ClosedBySignal'
        PROVE  taken' = u
    BY <2>1, <2>4, <2>6, <2>8 DEF LockInv, WithLock
  <2>9. ASSUME NEW u \in K!LockTasks, doing'[u] = "holding", ~ClosedBySignal', ~Forgotten'
        PROVE  handle'[K!Home(u)] = u
    BY <2>4, <2>6, <2>7, <2>9 DEF LockInv
  <2>10. causes' = {} /\ taken' # K!Free => doing'[taken'] \in WithLock
    BY <2>1, <2>4 DEF LockInv, LockTypes
  <2> QED
    BY <2>2, <2>5, <2>8, <2>9, <2>10 DEF LockInv
<1> QED
  BY <1>1, <1>2, <1>3, <1>4, <1>5, <1>6, <1>7, <1>8, <1>9, <1>10 DEF K!LocksNext

(***************************************************************************)
(* One task at a time has a lock between processes, a lock that is taken   *)
(* is given back, and the object of the task that has it knows, but for    *)
(* the cases the property names: an abort that closes the socket, a close  *)
(* that overlaps the next open, a process that ends, a system call that    *)
(* fails.  For any tasks and any number of these (file-lock.ts,            *)
(* udp-bind-lock.ts).                                                      *)
(***************************************************************************)
THEOREM LocksAreGivenBack == Spec => []LocksComeBack
<1>1. Init => LockInv
  <2> SUFFICES ASSUME Init PROVE LockInv
    OBVIOUS
  <2>1. /\ class \in {"file", "udp"} /\ taken = K!Free
        /\ handle = [p \in K!LockProcesses |-> K!Free]
        /\ doing = [t \in K!LockTasks |-> "idle"] /\ causes = {}
    BY DEF Init, ServicesInit, K!LocksInit
  <2> QED
    BY <2>1 DEF LockInv, LockTypes, StepOf, WithLock, LockSteps
<1>2. LockInv /\ [Next]_vars => LockInv'
  <2> SUFFICES ASSUME LockInv, UNCHANGED lockVars PROVE LockInv'
    BY LockKeeps, ServiceStep
  <2> QED
    BY DEF lockVars, LockInv, LockTypes, StepOf, K!Alive, ClosedBySignal, Forgotten
<1>3. LockInv => LocksComeBack
  <2> SUFFICES ASSUME LockInv PROVE K!LocksComeBack
    BY DEF LocksComeBack
  <2>1. Cardinality(K!Holding) > 1 => ClosedBySignal
    <3> SUFFICES ASSUME ~ClosedBySignal PROVE ~(Cardinality(K!Holding) > 1)
      OBVIOUS
    <3>1. K!Holding \subseteq {taken}
      BY DEF LockInv, K!Holding, WithLock
    <3>2. IsFiniteSet({taken}) /\ Cardinality({taken}) = 1
      BY FS_Singleton
    <3>3. IsFiniteSet(K!Holding) /\ Cardinality(K!Holding) <= 1
      BY <3>1, <3>2, FS_Subset
    <3> QED
      BY <3>3, FS_CardinalityType
  <2>2. taken # K!Free /\ causes = {} => K!Alive(taken) /\ doing[taken] # "idle"
    BY DEF LockInv, LockTypes, StepOf, WithLock
  <2>3. ASSUME NEW t \in K!Holding, ~ClosedBySignal, ~Forgotten
        PROVE  taken = t /\ handle[K!Home(t)] = t
    BY <2>3 DEF LockInv, K!Holding, WithLock
  <2>4. ClosedBySignal \/ Forgotten => {"closedBySignal", "socketForgotten"} \cap causes # {}
    BY DEF ClosedBySignal, Forgotten
  <2>5. \A t \in K!Holding : \/ taken = t /\ handle[K!Home(t)] = t
                             \/ {"closedBySignal", "socketForgotten"} \cap causes # {}
    BY <2>3, <2>4
  <2>6. /\ Cardinality(K!Holding) > 1 => "closedBySignal" \in causes
        /\ taken # K!Free => \/ K!Alive(taken) /\ doing[taken] # "idle"
                             \/ causes # {}
    BY <2>1, <2>2 DEF ClosedBySignal
  <2>7. K!Cardinality(K!Holding) = Cardinality(K!Holding)
    BY DEF K!Cardinality, Cardinality
  <2> QED
    BY <2>5, <2>6, <2>7 DEF K!LocksComeBack
<1> QED
  BY <1>1, <1>2, <1>3, PTL DEF Spec

-----------------------------------------------------------------------------
(***************************************************************************)
(* Processes: one whose write() has begun and that has not removed its pid *)
(* file yet.                                                               *)
(***************************************************************************)
Written == {"written", "registered", "removing"}

LifeTypes ==
    /\ stage \in [Instances -> {"new", "running", "beforeExit", "exiting", "gone"}]
    /\ DOMAIN pid = Instances
    /\ pidCall \in [Instances -> Written \cup {"none", "removed"}]
    /\ exitHandlers \in [Instances -> SUBSET {P!VeryEarly, P!Normal, P!VeryLate}]
    /\ ran \in [Instances -> Seq(Int)]
    /\ wroteFile \in Instances \cup {P!Nobody}
    /\ pidFile = P!NoFile <=> wroteFile = P!Nobody
    /\ DOMAIN killer = {"step", "pid", "sigkill"}

\* The file is that of the process that wrote it, which will remove it.
FileOf(p) ==
    /\ stage[p] = "new" => pidCall[p] = "none"
    /\ stage[p] # "new" => pid[p] \in Pids
    /\ stage[p] = "running" /\ pidCall[p] \in Written =>
         (pidFile = pid[p] /\ wroteFile = p) \/ upset # {}
    /\ wroteFile = p =>
         /\ pidCall[p] \in Written
         /\ pidCall[p] # "written" => \/ p \in P!Alive /\ P!VeryLate \in exitHandlers[p]
                                     \/ "killed" \in upset

\* A handler is there until it runs, except for a process that was signalled;
Kept(p, h) == h \in exitHandlers[p] \/ P!HasRun(p, h) \/ P!Signalled(p)

\* those that a program registers are, from its start, that of its pid file is, from
\* the end of write() to that of remove(), and none is there that has run.
HandlersOf(p) ==
    /\ stage[p] \in {"new", "running", "beforeExit"} => ran[p] = <<>>
    /\ stage[p] = "gone" => exitHandlers[p] = {}
    /\ \A i \in DOMAIN ran[p] : ran[p][i] \notin exitHandlers[p]
    /\ \A i, j \in DOMAIN ran[p] : i < j => ran[p][i] # ran[p][j]
    /\ stage[p] # "new" => Kept(p, P!VeryEarly) /\ Kept(p, P!Normal)
    /\ pidCall[p] \in {"registered", "removing", "removed"} => Kept(p, P!VeryLate)

LifeInv ==
    /\ LifeTypes
    /\ \A p \in Instances : FileOf(p) /\ HandlersOf(p)

\* extract() has a lowest one among the handlers' three priorities.
LEMMA LowestFacts ==
    ASSUME NEW handlers \in SUBSET {P!VeryEarly, P!Normal, P!VeryLate}, handlers # {}
    PROVE  /\ P!Lowest(handlers) \in handlers
           /\ \A other \in handlers : P!Lowest(handlers) <= other
<1>1. \E h \in handlers : \A other \in handlers : h <= other
  <2>1. CASE P!VeryLate \in handlers
    BY <2>1 DEF P!VeryEarly, P!Normal, P!VeryLate
  <2>2. CASE P!VeryLate \notin handlers /\ P!Normal \in handlers
    BY <2>2 DEF P!VeryEarly, P!Normal, P!VeryLate
  <2>3. CASE P!VeryLate \notin handlers /\ P!Normal \notin handlers
    <3>1. P!VeryEarly \in handlers /\ \A other \in handlers : other = P!VeryEarly
      BY <2>3
    <3> QED
      BY <3>1 DEF P!VeryEarly
  <2> QED
    BY <2>1, <2>2, <2>3
<1> QED
  BY <1>1 DEF P!Lowest

\* What happens to the file of a process that runs is remembered.
LEMMA RemovedFacts ==
    ASSUME NEW why, P!Removed(why)
    PROVE  /\ upset \subseteq upset'
           /\ wroteFile \in Instances /\ stage[wroteFile] = "running" => upset' # {}
BY DEF P!Removed, P!Is

\* Processes are not numbered 0, nor are they given that pid.
LEMMA NobodyFacts == P!Nobody \notin Instances /\ P!NoFile \notin Pids
BY AsyncAssumption DEF P!Nobody, P!NoFile

\* A step that leaves a process alone, except that the file may become another's.
LEMMA LeftAlone ==
    ASSUME NEW q \in Instances, FileOf(q), HandlersOf(q),
           stage'[q] = stage[q], pid'[q] = pid[q], pidCall'[q] = pidCall[q],
           exitHandlers'[q] = exitHandlers[q], ran'[q] = ran[q],
           upset \subseteq upset', UNCHANGED killer \/ (P!Signalled(q) => P!Signalled(q)'),
           \/ UNCHANGED <<pidFile, wroteFile>>
           \/ /\ wroteFile' # q
              /\ wroteFile = q /\ stage[q] = "running" => upset' # {}
    PROVE  FileOf(q)' /\ HandlersOf(q)'
<1>1. HandlersOf(q)'
  <2>1. P!Signalled(q) => P!Signalled(q)'
    BY DEF P!Signalled
  <2>2. \A h : P!HasRun(q, h) => P!HasRun(q, h)'
    BY DEF P!HasRun
  <2>3. \A h : Kept(q, h) => Kept(q, h)'
    BY <2>1, <2>2 DEF Kept
  <2> QED
    BY <2>3 DEF HandlersOf
<1>2. q \in P!Alive <=> q \in P!Alive'
  BY DEF P!Alive, P!Is
<1>3. (upset # {} => upset' # {}) /\ ("killed" \in upset => "killed" \in upset')
  OBVIOUS
<1>4. /\ stage'[q] = "new" => pidCall'[q] = "none"
      /\ stage'[q] # "new" => pid'[q] \in Pids
  BY DEF FileOf
<1>5. ASSUME stage'[q] = "running", pidCall'[q] \in Written
      PROVE  (pidFile' = pid'[q] /\ wroteFile' = q) \/ upset' # {}
  <2>1. (pidFile = pid[q] /\ wroteFile = q) \/ upset # {}
    BY <1>5 DEF FileOf
  <2> QED
    BY <1>3, <1>5, <2>1
<1>6. ASSUME wroteFile' = q
      PROVE  /\ pidCall'[q] \in Written
             /\ pidCall'[q] # "written" =>
                  \/ q \in P!Alive' /\ P!VeryLate \in exitHandlers'[q]
                  \/ "killed" \in upset'
  <2>1. wroteFile = q
    BY <1>6
  <2>2. /\ pidCall[q] \in Written
        /\ pidCall[q] # "written" => \/ q \in P!Alive /\ P!VeryLate \in exitHandlers[q]
                                    \/ "killed" \in upset
    BY <2>1 DEF FileOf
  <2> QED
    BY <1>2, <1>3, <2>2
<1> QED
  BY <1>1, <1>4, <1>5, <1>6 DEF FileOf

\* Processes that start and end: the pid file is as it was.
LEMMA StageStep ==
    ASSUME LifeInv, NEW p \in Instances,
           \/ P!StartProcess(p) \/ P!EndsByItself(p) \/ P!ExitCalled(p)
           \/ P!CleanUp(p) \/ P!Gone(p)
    PROVE  LifeInv'
<1>1. UNCHANGED <<pidCall, pidFile, wroteFile, killer, ran, upset>>
  BY DEF P!StartProcess, P!EndsByItself, P!ExitCalled, P!CleanUp, P!Gone
<1>2. FileOf(p) /\ HandlersOf(p) /\ LifeTypes
  BY DEF LifeInv
<1>3. CASE P!StartProcess(p)
  <2>1. /\ stage[p] = "new" /\ stage' = [stage EXCEPT ![p] = "running"]
        /\ \E n \in Pids : pid' = [pid EXCEPT ![p] = n]
        /\ exitHandlers' = [exitHandlers EXCEPT ![p] = {P!VeryEarly, P!Normal}]
    BY <1>3 DEF P!StartProcess, P!Is, P!SetPhase
  <2>2. LifeTypes'
    BY <1>1, <1>2, <2>1 DEF LifeTypes
  <2>3. ASSUME NEW q \in Instances, q # p
        PROVE  FileOf(q)' /\ HandlersOf(q)'
    BY <1>1, <1>2, <2>1, <2>3, LeftAlone DEF LifeInv, LifeTypes
  <2>4. stage'[p] = "running" /\ pid'[p] \in Pids /\ ran'[p] = <<>>
    BY <1>1, <1>2, <2>1 DEF LifeTypes, HandlersOf
  <2>5. FileOf(p)'
    BY <1>1, <1>2, <2>1, <2>4 DEF FileOf, Written
  <2>6. HandlersOf(p)'
    <3>1. exitHandlers'[p] = {P!VeryEarly, P!Normal} /\ pidCall'[p] = "none"
      BY <1>1, <1>2, <2>1 DEF LifeTypes, FileOf
    <3>2. Kept(p, P!VeryEarly)' /\ Kept(p, P!Normal)'
      BY <3>1 DEF Kept
    <3> QED
      BY <2>4, <3>1, <3>2 DEF HandlersOf
  <2> QED
    BY <2>2, <2>3, <2>5, <2>6 DEF LifeInv
<1>4. CASE P!EndsByItself(p) \/ P!ExitCalled(p)
  <2>1. /\ stage[p] \in {"running", "beforeExit"} /\ UNCHANGED <<pid, exitHandlers>>
        /\ \E s \in {"beforeExit", "exiting"} : stage' = [stage EXCEPT ![p] = s]
    BY <1>4 DEF P!EndsByItself, P!ExitCalled, P!Is, P!SetPhase
  <2>2. LifeTypes'
    BY <1>1, <1>2, <2>1 DEF LifeTypes
  <2>3. ASSUME NEW q \in Instances, q # p
        PROVE  FileOf(q)' /\ HandlersOf(q)'
    BY <1>1, <1>2, <2>1, <2>3, LeftAlone DEF LifeInv, LifeTypes
  <2>4. stage'[p] \in {"beforeExit", "exiting"} /\ p \in P!Alive /\ p \in P!Alive'
    BY <1>2, <2>1 DEF LifeTypes, P!Alive, P!Is
  <2>5. HandlersOf(p)'
    BY <1>1, <1>2, <2>1, <2>4 DEF HandlersOf, Kept, P!HasRun, P!Signalled
  <2>6. FileOf(p)'
    BY <1>1, <1>2, <2>1, <2>4 DEF FileOf
  <2> QED
    BY <2>2, <2>3, <2>5, <2>6 DEF LifeInv
<1>5. CASE P!CleanUp(p)
  <2>1. UNCHANGED <<stage, pid, exitHandlers>>
    BY <1>5 DEF P!CleanUp
  <2> QED
    BY <1>1, <2>1, LeftAlone DEF LifeInv, LifeTypes
<1>6. CASE P!Gone(p)
  <2>1. /\ stage[p] = "exiting" /\ exitHandlers[p] = {} /\ UNCHANGED <<pid, exitHandlers>>
        /\ stage' = [stage EXCEPT ![p] = "gone"]
    BY <1>6 DEF P!Gone, P!Is, P!SetPhase
  <2>2. LifeTypes'
    BY <1>1, <1>2, <2>1 DEF LifeTypes
  <2>3. ASSUME NEW q \in Instances, q # p
        PROVE  FileOf(q)' /\ HandlersOf(q)'
    BY <1>1, <1>2, <2>1, <2>3, LeftAlone DEF LifeInv, LifeTypes
  <2>4. stage'[p] = "gone"
    BY <1>2, <2>1 DEF LifeTypes
  <2>5. HandlersOf(p)'
    BY <1>1, <1>2, <2>1, <2>4 DEF HandlersOf, Kept, P!HasRun, P!Signalled
  <2>6. FileOf(p)'
    BY <1>1, <1>2, <2>1, <2>4 DEF FileOf
  <2> QED
    BY <2>2, <2>3, <2>5, <2>6 DEF LifeInv
<1> QED
  BY <1>3, <1>4, <1>5, <1>6

\* write() and remove().
LEMMA PidCallStep ==
    ASSUME LifeInv, NEW p \in Instances,
           \/ P!WritePid(p) \/ P!WriteSettles(p)
           \/ P!RemovePid(p) \/ P!UnlinkPid(p) \/ P!RemoveSettles(p)
    PROVE  LifeInv'
<1>1. UNCHANGED <<stage, pid, killer, ran>>
  BY DEF P!WritePid, P!WriteSettles, P!RemovePid, P!UnlinkPid, P!RemoveSettles
<1>2. FileOf(p) /\ HandlersOf(p) /\ LifeTypes
  BY DEF LifeInv
<1>3. CASE P!WritePid(p)
  <2>1. /\ stage[p] = "running" /\ pidCall[p] = "none"
        /\ pidCall' = [pidCall EXCEPT ![p] = "written"]
        /\ pidFile' = pid[p] /\ wroteFile' = p
        /\ UNCHANGED exitHandlers
    BY <1>3 DEF P!WritePid, P!Is, P!SetCall, P!FileIs
  <2>2. /\ upset \subseteq upset'
        /\ wroteFile \in Instances /\ stage[wroteFile] = "running" => upset' # {}
    BY <1>3, RemovedFacts DEF P!WritePid
  <2>3. pid[p] # P!NoFile /\ p # P!Nobody
    BY <1>2, <2>1, NobodyFacts DEF FileOf
  <2>4. LifeTypes'
    BY <1>1, <1>2, <2>1, <2>3 DEF LifeTypes, Written
  <2>5. ASSUME NEW q \in Instances, q # p
        PROVE  FileOf(q)' /\ HandlersOf(q)'
    <3>1. pidCall'[q] = pidCall[q]
      BY <1>2, <2>1, <2>5 DEF LifeTypes
    <3> QED
      BY <1>1, <2>1, <2>2, <2>5, <3>1, LeftAlone DEF LifeInv
  <2>6. pidCall'[p] = "written"
    BY <1>2, <2>1 DEF LifeTypes
  <2>7. FileOf(p)' /\ HandlersOf(p)'
    BY <1>1, <1>2, <2>1, <2>6 DEF FileOf, HandlersOf, Written, Kept, P!HasRun, P!Signalled
  <2> QED
    BY <2>4, <2>5, <2>7 DEF LifeInv
<1>4. CASE P!WriteSettles(p)
  <2>1. /\ p \in P!Alive /\ stage[p] \in {"running", "beforeExit"} /\ pidCall[p] = "written"
        /\ pidCall' = [pidCall EXCEPT ![p] = "registered"]
        /\ exitHandlers' = [exitHandlers EXCEPT ![p] = @ \cup {P!VeryLate}]
        /\ UNCHANGED <<pidFile, wroteFile, upset>>
    BY <1>4 DEF P!WriteSettles, P!Is, P!SetCall, P!Alive
  <2>2. LifeTypes'
    BY <1>1, <1>2, <2>1 DEF LifeTypes, Written
  <2>3. ASSUME NEW q \in Instances, q # p
        PROVE  FileOf(q)' /\ HandlersOf(q)'
    <3>1. pidCall'[q] = pidCall[q] /\ exitHandlers'[q] = exitHandlers[q]
      BY <1>2, <2>1, <2>3 DEF LifeTypes
    <3> QED
      BY <1>1, <2>1, <2>3, <3>1, LeftAlone DEF LifeInv
  <2>4. pidCall'[p] = "registered" /\ P!VeryLate \in exitHandlers'[p] /\ p \in P!Alive'
    BY <1>1, <1>2, <2>1 DEF LifeTypes, P!Alive, P!Is
  <2>5. HandlersOf(p)'
    <3>1. /\ ran'[p] = <<>> /\ stage'[p] \in {"running", "beforeExit"}
          /\ exitHandlers'[p] = exitHandlers[p] \cup {P!VeryLate}
          /\ Kept(p, P!VeryEarly) /\ Kept(p, P!Normal)
      BY <1>1, <1>2, <2>1 DEF HandlersOf, LifeTypes
    <3>2. \A h : Kept(p, h) => Kept(p, h)'
      BY <1>1, <3>1 DEF Kept, P!HasRun, P!Signalled
    <3>3. Kept(p, P!VeryLate)'
      BY <3>1 DEF Kept
    <3>4. Kept(p, P!VeryEarly)' /\ Kept(p, P!Normal)'
      BY <3>1, <3>2
    <3> QED
      BY <3>1, <3>3, <3>4 DEF HandlersOf
  <2>6. FileOf(p)'
    BY <1>1, <1>2, <2>1, <2>4 DEF FileOf, Written
  <2> QED
    BY <2>2, <2>3, <2>5, <2>6 DEF LifeInv
<1>5. CASE P!RemovePid(p)
  <2>1. /\ stage[p] = "running" /\ pidCall[p] = "registered"
        /\ pidCall' = [pidCall EXCEPT ![p] = IF pidFile # P!NoFile THEN "removing" ELSE "removed"]
        /\ UNCHANGED <<exitHandlers, pidFile, wroteFile, upset>>
    BY <1>5 DEF P!RemovePid, P!Is, P!SetCall
  <2>2. LifeTypes'
    BY <1>1, <1>2, <2>1 DEF LifeTypes, Written
  <2>3. ASSUME NEW q \in Instances, q # p
        PROVE  FileOf(q)' /\ HandlersOf(q)'
    <3>1. pidCall'[q] = pidCall[q]
      BY <1>2, <2>1, <2>3 DEF LifeTypes
    <3> QED
      BY <1>1, <2>1, <2>3, <3>1, LeftAlone DEF LifeInv
  <2>4. /\ pidCall'[p] = IF pidFile # P!NoFile THEN "removing" ELSE "removed"
        /\ pidFile = P!NoFile => wroteFile # p
        /\ p \in P!Alive <=> p \in P!Alive'
    BY <1>1, <1>2, <2>1, NobodyFacts DEF LifeTypes, P!Alive, P!Is
  <2>5. HandlersOf(p)'
    BY <1>1, <1>2, <2>1 DEF HandlersOf, Kept, P!HasRun, P!Signalled
  <2>6. FileOf(p)'
    BY <1>1, <1>2, <2>1, <2>4 DEF FileOf, Written
  <2> QED
    BY <2>2, <2>3, <2>5, <2>6 DEF LifeInv
<1>6. CASE P!UnlinkPid(p)
  <2>1. /\ stage[p] = "running" /\ pidCall[p] = "removing" /\ UNCHANGED exitHandlers
        /\ \/ /\ pidFile = P!NoFile /\ pidCall' = [pidCall EXCEPT ![p] = "registered"]
              /\ UNCHANGED <<pidFile, wroteFile, upset>>
           \/ /\ pidCall' = [pidCall EXCEPT ![p] = "removed"]
              /\ pidFile' = P!NoFile /\ wroteFile' = P!Nobody
              /\ \/ wroteFile = p /\ upset' = upset
                 \/ wroteFile # p /\ P!Removed("removedByAnother")
    BY <1>6 DEF P!UnlinkPid, P!Is, P!SetCall, P!FileIs
  <2>2. LifeTypes'
    BY <1>1, <1>2, <2>1 DEF LifeTypes, Written
  <2>3. ASSUME NEW q \in Instances, q # p
        PROVE  FileOf(q)' /\ HandlersOf(q)'
    <3>1. pidCall'[q] = pidCall[q]
      BY <1>2, <2>1, <2>3 DEF LifeTypes
    <3>2. q # P!Nobody
      BY NobodyFacts
    <3> QED
      BY <1>1, <2>1, <2>3, <3>1, <3>2, LeftAlone, RemovedFacts DEF LifeInv
  <2>4. HandlersOf(p)'
    BY <1>1, <1>2, <2>1 DEF HandlersOf, Kept, P!HasRun, P!Signalled
  <2>5. CASE pidFile = P!NoFile /\ pidCall'[p] = "registered" /\ UNCHANGED <<pidFile, wroteFile, upset>>
    <3>1. wroteFile # p
      BY <1>2, <2>5, NobodyFacts DEF LifeTypes
    <3> QED
      BY <1>1, <1>2, <2>1, <2>2, <2>3, <2>4, <2>5, <3>1 DEF LifeInv, FileOf, Written
  <2>6. CASE pidCall'[p] = "removed" /\ wroteFile' = P!Nobody
    <3>1. wroteFile' # p
      BY <2>6, NobodyFacts
    <3> QED
      BY <1>1, <1>2, <2>1, <2>2, <2>3, <2>4, <2>6, <3>1 DEF LifeInv, FileOf, Written
  <2> QED
    BY <1>2, <2>1, <2>5, <2>6 DEF LifeTypes
<1>7. CASE P!RemoveSettles(p)
  <2>1. /\ pidCall[p] = "removed" /\ stage[p] \in {"running", "beforeExit"}
        /\ pidCall' = [pidCall EXCEPT ![p] = "none"]
        /\ exitHandlers' = [exitHandlers EXCEPT ![p] = @ \ {P!VeryLate}]
        /\ UNCHANGED <<pidFile, wroteFile, upset>>
    BY <1>7 DEF P!RemoveSettles, P!Is, P!SetCall
  <2>2. LifeTypes'
    BY <1>1, <1>2, <2>1 DEF LifeTypes
  <2>3. ASSUME NEW q \in Instances, q # p
        PROVE  FileOf(q)' /\ HandlersOf(q)'
    <3>1. pidCall'[q] = pidCall[q] /\ exitHandlers'[q] = exitHandlers[q]
      BY <1>2, <2>1, <2>3 DEF LifeTypes
    <3> QED
      BY <1>1, <2>1, <2>3, <3>1, LeftAlone DEF LifeInv
  <2>4. pidCall'[p] = "none" /\ exitHandlers'[p] = exitHandlers[p] \ {P!VeryLate}
    BY <1>2, <2>1 DEF LifeTypes
  <2>5. HandlersOf(p)'
    <3>1. /\ ran'[p] = <<>> /\ stage'[p] \in {"running", "beforeExit"}
          /\ Kept(p, P!VeryEarly) /\ Kept(p, P!Normal)
      BY <1>1, <1>2, <2>1 DEF HandlersOf
    <3>2. \A h : h # P!VeryLate /\ Kept(p, h) => Kept(p, h)'
      BY <1>1, <2>4 DEF Kept, P!HasRun, P!Signalled
    <3>3. P!VeryEarly # P!VeryLate /\ P!Normal # P!VeryLate
      BY DEF P!VeryEarly, P!Normal, P!VeryLate
    <3>4. Kept(p, P!VeryEarly)' /\ Kept(p, P!Normal)'
      BY <3>1, <3>2, <3>3
    <3> QED
      BY <2>4, <3>1, <3>4 DEF HandlersOf
  <2>6. FileOf(p)'
    BY <1>1, <1>2, <2>1, <2>4 DEF FileOf, Written
  <2> QED
    BY <2>2, <2>3, <2>5, <2>6 DEF LifeInv
<1> QED
  BY <1>3, <1>4, <1>5, <1>6, <1>7

\* A handler of "exit" runs: it was there, so that it had not run.
LEMMA AtExitStep ==
    ASSUME LifeInv, NEW p \in Instances, P!AtExit(p)
    PROVE  LifeInv'
<1> DEFINE h == P!Lowest(exitHandlers[p])
<1>1. /\ stage[p] = "exiting" /\ UNCHANGED <<stage, pid, pidCall, killer>>
      /\ exitHandlers' = [exitHandlers EXCEPT ![p] = @ \ {h}]
      /\ ran' = [ran EXCEPT ![p] = Append(@, h)]
      /\ \/ /\ h = P!VeryLate /\ pidFile' = P!NoFile /\ wroteFile' = P!Nobody
            /\ \/ wroteFile = p /\ upset' = upset
               \/ wroteFile # p /\ P!Removed("removedByAnother")
         \/ h # P!VeryLate /\ UNCHANGED <<pidFile, wroteFile, upset>>
  BY DEF P!AtExit, P!Is, P!FileIs
<1>2. FileOf(p) /\ HandlersOf(p) /\ LifeTypes
  BY DEF LifeInv
<1>3. /\ exitHandlers[p] \in SUBSET {P!VeryEarly, P!Normal, P!VeryLate}
      /\ exitHandlers[p] # {} /\ ran[p] \in Seq(Int)
  BY <1>2 DEF P!AtExit, LifeTypes
<1>4. h \in exitHandlers[p] /\ h \in Int /\ \A other \in exitHandlers[p] : h <= other
  BY <1>3, LowestFacts DEF P!VeryEarly, P!Normal, P!VeryLate
<1> HIDE DEF h
<1>5. LifeTypes'
  <2>1. Append(ran[p], h) \in Seq(Int)
    BY <1>3, <1>4
  <2> QED
    BY <1>1, <1>2, <2>1 DEF LifeTypes
<1>6. ASSUME NEW q \in Instances, q # p
      PROVE  FileOf(q)' /\ HandlersOf(q)'
  <2>1. ran'[q] = ran[q] /\ exitHandlers'[q] = exitHandlers[q] /\ q # P!Nobody
    BY <1>1, <1>2, <1>6, NobodyFacts DEF LifeTypes
  <2> QED
    BY <1>1, <1>6, <2>1, LeftAlone, RemovedFacts DEF LifeInv
<1>7. ran'[p] = Append(ran[p], h) /\ exitHandlers'[p] = exitHandlers[p] \ {h}
  BY <1>1, <1>2 DEF LifeTypes
<1>8. HandlersOf(p)'
  <2>1. /\ \A i \in DOMAIN ran[p] : ran[p][i] \notin exitHandlers[p]
        /\ \A i, j \in DOMAIN ran[p] : i < j => ran[p][i] # ran[p][j]
    BY <1>2 DEF HandlersOf
  <2>2. /\ DOMAIN ran'[p] = 1 .. Len(ran[p]) + 1
        /\ \A i \in DOMAIN ran[p] : i \in 1 .. Len(ran[p]) /\ ran'[p][i] = ran[p][i]
        /\ ran'[p][Len(ran[p]) + 1] = h
        /\ DOMAIN ran[p] = 1 .. Len(ran[p]) /\ Len(ran[p]) \in Nat
    BY <1>3, <1>4, <1>7
  <2>3. \A i \in DOMAIN ran'[p] : i \in DOMAIN ran[p] \/ i = Len(ran[p]) + 1
    BY <2>2
  <2>4. \A i \in DOMAIN ran'[p] : ran'[p][i] \notin exitHandlers'[p]
    BY <1>7, <2>1, <2>2, <2>3
  <2>5. \A i, j \in DOMAIN ran'[p] : i < j => ran'[p][i] # ran'[p][j]
    <3> SUFFICES ASSUME NEW i \in DOMAIN ran'[p], NEW j \in DOMAIN ran'[p], i < j
                 PROVE  ran'[p][i] # ran'[p][j]
      OBVIOUS
    <3>1. i \in DOMAIN ran[p]
      BY <2>2, <2>3
    <3> QED
      BY <1>4, <2>1, <2>2, <2>3, <3>1
  <2>6. ASSUME NEW k, Kept(p, k)
        PROVE  Kept(p, k)'
    <3>1. CASE k \in exitHandlers[p]
      BY <1>7, <2>2, <3>1 DEF Kept, P!HasRun
    <3>2. CASE P!HasRun(p, k)
      BY <2>2, <3>2 DEF Kept, P!HasRun
    <3>3. CASE P!Signalled(p)
      BY <1>1, <3>3 DEF Kept, P!Signalled
    <3> QED
      BY <2>6, <3>1, <3>2, <3>3 DEF Kept
  <2> QED
    BY <1>1, <1>2, <2>4, <2>5, <2>6 DEF HandlersOf
<1>9. FileOf(p)'
  <2>1. p \in P!Alive' /\ p # P!Nobody
    BY <1>1, NobodyFacts DEF P!Alive, P!Is
  <2>2. wroteFile' = p => /\ wroteFile = p /\ UNCHANGED upset
                          /\ P!VeryLate \in exitHandlers[p] => P!VeryLate \in exitHandlers'[p]
    BY <1>1, <1>7, <2>1
  <2> QED
    BY <1>1, <1>2, <2>1, <2>2 DEF FileOf
<1> QED
  BY <1>5, <1>6, <1>8, <1>9 DEF LifeInv

\* processKillByPidFile().
LEMMA KillerStep ==
    ASSUME LifeInv, P!KillRead(TRUE) \/ P!KillRead(FALSE) \/ P!KillSend \/ P!KillWaits
    PROVE  LifeInv'
<1>1. UNCHANGED <<pid, pidCall, ran>>
  BY DEF P!KillRead, P!KillSend, P!KillWaits
<1>2. LifeTypes /\ \A q \in Instances : FileOf(q) /\ HandlersOf(q)
  BY DEF LifeInv
<1>0. /\ DOMAIN killer' = {"step", "pid", "sigkill"}
      /\ \A q \in Instances : P!Signalled(q) => P!Signalled(q)'
  BY <1>1, <1>2 DEF P!KillRead, P!KillSend, P!KillWaits, P!Signalled, LifeTypes
<1>3. CASE UNCHANGED <<stage, exitHandlers, pidFile, wroteFile, upset>>
  BY <1>0, <1>1, <1>2, <1>3, LeftAlone DEF LifeInv, LifeTypes
<1>4. CASE /\ pidFile' = P!NoFile /\ wroteFile' = P!Nobody
           /\ P!Removed("removedByKiller") /\ UNCHANGED <<stage, exitHandlers>>
  BY <1>0, <1>1, <1>2, <1>4, LeftAlone, RemovedFacts, NobodyFacts DEF LifeInv, LifeTypes
<1>5. ASSUME NEW p \in P!Alive, P!KilledNow(p), P!Signalled(p)', UNCHANGED <<pidFile, wroteFile>>
      PROVE  LifeInv'
  <2>1. /\ p \in Instances
        /\ stage' = [stage EXCEPT ![p] = "gone"]
        /\ exitHandlers' = [exitHandlers EXCEPT ![p] = {}]
        /\ upset \subseteq upset'
        /\ pidCall[p] # "none" => "killed" \in upset'
    BY <1>5 DEF P!KilledNow, P!SetPhase, P!Alive
  <2>2. LifeTypes'
    BY <1>0, <1>1, <1>2, <1>5, <2>1 DEF LifeTypes
  <2>3. ASSUME NEW q \in Instances, q # p
        PROVE  FileOf(q)' /\ HandlersOf(q)'
    <3>1. stage'[q] = stage[q] /\ exitHandlers'[q] = exitHandlers[q]
      BY <1>2, <2>1, <2>3 DEF LifeTypes
    <3>2. /\ FileOf(q) /\ HandlersOf(q) /\ upset \subseteq upset'
          /\ UNCHANGED <<pid, pidCall, ran, pidFile, wroteFile>>
      BY <1>1, <1>2, <1>5, <2>1
    <3> QED
      BY <1>0, <3>1, <3>2, LeftAlone
  <2>4. stage'[p] = "gone" /\ exitHandlers'[p] = {} /\ stage[p] # "new"
    BY <1>2, <1>5, <2>1 DEF LifeTypes, P!Alive, P!Is
  <2>5. HandlersOf(p)'
    BY <1>1, <1>2, <1>5, <2>1, <2>4 DEF HandlersOf, Kept
  <2>6. FileOf(p)'
    <3>1. /\ FileOf(p)
          /\ pidCall[p] \in Written => "killed" \in upset'
          /\ UNCHANGED <<pid, pidCall, pidFile, wroteFile>>
      BY <1>1, <1>2, <1>5, <2>1 DEF Written
    <3> QED
      BY <2>4, <3>1 DEF FileOf, Written
  <2> QED
    BY <2>2, <2>3, <2>5, <2>6 DEF LifeInv
<1>6. ASSUME NEW p \in P!Alive, stage[p] = "running",
             stage' = [stage EXCEPT ![p] = "exiting"],
             UNCHANGED <<exitHandlers, pidFile, wroteFile, upset>>
      PROVE  LifeInv'
  <2>1. p \in Instances
    BY DEF P!Alive
  <2>2. LifeTypes'
    BY <1>0, <1>1, <1>2, <1>6, <2>1 DEF LifeTypes
  <2>3. ASSUME NEW q \in Instances, q # p
        PROVE  FileOf(q)' /\ HandlersOf(q)'
    <3>1. stage'[q] = stage[q]
      BY <1>2, <1>6, <2>1, <2>3 DEF LifeTypes
    <3> QED
      BY <1>0, <1>1, <1>2, <1>6, <3>1, LeftAlone
  <2>4. stage'[p] = "exiting" /\ p \in P!Alive'
    BY <1>2, <1>6, <2>1 DEF LifeTypes, P!Alive, P!Is
  <2>5. HandlersOf(p)'
    <3>1. P!Signalled(p) => P!Signalled(p)'
      BY <1>0, <2>1
    <3>2. \A h : Kept(p, h) => Kept(p, h)'
      BY <1>1, <1>6, <3>1 DEF Kept, P!HasRun
    <3> QED
      BY <1>1, <1>2, <1>6, <2>1, <2>4, <3>2 DEF HandlersOf
  <2>6. FileOf(p)'
    BY <1>1, <1>2, <1>6, <2>1, <2>4 DEF FileOf
  <2> QED
    BY <2>2, <2>3, <2>5, <2>6 DEF LifeInv
<1>7. CASE P!KillRead(TRUE) \/ P!KillRead(FALSE)
  BY <1>3, <1>7 DEF P!KillRead
<1>8. CASE P!KillSend
  <2>1. ASSUME NEW p \in P!Alive, pid[p] = killer.pid, killer' = [killer EXCEPT !.step = "wait"]
        PROVE  P!Signalled(p)'
    BY <1>1, <1>2, <2>1 DEF P!Signalled, LifeTypes
  <2> QED
    BY <1>3, <1>5, <1>6, <1>8, <2>1 DEF P!KillSend, P!Is, P!SetPhase
<1>9. CASE P!KillWaits
  BY <1>3, <1>4, <1>9 DEF P!KillWaits, P!FileIs
<1> QED
  BY <1>7, <1>8, <1>9

(***************************************************************************)
(* The pid file of a process whose write() is over holds its pid until it  *)
(* is removed, unless another process or the killer wrote or removed it;   *)
(* the process that wrote it is alive, unless it was killed or its exit    *)
(* came before its handler; and a process runs no exit handler twice, and  *)
(* all those that were registered before it is gone, unless it was         *)
(* signalled.  For any processes and any pids (process-pid-file.ts,        *)
(* exit-manager.ts, process-kill-by-pid-file.ts).                          *)
(***************************************************************************)
THEOREM PidFileTellsWho == Spec => []PidFileTells
<1>1. Init => LifeInv
  <2> SUFFICES ASSUME Init PROVE LifeInv
    OBVIOUS
  <2>1. P!LifeInit
    BY DEF Init, ServicesInit
  <2>2. LifeTypes
    BY <2>1 DEF P!LifeInit, LifeTypes, P!NoFile, P!Nobody
  <2>3. \A p \in Instances : FileOf(p) /\ HandlersOf(p)
    BY <2>1, NobodyFacts DEF P!LifeInit, FileOf, HandlersOf, Written
  <2> QED
    BY <2>2, <2>3 DEF LifeInv
<1>2. LifeInv /\ [Next]_vars => LifeInv'
  <2>1. ASSUME LifeInv, UNCHANGED lifeVars
        PROVE  LifeInv'
    BY <2>1, LeftAlone DEF lifeVars, LifeInv, LifeTypes
  <2>2. ASSUME LifeInv, P!LifeNext
        PROVE  LifeInv'
    BY <2>2, StageStep, PidCallStep, AtExitStep, KillerStep DEF P!LifeNext
  <2> QED
    BY <2>1, <2>2, ServiceStep
<1>3. LifeInv => PidFileTells
  <2> SUFFICES ASSUME LifeInv PROVE P!PidFileTells
    BY DEF PidFileTells
  <2>1. ASSUME NEW p \in Instances, stage[p] = "running", pidCall[p] = "registered"
        PROVE  (pidFile = pid[p] /\ wroteFile = p) \/ upset # {}
    BY <2>1 DEF LifeInv, FileOf, Written
  <2>2. pidFile # P!NoFile => \/ wroteFile \in P!Alive
                              \/ "killed" \in upset
                              \/ pidCall[wroteFile] = "written"
    BY DEF LifeInv, LifeTypes, FileOf
  <2>3. ASSUME NEW p \in Instances
        PROVE  /\ \A i, j \in DOMAIN ran[p] : i < j => ran[p][i] # ran[p][j]
               /\ stage[p] = "gone" /\ ~P!Signalled(p) =>
                    /\ P!HasRun(p, P!VeryEarly) /\ P!HasRun(p, P!Normal)
                    /\ pidCall[p] = "registered" => P!HasRun(p, P!VeryLate)
    BY DEF LifeInv, HandlersOf, Kept
  <2> QED
    BY <2>1, <2>2, <2>3 DEF P!PidFileTells, P!Is
<1> QED
  BY <1>1, <1>2, <1>3, PTL DEF Spec

-----------------------------------------------------------------------------
(***************************************************************************)
(* Log files.  Of two files of a log, the one with the lower number is     *)
(* newer; a compressed file that has the number of another is a copy of it, *)
(* or not written yet.                                                     *)
(***************************************************************************)
FileNames == [log : Logs, number : Int, compressed : BOOLEAN]
ZeroFile(l) == F!Numbered(l, 0, FALSE)
SourceFile(l) == F!Numbered(l, 1, FALSE)
TargetFile(l) == F!Numbered(l, 1, TRUE)

Copies(g, p) == files[g] = F!NoFile \/ files[g] = files[p]
Newer(a, b) ==
    files[a] = F!NoFile \/
    (files[a] >= files[b] /\ (~a.compressed /\ ~b.compressed => files[a] # files[b]))

LogTypes ==
    /\ contents \in Seq(Nat)
    /\ DOMAIN files \subseteq FileNames
    /\ \A a \in DOMAIN files :
        /\ a.number >= F!Now /\ (a.compressed => a.number >= 1)
        /\ files[a] \in 0 .. Len(contents)
        /\ ~a.compressed => files[a] # F!NoFile
    /\ fileStream \in [Logs -> Nat] /\ textStreamPrinter \in [Logs -> Nat]
    /\ writer \in [Logs -> Nat]
    /\ DOMAIN task = Logs /\ DOMAIN rotation = Logs /\ DOMAIN oldFiles = Logs

NewestFirst ==
    \A a, b \in DOMAIN files : a.log = b.log =>
        /\ a.number < b.number /\ files[b] # F!NoFile => Newer(a, b)
        /\ a.number = b.number /\ a.compressed /\ ~b.compressed => Copies(a, b)

FilesNamed ==
    \A f \in DOMAIN contents : f \in expired \/ \E name \in DOMAIN files : files[name] = f

\* What a FilePrinter may write to is the newest file of its log, under a name that
\* compressFile() will not take soon.
OpenFiles(l) ==
    ({fileStream[l], textStreamPrinter[l]} \cup (IF task[l] = "writing" THEN {writer[l]} ELSE {}))
        \ {F!NoFile}

OpenInv(l) ==
    /\ task[l] = "writing" => writer[l] # F!NoFile
    /\ task[l] = "opening" => OpenFiles(l) = {}
    /\ \A f \in OpenFiles(l) :
        /\ \A name \in DOMAIN files : name.log = l => f >= files[name]
        /\ \/ f \in expired
           \/ \E name \in DOMAIN files : name.log = l /\ ~name.compressed /\ files[name] = f

\* The old files that a rotation has not renamed yet have lower numbers than those
\* that it has.
Behind(n, m) ==
    \/ m.compressed /\ files[m] = F!NoFile
    \/ /\ m.number > n.number
       /\ m.number = n.number + 1 =>
            m.compressed # n.compressed /\ (IF m.compressed THEN Copies(m, n) ELSE Copies(n, m))

RenamingInv(l) ==
    rotation[l] = "renaming" =>
        /\ oldFiles[l] \subseteq DOMAIN files
        /\ \A n \in oldFiles[l] : n.number >= 0
        /\ ZeroFile(l) \in DOMAIN files => ZeroFile(l) \in oldFiles[l]
        /\ \A n \in oldFiles[l] : \A m \in DOMAIN files \ oldFiles[l] :
            m.log = n.log /\ m.number # F!Now => Behind(n, m)

\* The file that is compressed is not the newest one.
CompressInv(l) ==
    /\ rotation[l] = "locking" => F!Current(l) \in DOMAIN files
    /\ rotation[l] \in {"compress", "compressing", "unlinking"} => ZeroFile(l) \in DOMAIN files
    /\ rotation[l] = "compressing" =>
        SourceFile(l) \in DOMAIN files /\ TargetFile(l) \in DOMAIN files /\ oldFiles[l] = {files[SourceFile(l)]}
    /\ rotation[l] = "unlinking" /\ SourceFile(l) \in DOMAIN files =>
        TargetFile(l) \in DOMAIN files /\ files[TargetFile(l)] = files[SourceFile(l)]

LogParts ==
    LogTypes /\ NewestFirst /\ FilesNamed
        /\ \A l \in Logs : OpenInv(l) /\ RenamingInv(l) /\ CompressInv(l)

LogInv == ~overlapped => LogParts

Rotating == {"locking", "renaming", "compress", "compressing", "unlinking"}

\* A step that leaves the files, and opens none.
LEMMA FilesAlone ==
    ASSUME LogParts, files' = files, contents' \in Seq(Nat), Len(contents') = Len(contents),
           expired' = expired,
           fileStream' \in [Logs -> Nat], textStreamPrinter' \in [Logs -> Nat],
           writer' \in [Logs -> Nat],
           DOMAIN task' = Logs, DOMAIN rotation' = Logs, DOMAIN oldFiles' = Logs,
           \A l \in Logs :
            /\ OpenFiles(l)' \subseteq OpenFiles(l)
            /\ task'[l] = "writing" => writer'[l] # F!NoFile
            /\ task'[l] = "opening" => OpenFiles(l)' = {}
            /\ \/ rotation'[l] = rotation[l] /\ oldFiles'[l] = oldFiles[l]
               \/ rotation'[l] \notin Rotating
               \/ rotation'[l] = "locking" /\ F!Current(l) \in DOMAIN files
    PROVE  LogParts'
<1> USE DEF LogParts
<1>1. LogTypes'
  BY DEF LogTypes
<1>2. NewestFirst'
  BY DEF NewestFirst, Newer, Copies
<1>3. FilesNamed'
  <2>1. DOMAIN contents' = DOMAIN contents
    BY DEF LogTypes
  <2> QED
    BY <2>1 DEF FilesNamed
<1>4. ASSUME NEW l \in Logs PROVE OpenInv(l)' /\ RenamingInv(l)' /\ CompressInv(l)'
  <2>1. OpenInv(l)'
    <3>1. OpenInv(l)
      OBVIOUS
    <3> QED
      BY <3>1, Zenon DEF OpenInv
  <2>2. RenamingInv(l)'
    <3>1. \A n, m : Behind(n, m)' <=> Behind(n, m)
      BY Zenon DEF Behind, Copies
    <3>2. CASE rotation'[l] = rotation[l] /\ oldFiles'[l] = oldFiles[l]
      BY <3>1, <3>2, Zenon DEF RenamingInv
    <3>3. CASE rotation'[l] # "renaming"
      BY <3>3 DEF RenamingInv
    <3> QED
      BY <3>2, <3>3 DEF Rotating
  <2>3. CompressInv(l)'
    BY DEF CompressInv, Rotating
  <2> QED
    BY <2>1, <2>2, <2>3
<1> QED
  BY <1>1, <1>2, <1>3, <1>4

\* print(), close() and the "close" event.
LEMMA PrintKeeps ==
    ASSUME LogParts, NEW l \in Logs,
           F!PrintRecord(l) \/ F!Write(l) \/ F!WriteFails(l) \/ F!Close(l) \/ F!CloseEvent(l)
    PROVE  LogParts'
<1> USE DEF LogParts, LogTypes, F!NoFile
<1>0. /\ files' = files /\ expired' = expired /\ oldFiles' = oldFiles
      /\ DOMAIN task' = Logs /\ DOMAIN rotation' = Logs
      /\ \A k \in Logs : rotation'[k] = rotation[k] \/ rotation'[k] = "stat"
  BY DEF F!PrintRecord, F!Write, F!WriteFails, F!Close, F!CloseEvent, F!fileVars, F!streamVars,
        F!historyVars, F!SetTask, F!SetRotation, F!CallRotation
<1>1. /\ contents' \in Seq(Nat) /\ Len(contents') = Len(contents)
  <2>1. CASE F!Write(l)
    <3>1. contents' = [contents EXCEPT ![writer[l]] = @ + 1]
      BY <2>1 DEF F!Write
    <3>2. CASE writer[l] \in DOMAIN contents
      BY <3>1, <3>2
    <3>3. CASE writer[l] \notin DOMAIN contents
      <4>1. contents' = contents
        <5>1. contents' = [i \in DOMAIN contents |-> contents[i]]
          BY <3>1, <3>3
        <5>2. contents = [i \in DOMAIN contents |-> contents[i]]
          OBVIOUS
        <5> QED
          BY <5>1, <5>2
      <4> QED
        BY <4>1
    <3> QED
      BY <3>2, <3>3
  <2>2. CASE ~F!Write(l)
    BY <2>2 DEF F!PrintRecord, F!WriteFails, F!Close, F!CloseEvent, F!fileVars
  <2> QED
    BY <2>1, <2>2
<1>2. /\ fileStream' \in [Logs -> Nat] /\ textStreamPrinter' \in [Logs -> Nat]
      /\ writer' \in [Logs -> Nat]
      /\ \A k \in Logs :
            /\ OpenFiles(k)' \subseteq OpenFiles(k)
            /\ task'[k] = "writing" => writer'[k] # F!NoFile
            /\ task'[k] = "opening" => OpenFiles(k)' = {}
  <2> USE DEF OpenFiles, OpenInv
  <2>1. CASE F!PrintRecord(l)
    <3>1. CASE textStreamPrinter[l] = F!NoFile /\ fileStream[l] = F!NoFile
      <4>1. /\ task' = [task EXCEPT ![l] = "opening"]
            /\ UNCHANGED <<fileStream, textStreamPrinter, writer>>
        BY <2>1, <3>1, Zenon DEF F!PrintRecord, F!SetTask
      <4>2. \A k \in Logs : task'[k] = IF k = l THEN "opening" ELSE task[k]
        BY <4>1
      <4>3. OpenFiles(l)' = {}
        BY <3>1, <4>1, <4>2
      <4>4. ASSUME NEW k \in Logs, k # l
            PROVE  /\ OpenFiles(k)' = OpenFiles(k)
                   /\ task'[k] = "writing" => writer'[k] # F!NoFile
                   /\ task'[k] = "opening" => OpenFiles(k) = {}
        <5>1. OpenInv(k)
          OBVIOUS
        <5> QED
          BY <4>1, <4>2, <4>4, <5>1, Zenon
      <4> QED
        BY <4>1, <4>2, <4>3, <4>4
    <3>2. CASE ~(textStreamPrinter[l] = F!NoFile /\ fileStream[l] = F!NoFile)
      <4> DEFINE f == IF textStreamPrinter[l] # F!NoFile THEN textStreamPrinter[l] ELSE fileStream[l]
      <4>1. /\ task' = [task EXCEPT ![l] = "writing"]
            /\ textStreamPrinter' = [textStreamPrinter EXCEPT ![l] = f]
            /\ writer' = [writer EXCEPT ![l] = f]
            /\ fileStream' = fileStream
        BY <2>1, <3>2, Zenon DEF F!PrintRecord, F!SetTask
      <4>2. f \in Nat /\ f # 0 /\ f \in {fileStream[l], textStreamPrinter[l]}
        BY <3>2
      <4> HIDE DEF f
      <4>3. ASSUME NEW k \in Logs, k # l
            PROVE  /\ task'[k] = task[k] /\ writer'[k] = writer[k]
                   /\ textStreamPrinter'[k] = textStreamPrinter[k]
        BY <4>1, <4>3
      <4>4. /\ task'[l] = "writing" /\ writer'[l] = f /\ textStreamPrinter'[l] = f
        BY <4>1
      <4> QED
        BY <4>1, <4>2, <4>3, <4>4
    <3> QED
      BY <3>1, <3>2
  <2>2. CASE F!Write(l)
    BY <2>2 DEF F!Write, F!SetTask, F!streamVars
  <2>3. CASE F!WriteFails(l)
    BY <2>3 DEF F!WriteFails, F!SetTask
  <2>4. CASE F!Close(l)
    BY <2>4 DEF F!Close
  <2>5. CASE F!CloseEvent(l)
    BY <2>5 DEF F!CloseEvent
  <2> QED
    BY <2>1, <2>2, <2>3, <2>4, <2>5
<1> QED
  <2>1. \A k \in Logs : \/ rotation'[k] = rotation[k] /\ oldFiles'[k] = oldFiles[k]
                        \/ rotation'[k] \notin Rotating
    BY <1>0 DEF Rotating
  <2>2. DOMAIN oldFiles' = Logs
    BY <1>0
  <2> HIDE DEF LogParts, LogTypes, F!NoFile
  <2> QED
    BY <1>0, <1>1, <1>2, <2>1, <2>2, FilesAlone

\* The steps of a rotation that change no file.
LEMMA LookKeeps ==
    ASSUME LogParts, NEW l \in Logs,
           F!StatFile(l) \/ F!FileIsMissing(l) \/ F!ReadFails(l)
    PROVE  LogParts'
<1> USE DEF LogParts
<1>1. /\ files' = files /\ expired' = expired /\ contents' = contents
      /\ fileStream' = fileStream /\ textStreamPrinter' = textStreamPrinter /\ writer' = writer
      /\ DOMAIN task' = Logs /\ DOMAIN rotation' = Logs /\ DOMAIN oldFiles' = Logs
      /\ \A k \in Logs :
            /\ task'[k] = task[k] \/ task'[k] = "none"
            /\ \/ rotation'[k] = rotation[k] /\ oldFiles'[k] = oldFiles[k]
               \/ rotation'[k] \notin Rotating
               \/ rotation'[k] = "locking" /\ F!Current(k) \in DOMAIN files
  BY DEF LogTypes, F!StatFile, F!FileIsMissing, F!ReadFails, F!fileVars, F!streamVars, F!historyVars,
        F!SetTask, F!SetRotation, F!EndRotation, F!Exists, Rotating
<1>2. \A k \in Logs :
            /\ OpenFiles(k)' \subseteq OpenFiles(k)
            /\ task'[k] = "writing" => writer'[k] # F!NoFile
            /\ task'[k] = "opening" => OpenFiles(k)' = {}
  BY <1>1 DEF OpenFiles, OpenInv
<1>3. /\ contents' \in Seq(Nat) /\ Len(contents') = Len(contents)
      /\ fileStream' \in [Logs -> Nat] /\ textStreamPrinter' \in [Logs -> Nat]
      /\ writer' \in [Logs -> Nat]
  BY <1>1 DEF LogTypes
<1> HIDE DEF LogParts
<1> QED
  BY <1>1, <1>2, <1>3, FilesAlone

LEMMA LogCrashKeeps == LogParts /\ F!Crash => LogParts'
<1> SUFFICES ASSUME LogParts, F!Crash PROVE LogParts'
  OBVIOUS
<1>1. /\ files' = files /\ expired' = expired /\ contents' = contents
      /\ fileStream' = [l \in Logs |-> 0] /\ textStreamPrinter' = [l \in Logs |-> 0]
      /\ writer' = [l \in Logs |-> 0]
      /\ task' = [l \in Logs |-> "none"] /\ rotation' = [l \in Logs |-> "idle"]
      /\ DOMAIN oldFiles' = Logs
  BY DEF F!Crash, F!fileVars, F!historyVars, F!NoFile
<1>2. \A l \in Logs : /\ OpenFiles(l)' = {} /\ task'[l] = "none"
                      /\ rotation'[l] \notin Rotating
  BY <1>1 DEF OpenFiles, Rotating, F!NoFile
<1>3. /\ contents' \in Seq(Nat) /\ Len(contents') = Len(contents)
      /\ fileStream' \in [Logs -> Nat] /\ textStreamPrinter' \in [Logs -> Nat]
      /\ writer' \in [Logs -> Nat]
      /\ DOMAIN task' = Logs /\ DOMAIN rotation' = Logs
  BY <1>1 DEF LogParts, LogTypes
<1> QED
  BY <1>1, <1>2, <1>3, FilesAlone

-----------------------------------------------------------------------------
\* Another rotation is not under way, if none was seen.
LEMMA OneRotation ==
    ASSUME LogParts, NEW l \in Logs, F!Meets(l), ~overlapped', DOMAIN rotation' = Logs,
           \A k \in Logs \ {l} :
                /\ rotation'[k] = rotation[k]
                /\ F!Current(k) \in DOMAIN files => F!Current(k) \in DOMAIN files'
    PROVE  /\ ~overlapped
           /\ \A k \in Logs \ {l} : RenamingInv(k)' /\ CompressInv(k)'
<1>1. /\ ~overlapped
      /\ \A k \in Logs \ {l} :
            rotation[k] \notin {"renaming", "compress", "compressing", "unlinking"}
  BY Zenon DEF F!Meets
<1>2. ASSUME NEW k \in Logs \ {l} PROVE RenamingInv(k)' /\ CompressInv(k)'
  <2>1. /\ rotation'[k] = rotation[k]
        /\ rotation[k] \notin {"renaming", "compress", "compressing", "unlinking"}
        /\ F!Current(k) \in DOMAIN files => F!Current(k) \in DOMAIN files'
    <3>1. k \in Logs \ {l}
      OBVIOUS
    <3>2. rotation[k] \notin {"renaming", "compress", "compressing", "unlinking"}
      BY <1>1, <3>1, Zenon
    <3> QED
      BY <3>1, <3>2, Zenon
  <2>2. RenamingInv(k)'
    BY <2>1 DEF RenamingInv
  <2>3. CompressInv(k)'
    <3>1. rotation[k] = "locking" => F!Current(k) \in DOMAIN files
      BY DEF LogParts, CompressInv
    <3> QED
      BY <2>1, <3>1 DEF CompressInv
  <2> QED
    BY <2>2, <2>3
<1> QED
  BY <1>1, <1>2

\* What a FilePrinter has open, when names change only.
LEMMA OpenStays ==
    ASSUME LogParts, NEW k \in Logs,
           UNCHANGED <<fileStream, textStreamPrinter, writer>>,
           task'[k] = task[k] \/ task'[k] = "none",
           \A name \in DOMAIN files' : name.log = k =>
                \/ files'[name] = F!NoFile
                \/ \E old \in DOMAIN files : old.log = k /\ files'[name] = files[old],
           \A old \in DOMAIN files :
                old.log = k /\ ~old.compressed /\ files[old] \in OpenFiles(k) =>
                    \/ files[old] \in expired'
                    \/ \E name \in DOMAIN files' :
                            name.log = k /\ ~name.compressed /\ files'[name] = files[old],
           expired \subseteq expired'
    PROVE  OpenInv(k)'
<1>1. OpenInv(k)
  BY DEF LogParts
<1>2. OpenFiles(k)' \subseteq OpenFiles(k) /\ OpenFiles(k) \subseteq Nat
  BY DEF OpenFiles, LogParts, LogTypes
<1>3. task'[k] = "writing" => writer'[k] # F!NoFile
  BY <1>1 DEF OpenInv
<1>4. task'[k] = "opening" => OpenFiles(k)' = {}
  BY <1>1, <1>2 DEF OpenInv
<1>5. ASSUME NEW f \in OpenFiles(k)'
      PROVE  /\ \A name \in DOMAIN files' : name.log = k => f >= files'[name]
             /\ \/ f \in expired'
                \/ \E name \in DOMAIN files' : name.log = k /\ ~name.compressed /\ files'[name] = f
  <2>1. f \in OpenFiles(k) /\ f \in Nat
    BY <1>2
  <2>2. ASSUME NEW name \in DOMAIN files', name.log = k PROVE f >= files'[name]
    <3>1. CASE files'[name] = F!NoFile
      BY <2>1, <3>1 DEF F!NoFile
    <3>2. CASE \E old \in DOMAIN files : old.log = k /\ files'[name] = files[old]
      BY <1>1, <2>1, <3>2 DEF OpenInv
    <3> QED
      BY <2>2, <3>1, <3>2
  <2>3. \/ f \in expired'
        \/ \E name \in DOMAIN files' : name.log = k /\ ~name.compressed /\ files'[name] = f
    <3>1. CASE f \in expired
      BY <3>1
    <3>2. CASE \E name \in DOMAIN files : name.log = k /\ ~name.compressed /\ files[name] = f
      <4>1. PICK old \in DOMAIN files : old.log = k /\ ~old.compressed /\ files[old] = f
        BY <3>2
      <4>2. \/ files[old] \in expired'
            \/ \E name \in DOMAIN files' :
                    name.log = k /\ ~name.compressed /\ files'[name] = files[old]
        BY <2>1, <4>1
      <4> QED
        BY <4>1, <4>2
    <3> QED
      BY <1>1, <2>1, <3>1, <3>2 DEF OpenInv
  <2> QED
    BY <2>2, <2>3
<1> QED
  BY <1>3, <1>4, <1>5 DEF OpenInv

\* rename() of a file to the next number, which no file has that was written.
LEMMA RenameKeeps ==
    ASSUME LogParts, NEW from \in DOMAIN files, NEW to \in FileNames,
           to.log = from.log, to.compressed = from.compressed, to.number = from.number + 1,
           to \in DOMAIN files => files[to] = F!NoFile,
           \A m \in DOMAIN files :
                m.log = from.log /\ m.number = to.number /\ m.compressed # to.compressed =>
                    IF m.compressed THEN Copies(m, from) ELSE Copies(from, m),
           F!Rename(from, to), contents' = contents, expired' = expired,
           UNCHANGED <<fileStream, textStreamPrinter, writer>>,
           \A k \in Logs : task'[k] = task[k] \/ task'[k] = "none",
           DOMAIN task' = Logs, DOMAIN rotation' = Logs, DOMAIN oldFiles' = Logs
    PROVE  LogTypes' /\ NewestFirst' /\ FilesNamed' /\ \A k \in Logs : OpenInv(k)'
<1> USE DEF LogParts
<1>1. /\ DOMAIN files' = (DOMAIN files \ {from}) \cup {to}
      /\ files'[to] = files[from]
      /\ \A name \in DOMAIN files' : name # to => files'[name] = files[name] /\ name \in DOMAIN files
      /\ from # to
  <2>1. from # to
    BY DEF LogTypes, FileNames
  <2> QED
    BY <2>1, Zenon DEF F!Rename
<1>2. LogTypes'
  <2>1. DOMAIN files' \subseteq FileNames
    BY <1>1 DEF LogTypes
  <2>2. ASSUME NEW a \in DOMAIN files'
        PROVE  /\ a.number >= F!Now /\ (a.compressed => a.number >= 1)
               /\ files'[a] \in 0 .. Len(contents')
               /\ ~a.compressed => files'[a] # F!NoFile
    <3>1. CASE a = to
      BY <1>1, <3>1 DEF LogTypes, FileNames, F!Now
    <3>2. CASE a # to
      BY <1>1, <2>2, <3>2 DEF LogTypes
    <3> QED
      BY <3>1, <3>2
  <2> QED
    BY <2>1, <2>2 DEF LogTypes
<1>3. NewestFirst'
  <2> SUFFICES ASSUME NEW a \in DOMAIN files', NEW b \in DOMAIN files', a.log = b.log
               PROVE  /\ a.number < b.number /\ files'[b] # F!NoFile => Newer(a, b)'
                      /\ a.number = b.number /\ a.compressed /\ ~b.compressed => Copies(a, b)'
    BY DEF NewestFirst
  <2>0. a \in FileNames /\ b \in FileNames /\ from \in FileNames
    BY <1>2 DEF LogTypes
  <2>1. CASE a # to /\ b # to
    BY <1>1, <2>1 DEF NewestFirst, Newer, Copies
  <2>2. CASE a = to /\ b # to
    <3>1. b \in DOMAIN files /\ files'[b] = files[b] /\ files'[a] = files[from] /\ b # from
      BY <1>1, <2>2
    <3>2. ASSUME a.number < b.number, files'[b] # F!NoFile PROVE Newer(a, b)'
      <4>1. Newer(from, b)
        BY <2>0, <2>2, <3>1, <3>2 DEF NewestFirst, FileNames
      <4> QED
        BY <2>2, <3>1, <4>1 DEF Newer
    <3>3. ASSUME a.number = b.number, a.compressed, ~b.compressed PROVE Copies(a, b)'
      BY <2>2, <3>1, <3>3 DEF Copies
    <3> QED
      BY <3>2, <3>3
  <2>3. CASE a # to /\ b = to
    <3>1. a \in DOMAIN files /\ files'[a] = files[a] /\ files'[b] = files[from] /\ a # from
      BY <1>1, <2>3
    <3>2. ASSUME a.number < b.number, files'[b] # F!NoFile PROVE Newer(a, b)'
      <4>1. CASE a.number < from.number
        <5>1. Newer(a, from)
          BY <2>3, <3>1, <3>2, <4>1 DEF NewestFirst
        <5> QED
          BY <2>3, <3>1, <5>1 DEF Newer
      <4>2. CASE a.number = from.number
        <5>1. a.compressed # from.compressed
          BY <2>0, <2>3, <3>1, <4>2 DEF FileNames
        <5>2. files[a] \in Nat /\ files[from] \in Nat
          BY <3>1 DEF LogTypes
        <5>3. CASE a.compressed
          <6>1. Copies(a, from)
            BY <2>0, <2>3, <3>1, <4>2, <5>1, <5>3 DEF NewestFirst, FileNames
          <6> QED
            BY <2>3, <3>1, <5>1, <5>2, <5>3, <6>1 DEF Newer, Copies
        <5>4. CASE ~a.compressed
          <6>1. Copies(from, a)
            BY <2>0, <2>3, <3>1, <4>2, <5>1, <5>4 DEF NewestFirst, FileNames
          <6> QED
            BY <2>0, <2>3, <3>1, <3>2, <5>1, <5>2, <5>4, <6>1 DEF Newer, Copies, FileNames
        <5> QED
          BY <5>3, <5>4
      <4> QED
        BY <2>0, <2>3, <3>2, <4>1, <4>2 DEF FileNames
    <3>3. ASSUME a.number = b.number, a.compressed, ~b.compressed PROVE Copies(a, b)'
      <4>1. Copies(a, from)
        BY <2>3, <3>1, <3>3
      <4> QED
        BY <2>3, <3>1, <4>1 DEF Copies
    <3> QED
      BY <3>2, <3>3
  <2>4. CASE a = to /\ b = to
    BY <2>0, <2>4 DEF FileNames
  <2> QED
    BY <2>1, <2>2, <2>3, <2>4
<1>4. FilesNamed'
  <2> SUFFICES ASSUME NEW f \in DOMAIN contents, f \notin expired
               PROVE  \E name \in DOMAIN files' : files'[name] = f
    BY DEF FilesNamed
  <2>1. f # F!NoFile
    BY DEF LogTypes, F!NoFile
  <2>2. PICK name \in DOMAIN files : files[name] = f
    BY DEF FilesNamed
  <2>3. CASE name = from
    BY <1>1, <2>2, <2>3
  <2>4. CASE name # from
    <3>1. name # to
      BY <2>1, <2>2
    <3> QED
      BY <1>1, <2>2, <2>4, <3>1
  <2> QED
    BY <2>3, <2>4
<1>5. ASSUME NEW k \in Logs PROVE OpenInv(k)'
  <2>1. \A name \in DOMAIN files' : name.log = k =>
            \E old \in DOMAIN files : old.log = k /\ files'[name] = files[old]
    BY <1>1
  <2>2. ASSUME NEW old \in DOMAIN files, old.log = k, ~old.compressed
        PROVE  \E name \in DOMAIN files' :
                    name.log = k /\ ~name.compressed /\ files'[name] = files[old]
    <3>1. CASE old = from
      BY <1>1, <2>2, <3>1
    <3>2. CASE old # from
      <4>1. old # to
        BY <2>2 DEF LogTypes
      <4> QED
        BY <1>1, <2>2, <3>2, <4>1
    <3> QED
      BY <3>1, <3>2
  <2>3. expired \subseteq expired' /\ (task'[k] = task[k] \/ task'[k] = "none")
    OBVIOUS
  <2> HIDE DEF LogParts
  <2> QED
    BY <2>1, <2>2, <2>3, OpenStays
<1> QED
  BY <1>2, <1>3, <1>4, <1>5

\* unlink() of a file that is old, or has a copy, or that no one writes to.
LEMMA UnlinkKeeps ==
    ASSUME LogParts, NEW gone \in DOMAIN files, F!Unlink(gone),
           expired \subseteq expired',
           \/ files[gone] \in expired'
           \/ /\ \E other \in DOMAIN files \ {gone} : files[other] = files[gone]
              /\ gone.log \in Logs => files[gone] \notin OpenFiles(gone.log),
           contents' = contents, UNCHANGED <<fileStream, textStreamPrinter, writer, task>>,
           DOMAIN rotation' = Logs, DOMAIN oldFiles' = Logs
    PROVE  LogTypes' /\ NewestFirst' /\ FilesNamed' /\ \A k \in Logs : OpenInv(k)'
<1> USE DEF LogParts
<1>1. /\ DOMAIN files' = DOMAIN files \ {gone}
      /\ \A name \in DOMAIN files' : files'[name] = files[name]
  BY Zenon DEF F!Unlink
<1>2. LogTypes'
  BY <1>1 DEF LogTypes
<1>3. NewestFirst'
  BY <1>1 DEF NewestFirst, Newer, Copies
<1>4. FilesNamed'
  BY <1>1, Zenon DEF FilesNamed
<1>5. ASSUME NEW k \in Logs PROVE OpenInv(k)'
  <2>1. \A name \in DOMAIN files' : name.log = k =>
            \E old \in DOMAIN files : old.log = k /\ files'[name] = files[old]
    BY <1>1
  <2>2. \A old \in DOMAIN files :
            old.log = k /\ ~old.compressed /\ files[old] \in OpenFiles(k) =>
                \/ files[old] \in expired'
                \/ \E name \in DOMAIN files' :
                        name.log = k /\ ~name.compressed /\ files'[name] = files[old]
    BY <1>1
  <2> HIDE DEF LogParts
  <2> QED
    BY <2>1, <2>2, OpenStays
<1> QED
  BY <1>2, <1>3, <1>4, <1>5

-----------------------------------------------------------------------------
\* The steps of a rotation, and of the compression that follows.
LEMMA CurrentFacts ==
    ASSUME NEW l \in Logs
    PROVE  /\ F!Current(l) \in FileNames
           /\ F!Current(l).log = l /\ F!Current(l).number = -1 /\ ~F!Current(l).compressed
BY DEF F!Current, F!Numbered, F!Now, FileNames

LEMMA ZeroFacts ==
    ASSUME NEW l \in Logs
    PROVE  /\ ZeroFile(l) \in FileNames
           /\ ZeroFile(l).log = l /\ ZeroFile(l).number = 0
           /\ ~ZeroFile(l).compressed
BY DEF ZeroFile, SourceFile, TargetFile, F!Numbered, FileNames

LEMMA OneFacts ==
    ASSUME NEW l \in Logs
    PROVE  /\ SourceFile(l) \in FileNames
           /\ SourceFile(l).log = l /\ SourceFile(l).number = 1
           /\ ~SourceFile(l).compressed
           /\ TargetFile(l) \in FileNames
           /\ TargetFile(l).log = l /\ TargetFile(l).number = 1
           /\ TargetFile(l).compressed
BY DEF ZeroFile, SourceFile, TargetFile, F!Numbered, FileNames

LEMMA NamedFacts ==
    ASSUME NEW a \in FileNames, NEW b \in FileNames,
           a.log = b.log, a.number = b.number, a.compressed = b.compressed
    PROVE  a = b
BY DEF FileNames

LEMMA ReadKeeps ==
    ASSUME LogParts, NEW l \in Logs, F!ReadDirectory(l)
    PROVE  LogParts'
<1> USE DEF LogParts
<1>0. F!Current(l) \in DOMAIN files /\ rotation[l] = "locking"
  BY DEF F!ReadDirectory, CompressInv
<1>1. /\ files' = files /\ expired' = expired /\ contents' = contents
      /\ UNCHANGED <<fileStream, textStreamPrinter, writer>>
      /\ task' = [task EXCEPT ![l] = "rotating"]
      /\ rotation' = [rotation EXCEPT ![l] = "renaming"]
      /\ oldFiles' = [oldFiles EXCEPT ![l] = F!OldFiles(l)]
  BY <1>0 DEF F!ReadDirectory, F!Exists, F!fileVars, F!streamVars, F!historyVars, F!SetTask,
        F!SetRotation
<1>2. LogTypes' /\ NewestFirst' /\ FilesNamed'
  <2>1. LogTypes'
    BY <1>1 DEF LogTypes
  <2>2. NewestFirst'
    BY <1>1 DEF NewestFirst, Newer, Copies
  <2>3. FilesNamed'
    BY <1>1 DEF FilesNamed
  <2> QED
    BY <2>1, <2>2, <2>3
<1>3. ASSUME NEW k \in Logs PROVE OpenInv(k)'
  <2>1. OpenFiles(k)' \subseteq OpenFiles(k)
        /\ (task'[k] = task[k] \/ task'[k] = "rotating")
    BY <1>1 DEF LogTypes, OpenFiles
  <2>2. OpenInv(k)
    OBVIOUS
  <2> QED
    BY <1>1, <2>1, <2>2 DEF OpenInv
<1>4. ASSUME NEW k \in Logs, k # l PROVE RenamingInv(k)' /\ CompressInv(k)'
  <2>1. rotation'[k] = rotation[k] /\ oldFiles'[k] = oldFiles[k]
    BY <1>1, <1>4 DEF LogTypes
  <2>2. RenamingInv(k)'
    <3>1. RenamingInv(k)
      OBVIOUS
    <3>2. \A n, m : Behind(n, m)' <=> Behind(n, m)
      BY <1>1, Zenon DEF Behind, Copies
    <3> QED
      BY <1>1, <2>1, <3>1, <3>2, Zenon DEF RenamingInv
  <2>3. CompressInv(k)'
    <3>1. CompressInv(k)
      OBVIOUS
    <3> QED
      BY <1>1, <2>1, <3>1, Zenon DEF CompressInv
  <2> QED
    BY <2>2, <2>3
<1>5. rotation'[l] = "renaming" /\ oldFiles'[l] = F!OldFiles(l)
  BY <1>1 DEF LogTypes
<1>6. RenamingInv(l)'
  <2>1. \A n \in F!OldFiles(l) : n \in DOMAIN files /\ n.number >= 0
    BY DEF LogTypes, FileNames, F!OldFiles, F!Now
  <2>2. ASSUME ZeroFile(l) \in DOMAIN files
        PROVE  ZeroFile(l) \in F!OldFiles(l)
    <3>1. ZeroFile(l).number # F!Now
      BY ZeroFacts DEF F!Now
    <3>2. ZeroFile(l).log = l
      BY ZeroFacts
    <3> QED
      BY <2>2, <3>1, <3>2, Zenon DEF F!OldFiles
  <2>3. ASSUME NEW n \in F!OldFiles(l), NEW m \in DOMAIN files \ F!OldFiles(l), m.log = n.log
        PROVE  m.number = F!Now
    BY <2>3 DEF F!OldFiles
  <2> QED
    BY <1>1, <1>5, <2>1, <2>2, <2>3 DEF RenamingInv
<1>7. CompressInv(l)'
  BY <1>5 DEF CompressInv
<1> QED
  BY <1>2, <1>3, <1>4, <1>6, <1>7

LEMMA RenameCurrentKeeps ==
    ASSUME LogParts, NEW l \in Logs, F!RenameCurrent(l), ~overlapped'
    PROVE  ~overlapped /\ LogParts'
<1> DEFINE from == F!Current(l)
           to == ZeroFile(l)
<1>1. /\ F!Rename(from, to) /\ from \in DOMAIN files /\ F!Meets(l)
      /\ rotation[l] = "renaming" /\ oldFiles[l] = {}
      /\ task' = [task EXCEPT ![l] = "none"]
      /\ rotation' = [rotation EXCEPT ![l] = "compress"]
      /\ contents' = contents /\ expired' = expired /\ oldFiles' = oldFiles
      /\ UNCHANGED <<fileStream, textStreamPrinter, writer>>
  BY Zenon DEF F!RenameCurrent, ZeroFile, F!SetTask, F!SetRotation, F!streamVars, F!Exists
<1>2. /\ from \in FileNames /\ from.log = l /\ from.number = -1 /\ ~from.compressed
      /\ to \in FileNames /\ to.log = l /\ to.number = 0 /\ ~to.compressed
  BY CurrentFacts, ZeroFacts
<1>3. to \notin DOMAIN files
  <2>1. RenamingInv(l)
    BY DEF LogParts
  <2> QED
    BY <1>1, <2>1 DEF RenamingInv
<1>4. \A m \in DOMAIN files :
        ~(m.log = from.log /\ m.number = to.number /\ m.compressed # to.compressed)
  <2> HIDE DEF from, to
  <2> SUFFICES ASSUME NEW m \in DOMAIN files, m.log = from.log, m.number = to.number,
                      m.compressed # to.compressed
               PROVE  FALSE
    OBVIOUS
  <2>1. m \in FileNames /\ (m.compressed => m.number >= 1)
    BY DEF LogParts, LogTypes
  <2>2. m.compressed
    BY <1>2, <2>1 DEF FileNames
  <2> QED
    BY <1>2, <2>1, <2>2
<1>5. /\ \A k \in Logs : task'[k] = task[k] \/ task'[k] = "none"
      /\ DOMAIN task' = Logs /\ DOMAIN rotation' = Logs /\ DOMAIN oldFiles' = Logs
      /\ rotation'[l] = "compress"
      /\ \A k \in Logs \ {l} : rotation'[k] = rotation[k]
  BY <1>1 DEF LogParts, LogTypes
<1>6. to.number = from.number + 1 /\ to.log = from.log /\ to.compressed = from.compressed
  <2> HIDE DEF from, to
  <2> QED
    BY <1>2 DEF FileNames
<1>7. DOMAIN files' = (DOMAIN files \ {from}) \cup {to}
  BY <1>1 DEF F!Rename
<1>8. \A k \in Logs \ {l} : F!Current(k) \in DOMAIN files => F!Current(k) \in DOMAIN files'
  <2>1. \A k \in Logs : F!Current(k).log = k
    BY CurrentFacts
  <2> QED
    BY <1>2, <1>7, <2>1
<1> HIDE DEF from, to
<1>9. LogTypes' /\ NewestFirst' /\ FilesNamed' /\ \A k \in Logs : OpenInv(k)'
  BY <1>1, <1>2, <1>3, <1>4, <1>5, <1>6, RenameKeeps
<1>10. ~overlapped /\ \A k \in Logs \ {l} : RenamingInv(k)' /\ CompressInv(k)'
  BY <1>1, <1>5, <1>8, OneRotation
<1>11. RenamingInv(l)' /\ CompressInv(l)'
  BY <1>5, <1>7 DEF RenamingInv, CompressInv, to
<1> QED
  BY <1>9, <1>10, <1>11 DEF LogParts

LEMMA RenameOldKeeps ==
    ASSUME LogParts, NEW l \in Logs, F!RenameOldFile(l), ~overlapped'
    PROVE  ~overlapped /\ LogParts'
<1>1. PICK n \in F!NextOldFiles(oldFiles[l]) :
        /\ n \in DOMAIN files
        /\ oldFiles' = [oldFiles EXCEPT ![l] = @ \ {n}]
        /\ \/ F!Unlink(n) /\ expired' = expired \cup {files[n]}
           \/ F!Rename(n, [n EXCEPT !.number = @ + 1]) /\ expired' = expired
  BY Zenon DEF F!RenameOldFile, F!Exists
<1>2. /\ rotation[l] = "renaming" /\ F!Meets(l)
      /\ contents' = contents /\ rotation' = rotation /\ task' = task
      /\ UNCHANGED <<fileStream, textStreamPrinter, writer>>
  BY DEF F!RenameOldFile, F!streamVars
<1>3. /\ oldFiles[l] \subseteq DOMAIN files
      /\ \A m \in oldFiles[l] : m.number >= 0
      /\ ZeroFile(l) \in DOMAIN files => ZeroFile(l) \in oldFiles[l]
      /\ \A p \in oldFiles[l] : \A m \in DOMAIN files \ oldFiles[l] :
            m.log = p.log /\ m.number # F!Now => Behind(p, m)
  <2>1. RenamingInv(l)
    BY DEF LogParts
  <2> QED
    BY <1>2, <2>1 DEF RenamingInv
<1>4. /\ n \in oldFiles[l] /\ n \in FileNames /\ n.number >= 0
      /\ \A m \in oldFiles[l] : m.number <= n.number
  BY <1>1, <1>3 DEF F!NextOldFiles, LogParts, LogTypes
<1>5. /\ \A k \in Logs : task'[k] = task[k] \/ task'[k] = "none"
      /\ DOMAIN task' = Logs /\ DOMAIN rotation' = Logs /\ DOMAIN oldFiles' = Logs
      /\ rotation'[l] = "renaming" /\ oldFiles'[l] = oldFiles[l] \ {n}
      /\ \A k \in Logs \ {l} : rotation'[k] = rotation[k]
  BY <1>1, <1>2 DEF LogParts, LogTypes
<1>6. CompressInv(l)'
  BY <1>5 DEF CompressInv
<1>7. CASE F!Unlink(n) /\ expired' = expired \cup {files[n]}
  <2>1. /\ DOMAIN files' = DOMAIN files \ {n}
        /\ \A name \in DOMAIN files' : files'[name] = files[name]
    BY <1>7, Zenon DEF F!Unlink
  <2>2. files[n] \in expired' /\ expired \subseteq expired'
    BY <1>7
  <2>3. LogTypes' /\ NewestFirst' /\ FilesNamed' /\ \A k \in Logs : OpenInv(k)'
    BY <1>1, <1>2, <1>5, <1>7, <2>2, UnlinkKeeps
  <2>4. \A k \in Logs \ {l} : F!Current(k) \in DOMAIN files => F!Current(k) \in DOMAIN files'
    BY <1>4, <2>1, CurrentFacts
  <2>5. ~overlapped /\ \A k \in Logs \ {l} : RenamingInv(k)' /\ CompressInv(k)'
    BY <1>2, <1>5, <2>4, OneRotation
  <2>6. RenamingInv(l)'
    <3>1. \A p, m \in DOMAIN files' : Behind(p, m)' <=> Behind(p, m)
      BY <2>1 DEF Behind, Copies
    <3>2. oldFiles'[l] \subseteq DOMAIN files' /\ DOMAIN files' \ oldFiles'[l] = DOMAIN files \ oldFiles[l]
      BY <1>3, <1>4, <1>5, <2>1
    <3>3. \A p \in oldFiles'[l] : p \in oldFiles[l]
      BY <1>5
    <3>4. ZeroFile(l) \in DOMAIN files' => ZeroFile(l) \in oldFiles'[l]
      BY <1>3, <1>5, <2>1
    <3>5. ASSUME NEW p \in oldFiles'[l], NEW m \in DOMAIN files' \ oldFiles'[l], m.log = p.log,
                 m.number # F!Now
          PROVE  Behind(p, m)'
      BY <1>3, <3>1, <3>2, <3>3, <3>5
    <3> QED
      BY <1>3, <3>2, <3>3, <3>4, <3>5 DEF RenamingInv
  <2> QED
    BY <1>6, <2>3, <2>5, <2>6 DEF LogParts
<1>8. CASE F!Rename(n, [n EXCEPT !.number = @ + 1]) /\ expired' = expired
  <2> DEFINE to == [n EXCEPT !.number = @ + 1]
  <2>1. /\ to \in FileNames /\ to.log = n.log /\ to.compressed = n.compressed
        /\ to.number = n.number + 1
    BY <1>4 DEF FileNames
  <2>2. F!Rename(n, to)
    BY <1>8
  <2> HIDE DEF to
  <2>3. to \notin oldFiles[l] /\ to # n
    BY <1>4, <2>1 DEF FileNames
  <2>4. /\ DOMAIN files' = (DOMAIN files \ {n}) \cup {to}
        /\ files'[to] = files[n]
        /\ \A name \in DOMAIN files' : name # to => files'[name] = files[name]
    BY <2>2, <2>3, Zenon DEF F!Rename
  <2>5. to \in DOMAIN files => files[to] = F!NoFile
    <3>1. SUFFICES ASSUME to \in DOMAIN files PROVE files[to] = F!NoFile
      OBVIOUS
    <3>2. Behind(n, to)
      BY <1>3, <1>4, <2>1, <2>3, <3>1 DEF FileNames, F!Now
    <3> QED
      BY <2>1, <3>2 DEF Behind
  <2>6. ASSUME NEW m \in DOMAIN files, m.log = n.log, m.number = to.number,
               m.compressed # to.compressed
        PROVE  IF m.compressed THEN Copies(m, n) ELSE Copies(n, m)
    <3>1. m \notin oldFiles[l]
      BY <1>4, <2>1, <2>6 DEF FileNames
    <3>2. Behind(n, m)
      BY <1>3, <1>4, <2>1, <2>6, <3>1 DEF FileNames, F!Now
    <3> QED
      BY <2>1, <2>6, <3>2 DEF Behind, Copies
  <2>7. LogTypes' /\ NewestFirst' /\ FilesNamed' /\ \A k \in Logs : OpenInv(k)'
    <3>1. \A m \in DOMAIN files :
            m.log = n.log /\ m.number = to.number /\ m.compressed # to.compressed =>
                IF m.compressed THEN Copies(m, n) ELSE Copies(n, m)
      BY <2>6
    <3> QED
      BY <1>1, <1>2, <1>5, <1>8, <2>1, <2>2, <2>5, <3>1, RenameKeeps
  <2>8. \A k \in Logs \ {l} : F!Current(k) \in DOMAIN files => F!Current(k) \in DOMAIN files'
    BY <1>4, <2>4, CurrentFacts
  <2>9. ~overlapped /\ \A k \in Logs \ {l} : RenamingInv(k)' /\ CompressInv(k)'
    BY <1>2, <1>5, <2>8, OneRotation
  <2>10. RenamingInv(l)'
    <3>1. oldFiles'[l] \subseteq DOMAIN files' /\ oldFiles'[l] \subseteq oldFiles[l]
      BY <1>3, <1>5, <2>4
    <3>2. ZeroFile(l) # to
      BY <1>4, <2>1, ZeroFacts DEF FileNames
    <3>3. ZeroFile(l) \in DOMAIN files' => ZeroFile(l) \in oldFiles'[l]
      BY <1>3, <1>5, <2>3, <2>4, <3>2
    <3>4. ASSUME NEW p \in oldFiles'[l], NEW m \in DOMAIN files' \ oldFiles'[l], m.log = p.log,
                 m.number # F!Now
          PROVE  Behind(p, m)'
      <4>0. /\ p \in oldFiles[l] /\ p # n /\ p # to /\ p \in DOMAIN files /\ p \in FileNames
            /\ files'[p] = files[p]
        BY <1>3, <1>5, <2>3, <2>4, <3>1 DEF LogParts, LogTypes
      <4>1. CASE m # to
        <5>1. m \in DOMAIN files \ oldFiles[l] /\ files'[m] = files[m]
          BY <1>5, <2>4, <3>4, <4>1
        <5>2. Behind(p, m)
          BY <1>3, <3>4, <4>0, <5>1
        <5> QED
          BY <4>0, <5>1, <5>2 DEF Behind, Copies
      <4>2. CASE m = to
        <5>1. p.number \in Int /\ p.number <= n.number /\ m.number = n.number + 1 /\ n.number \in Int
              /\ files'[m] = files[n] /\ m.compressed = n.compressed
          BY <1>4, <2>1, <2>4, <4>0, <4>2 DEF FileNames
        <5>2. m.number > p.number
          BY <5>1
        <5>3. CASE m.number = p.number + 1
          <6>1. p.number = n.number /\ p.log = n.log
            BY <2>1, <3>4, <4>2, <5>1, <5>3
          <6>2. p.compressed # n.compressed
            BY <1>4, <4>0, <6>1, NamedFacts
          <6>3. IF n.compressed THEN Copies(n, p) ELSE Copies(p, n)
            BY <1>1, <1>4, <4>0, <6>1, <6>2 DEF LogParts, NewestFirst, FileNames
          <6> QED
            BY <4>0, <5>1, <5>2, <6>2, <6>3 DEF Behind, Copies
        <5> QED
          BY <5>2, <5>3 DEF Behind
      <4> QED
        BY <4>1, <4>2
    <3>5. \A p \in oldFiles'[l] : p.number >= 0
      BY <1>3, <3>1
    <3> QED
      BY <3>1, <3>3, <3>4, <3>5 DEF RenamingInv
  <2> QED
    BY <1>6, <2>7, <2>9, <2>10 DEF LogParts
<1> QED
  BY <1>1, <1>7, <1>8

\* createWriteStream(): the file is the newest one, there before or not.
LEMMA OpenKeeps ==
    ASSUME LogParts, NEW l \in Logs, F!StreamOpens(l)
    PROVE  LogParts'
<1> DEFINE c == F!Current(l)
           n == Len(contents)
           f == IF c \notin DOMAIN files THEN n + 1 ELSE files[c]
<1>1. /\ files' = [name \in DOMAIN files \cup {c} |-> IF name = c THEN f ELSE files[name]]
      /\ contents' = IF c \notin DOMAIN files THEN Append(contents, 0) ELSE contents
      /\ fileStream' = [fileStream EXCEPT ![l] = f]
      /\ textStreamPrinter' = [textStreamPrinter EXCEPT ![l] = f]
      /\ writer' = [writer EXCEPT ![l] = f]
      /\ task' = [task EXCEPT ![l] = "writing"]
      /\ rotation' = rotation /\ oldFiles' = oldFiles /\ expired' = expired
  BY Zenon DEF F!StreamOpens, F!Exists, F!SetTask, F!historyVars
<1>2. c \in FileNames /\ c.log = l /\ c.number = -1 /\ ~c.compressed
  BY CurrentFacts
<1>3. n \in Nat /\ DOMAIN contents = 1 .. n /\ contents \in Seq(Nat)
  BY DEF LogParts, LogTypes
<1> HIDE DEF c
<1>4. f \in Nat /\ f # 0 /\ f \in 1 .. Len(contents') /\ n <= Len(contents')
      /\ contents' \in Seq(Nat)
  <2>1. CASE c \notin DOMAIN files
    BY <1>1, <1>3, <2>1
  <2>2. CASE c \in DOMAIN files
    BY <1>1, <1>2, <1>3, <2>2 DEF LogParts, LogTypes, F!NoFile
  <2> QED
    BY <2>1, <2>2
<1>5. ASSUME NEW a \in DOMAIN files, a.log = l PROVE f >= files[a]
  <2>0. files[a] \in 0 .. n /\ a \in FileNames /\ a.number >= -1 /\ (a.compressed => a.number >= 1)
    BY DEF LogParts, LogTypes, F!Now
  <2>1. CASE c \notin DOMAIN files
    BY <1>3, <2>0, <2>1
  <2>2. CASE c \in DOMAIN files
    <3>1. files[c] \in Nat /\ files[c] # F!NoFile
      BY <1>2, <2>2 DEF LogParts, LogTypes
    <3>2. CASE a = c \/ files[a] = F!NoFile
      BY <2>0, <2>2, <3>1, <3>2 DEF F!NoFile
    <3>3. CASE a # c /\ files[a] # F!NoFile
      <4>1. c.number < a.number
        BY <1>2, <1>5, <2>0, <3>3, NamedFacts DEF FileNames
      <4>2. Newer(c, a)
        BY <1>2, <1>5, <2>2, <3>3, <4>1 DEF LogParts, NewestFirst
      <4> QED
        BY <2>2, <3>1, <4>2 DEF Newer
    <3> QED
      BY <3>2, <3>3
  <2> QED
    BY <2>1, <2>2
<1>6. c \notin DOMAIN files => \A a \in DOMAIN files : f > files[a]
  BY <1>3 DEF LogParts, LogTypes
<1>7. c \in DOMAIN files => f = files[c]
  OBVIOUS
<1>8. c \notin DOMAIN files => DOMAIN contents' = DOMAIN contents \cup {f}
  BY <1>1, <1>3
<1> HIDE DEF f, n
<1>9. /\ DOMAIN files' = DOMAIN files \cup {c} /\ files'[c] = f
      /\ \A name \in DOMAIN files : name # c => files'[name] = files[name]
  BY <1>1
<1>10. LogTypes'
  <2>1. DOMAIN files' \subseteq FileNames
    BY <1>2, <1>9 DEF LogParts, LogTypes
  <2>2. ASSUME NEW a \in DOMAIN files'
        PROVE  /\ a.number >= F!Now /\ (a.compressed => a.number >= 1)
               /\ files'[a] \in 0 .. Len(contents')
               /\ ~a.compressed => files'[a] # F!NoFile
    <3>1. CASE a = c
      BY <1>2, <1>4, <1>9, <3>1 DEF F!Now, F!NoFile
    <3>2. CASE a # c
      <4>1. a \in DOMAIN files /\ files'[a] = files[a]
        BY <1>9, <3>2
      <4>2. files[a] \in 0 .. n
        BY <4>1 DEF LogParts, LogTypes, n
      <4> QED
        BY <1>3, <1>4, <4>1, <4>2 DEF LogParts, LogTypes
    <3> QED
      BY <3>1, <3>2
  <2>3. /\ fileStream' \in [Logs -> Nat] /\ textStreamPrinter' \in [Logs -> Nat]
        /\ writer' \in [Logs -> Nat]
    BY <1>1, <1>4 DEF LogParts, LogTypes
  <2>4. DOMAIN task' = Logs /\ DOMAIN rotation' = Logs /\ DOMAIN oldFiles' = Logs
    BY <1>1 DEF LogParts, LogTypes
  <2> QED
    BY <1>4, <2>1, <2>2, <2>3, <2>4 DEF LogTypes
<1>11. NewestFirst'
  <2> SUFFICES ASSUME NEW a \in DOMAIN files', NEW b \in DOMAIN files', a.log = b.log
               PROVE  /\ a.number < b.number /\ files'[b] # F!NoFile => Newer(a, b)'
                      /\ a.number = b.number /\ a.compressed /\ ~b.compressed => Copies(a, b)'
    BY DEF NewestFirst
  <2>1. CASE c \in DOMAIN files
    BY <1>7, <1>9, <2>1 DEF LogParts, NewestFirst, Newer, Copies
  <2>2. CASE c \notin DOMAIN files
    <3>1. CASE a # c /\ b # c
      BY <1>9, <3>1 DEF LogParts, NewestFirst, Newer, Copies
    <3>2. CASE a = c /\ b # c
      <4>1. b \in DOMAIN files /\ files'[b] = files[b] /\ f > files[b] /\ files[b] \in Nat
        BY <1>6, <1>9, <2>2, <3>2 DEF LogParts, LogTypes
      <4> QED
        BY <1>2, <1>4, <1>9, <3>2, <4>1 DEF Newer
    <3>3. CASE b = c
      <4>1. a \in FileNames /\ a.number >= -1 /\ (a.compressed => a.number >= 1)
        BY <1>10 DEF LogTypes, F!Now
      <4> QED
        BY <1>2, <3>3, <4>1 DEF FileNames
    <3> QED
      BY <3>1, <3>2, <3>3
  <2> QED
    BY <2>1, <2>2
<1>12. FilesNamed'
  <2> SUFFICES ASSUME NEW g \in DOMAIN contents', g \notin expired
               PROVE  \E name \in DOMAIN files' : files'[name] = g
    BY <1>1 DEF FilesNamed
  <2>1. CASE g = f
    BY <1>9, <2>1
  <2>2. CASE g # f
    <3>1. g \in DOMAIN contents
      BY <1>1, <1>8, <2>2
    <3>2. PICK name \in DOMAIN files : files[name] = g
      BY <3>1 DEF LogParts, FilesNamed
    <3>3. name # c
      BY <1>7, <2>2, <3>2
    <3> QED
      BY <1>9, <3>2, <3>3
  <2> QED
    BY <2>1, <2>2
<1>13. ASSUME NEW k \in Logs PROVE OpenInv(k)'
  <2>1. CASE k = l
    <3>1. /\ OpenFiles(l)' = {f} /\ task'[l] = "writing" /\ writer'[l] = f
      BY <1>1, <1>4 DEF LogParts, LogTypes, OpenFiles, F!NoFile
    <3>2. \A name \in DOMAIN files' : name.log = l => f >= files'[name]
      BY <1>4, <1>5, <1>9
    <3>3. \E name \in DOMAIN files' : name.log = l /\ ~name.compressed /\ files'[name] = f
      BY <1>2, <1>9
    <3> QED
      BY <1>4, <2>1, <3>1, <3>2, <3>3 DEF OpenInv, F!NoFile
  <2>2. CASE k # l
    <3>1. /\ OpenFiles(k)' = OpenFiles(k) /\ task'[k] = task[k] /\ writer'[k] = writer[k]
      BY <1>1, <2>2 DEF LogParts, LogTypes, OpenFiles
    <3>2. /\ \A name \in DOMAIN files' : name.log = k => name \in DOMAIN files /\ files'[name] = files[name]
          /\ \A name \in DOMAIN files : name.log = k => name \in DOMAIN files' /\ files'[name] = files[name]
      BY <1>2, <1>9, <2>2
    <3>3. OpenInv(k)
      BY DEF LogParts
    <3> QED
      BY <1>1, <3>1, <3>2, <3>3 DEF OpenInv
  <2> QED
    BY <2>1, <2>2
<1>14. ASSUME NEW k \in Logs PROVE RenamingInv(k)' /\ CompressInv(k)'
  <2>1. \A name \in DOMAIN files : name \in DOMAIN files' /\ files'[name] = files[name]
    BY <1>7, <1>9
  <2>2. ZeroFile(k) # c /\ SourceFile(k) # c
    BY <1>2, ZeroFacts, OneFacts
  <2>3. RenamingInv(k)'
    <3>1. ASSUME rotation'[k] = "renaming"
          PROVE  /\ oldFiles[k] \subseteq DOMAIN files'
                 /\ \A a \in oldFiles[k] : a.number >= 0
                 /\ ZeroFile(k) \in DOMAIN files' => ZeroFile(k) \in oldFiles[k]
                 /\ \A a \in oldFiles[k] : \A m \in DOMAIN files' \ oldFiles[k] :
                        m.log = a.log /\ m.number # F!Now => Behind(a, m)'
      <4>1. /\ oldFiles[k] \subseteq DOMAIN files
            /\ \A a \in oldFiles[k] : a.number >= 0
            /\ ZeroFile(k) \in DOMAIN files => ZeroFile(k) \in oldFiles[k]
            /\ \A a \in oldFiles[k] : \A m \in DOMAIN files \ oldFiles[k] :
                    m.log = a.log /\ m.number # F!Now => Behind(a, m)
        BY <1>1, <3>1, Zenon DEF LogParts, RenamingInv
      <4>2. ASSUME NEW a \in oldFiles[k], NEW m \in DOMAIN files' \ oldFiles[k], m.log = a.log,
                   m.number # F!Now
            PROVE  Behind(a, m)'
        <5>1. m \in DOMAIN files
          BY <1>2, <1>9, <4>2 DEF F!Now
        <5>2. Behind(a, m) /\ a \in DOMAIN files
          BY <4>1, <4>2, <5>1
        <5> QED
          BY <2>1, <5>1, <5>2 DEF Behind, Copies
      <4> QED
        BY <1>9, <2>2, <4>1, <4>2
    <3> QED
      BY <1>1, <3>1 DEF RenamingInv
  <2>4. CompressInv(k)'
    <3>1. CompressInv(k)
      BY DEF LogParts
    <3> QED
      BY <1>1, <1>9, <2>1, <2>2, <3>1 DEF CompressInv
  <2> QED
    BY <2>3, <2>4
<1> QED
  BY <1>10, <1>11, <1>12, <1>13, <1>14 DEF LogParts

\* What is known of the compressed file: it holds nothing, or what the source holds.
LEMMA TargetKeeps ==
    ASSUME LogParts, NEW l \in Logs, NEW f \in Nat,
           SourceFile(l) \in DOMAIN files, f \in {F!NoFile, files[SourceFile(l)]},
           DOMAIN files' = DOMAIN files \cup {TargetFile(l)}, files'[TargetFile(l)] = f,
           \A name \in DOMAIN files : name # TargetFile(l) => files'[name] = files[name],
           contents' = contents, expired' = expired,
           UNCHANGED <<fileStream, textStreamPrinter, writer, task>>,
           DOMAIN rotation' = Logs, DOMAIN oldFiles' = Logs
    PROVE  LogTypes' /\ NewestFirst' /\ FilesNamed' /\ \A k \in Logs : OpenInv(k)'
<1> DEFINE g == TargetFile(l)
           p == SourceFile(l)
<1>1. /\ p \in FileNames /\ p.log = l /\ p.number = 1 /\ ~p.compressed
      /\ g \in FileNames /\ g.log = l /\ g.number = 1 /\ g.compressed
      /\ p # g
  BY OneFacts
<1>2. /\ p \in DOMAIN files /\ (f = F!NoFile \/ f = files[p])
      /\ DOMAIN files' = DOMAIN files \cup {g} /\ files'[g] = f
      /\ \A name \in DOMAIN files : name # g => files'[name] = files[name]
  OBVIOUS
<1> HIDE DEF g, p
<1>3. /\ files'[p] = files[p] /\ files[p] \in 0 .. Len(contents) /\ files[p] # F!NoFile
      /\ f \in 0 .. Len(contents)
      /\ Len(contents) \in Nat
  BY <1>1, <1>2 DEF LogParts, LogTypes, F!NoFile
<1>4. LogTypes'
  <2>1. DOMAIN files' \subseteq FileNames
    BY <1>1, <1>2 DEF LogParts, LogTypes
  <2>2. ASSUME NEW a \in DOMAIN files'
        PROVE  /\ a.number >= F!Now /\ (a.compressed => a.number >= 1)
               /\ files'[a] \in 0 .. Len(contents')
               /\ ~a.compressed => files'[a] # F!NoFile
    <3>1. CASE a = g
      BY <1>1, <1>2, <1>3, <3>1 DEF F!Now
    <3>2. CASE a # g
      BY <1>2, <3>2 DEF LogParts, LogTypes
    <3> QED
      BY <3>1, <3>2
  <2> QED
    BY <2>1, <2>2 DEF LogParts, LogTypes
<1>5. NewestFirst'
  <2> SUFFICES ASSUME NEW a \in DOMAIN files', NEW b \in DOMAIN files', a.log = b.log
               PROVE  /\ a.number < b.number /\ files'[b] # F!NoFile => Newer(a, b)'
                      /\ a.number = b.number /\ a.compressed /\ ~b.compressed => Copies(a, b)'
    BY DEF NewestFirst
  <2>0. a \in FileNames /\ b \in FileNames
    BY <1>4 DEF LogTypes
  <2>1. CASE a # g /\ b # g
    BY <1>2, <2>1 DEF LogParts, NewestFirst, Newer, Copies
  <2>2. CASE a = g /\ b # g
    <3>1. b \in DOMAIN files /\ files'[b] = files[b] /\ b.log = p.log /\ p.number = a.number
      BY <1>1, <1>2, <2>2
    <3>2. ASSUME a.number < b.number, files'[b] # F!NoFile PROVE Newer(a, b)'
      <4>1. Newer(p, b)
        BY <1>2, <3>1, <3>2 DEF LogParts, NewestFirst
      <4> QED
        BY <1>1, <1>2, <1>3, <2>2, <3>1, <4>1 DEF Newer
    <3>3. ASSUME a.number = b.number, ~b.compressed PROVE Copies(a, b)'
      <4>1. b = p
        BY <1>1, <2>0, <3>1, <3>3, NamedFacts DEF FileNames
      <4> QED
        BY <1>2, <1>3, <2>2, <4>1 DEF Copies
    <3> QED
      BY <3>2, <3>3
  <2>3. CASE a # g /\ b = g
    <3>1. a \in DOMAIN files /\ files'[a] = files[a] /\ a.log = p.log /\ p.number = b.number
      BY <1>1, <1>2, <2>3
    <3>2. ASSUME a.number < b.number, files'[b] # F!NoFile PROVE Newer(a, b)'
      <4>1. Newer(a, p)
        BY <1>2, <1>3, <3>1, <3>2 DEF LogParts, NewestFirst
      <4> QED
        BY <1>1, <1>2, <1>3, <2>3, <3>1, <3>2, <4>1 DEF Newer
    <3> QED
      BY <1>1, <2>3, <3>2
  <2>4. CASE a = g /\ b = g
    BY <1>1, <2>4
  <2> QED
    BY <2>1, <2>2, <2>3, <2>4
<1>6. FilesNamed'
  <2> SUFFICES ASSUME NEW h \in DOMAIN contents, h \notin expired
               PROVE  \E name \in DOMAIN files' : files'[name] = h
    BY DEF FilesNamed
  <2>1. h # F!NoFile
    BY DEF LogParts, LogTypes, F!NoFile
  <2>2. PICK name \in DOMAIN files : files[name] = h
    BY DEF LogParts, FilesNamed
  <2>3. CASE name = g
    <3>1. Copies(g, p)
      BY <1>1, <1>2, <2>3 DEF LogParts, NewestFirst
    <3> QED
      BY <1>1, <1>2, <1>3, <2>1, <2>2, <2>3, <3>1 DEF Copies
  <2>4. CASE name # g
    BY <1>2, <2>2, <2>4
  <2> QED
    BY <2>3, <2>4
<1>7. ASSUME NEW k \in Logs PROVE OpenInv(k)'
  <2>1. \A name \in DOMAIN files' : name.log = k =>
            \/ files'[name] = F!NoFile
            \/ \E old \in DOMAIN files : old.log = k /\ files'[name] = files[old]
    BY <1>1, <1>2
  <2>2. ASSUME NEW old \in DOMAIN files, old.log = k, ~old.compressed
        PROVE  old \in DOMAIN files' /\ files'[old] = files[old]
    BY <1>1, <1>2, <2>2
  <2>3. expired \subseteq expired' /\ task'[k] = task[k]
    OBVIOUS
  <2> QED
    BY <2>1, <2>2, <2>3, OpenStays
<1> QED
  BY <1>4, <1>5, <1>6, <1>7

LEMMA CompressKeeps ==
    ASSUME LogParts, NEW l \in Logs, F!Compress(l)
    PROVE  LogParts'
<1>1. CASE /\ SourceFile(l) \in DOMAIN files
           /\ F!SetRotation(l, "compressing")
           /\ files' = [name \in DOMAIN files \cup {TargetFile(l)} |->
                            IF name = TargetFile(l) THEN F!NoFile ELSE files[name]]
           /\ oldFiles' = [oldFiles EXCEPT ![l] = {files[SourceFile(l)]}]
  <2>1. /\ DOMAIN files' = DOMAIN files \cup {TargetFile(l)} /\ files'[TargetFile(l)] = F!NoFile
        /\ \A name \in DOMAIN files : name # TargetFile(l) => files'[name] = files[name]
    BY <1>1, Zenon
  <2>2. /\ contents' = contents /\ expired' = expired /\ rotation[l] = "compress"
        /\ UNCHANGED <<fileStream, textStreamPrinter, writer, task>>
    BY DEF F!Compress, F!streamVars, F!historyVars
  <2>3. /\ DOMAIN rotation' = Logs /\ DOMAIN oldFiles' = Logs
        /\ rotation'[l] = "compressing" /\ oldFiles'[l] = {files[SourceFile(l)]}
        /\ \A k \in Logs \ {l} : rotation'[k] = rotation[k] /\ oldFiles'[k] = oldFiles[k]
    BY <1>1 DEF F!SetRotation, LogParts, LogTypes
  <2>4. LogTypes' /\ NewestFirst' /\ FilesNamed' /\ \A k \in Logs : OpenInv(k)'
    <3>1. F!NoFile \in Nat
      BY DEF F!NoFile
    <3>2. SourceFile(l) \in DOMAIN files /\ F!NoFile \in {F!NoFile, files[SourceFile(l)]}
      BY <1>1
    <3> QED
      BY <2>1, <2>2, <2>3, <3>1, <3>2, TargetKeeps
  <2>5. RenamingInv(l)' /\ CompressInv(l)'
    <3>1. ZeroFile(l) \in DOMAIN files
      BY <2>2 DEF LogParts, CompressInv
    <3>2. SourceFile(l) # TargetFile(l)
      BY OneFacts
    <3>3. files'[SourceFile(l)] = files[SourceFile(l)]
      BY <1>1, <2>1, <3>2, Zenon
    <3>4. RenamingInv(l)'
      BY <2>3 DEF RenamingInv
    <3>5. CompressInv(l)'
      <4>1. SourceFile(l) \in DOMAIN files
        BY <1>1
      <4> QED
        BY <2>1, <2>3, <3>1, <3>3, <4>1 DEF CompressInv
    <3> QED
      BY <3>4, <3>5
  <2>6. ASSUME NEW k \in Logs, k # l PROVE RenamingInv(k)' /\ CompressInv(k)'
    <3> DEFINE g == TargetFile(l)
    <3>1. /\ g.log = l /\ g.number = 1 /\ g.compressed /\ g \in FileNames
          /\ ZeroFile(k) # g /\ SourceFile(k) # g /\ TargetFile(k) # g
      BY <2>6, ZeroFacts, OneFacts
    <3>2. /\ DOMAIN files' = DOMAIN files \cup {g} /\ files'[g] = F!NoFile
          /\ \A name \in DOMAIN files : name # g => files'[name] = files[name]
          /\ rotation'[k] = rotation[k] /\ oldFiles'[k] = oldFiles[k]
      BY <2>1, <2>3, <2>6
    <3> HIDE DEF g
    <3>3. CompressInv(k)'
      <4>1. CompressInv(k)
        BY DEF LogParts
      <4> QED
        BY <3>1, <3>2, <4>1 DEF CompressInv
    <3>4. ASSUME rotation[k] = "renaming" PROVE RenamingInv(k)'
      <4>1. /\ oldFiles[k] \subseteq DOMAIN files
            /\ \A a \in oldFiles[k] : a.number >= 0
            /\ ZeroFile(k) \in DOMAIN files => ZeroFile(k) \in oldFiles[k]
            /\ \A a \in oldFiles[k] : \A m \in DOMAIN files \ oldFiles[k] :
                    m.log = a.log /\ m.number # F!Now => Behind(a, m)
        BY <3>4, Zenon DEF LogParts, RenamingInv
      <4>2. ASSUME NEW a \in oldFiles[k], NEW m \in DOMAIN files' \ oldFiles[k], m.log = a.log,
                   m.number # F!Now
            PROVE  Behind(a, m)'
        <5>1. CASE m = g
          BY <3>1, <3>2, <5>1 DEF Behind
        <5>2. CASE m # g
          <6>1. m \in DOMAIN files /\ a \in DOMAIN files /\ files'[m] = files[m] /\ Behind(a, m)
            BY <3>2, <4>1, <4>2, <5>2
          <6>2. files'[a] = files[a] \/ (a.compressed /\ files'[a] = F!NoFile)
            BY <3>1, <3>2, <6>1
          <6>3. a \in FileNames /\ m \in FileNames
            BY <6>1 DEF LogParts, LogTypes
          <6> QED
            BY <6>1, <6>2, <6>3 DEF Behind, Copies, FileNames
        <5> QED
          BY <5>1, <5>2
      <4> QED
        BY <3>1, <3>2, <4>1, <4>2 DEF RenamingInv
    <3>5. CASE rotation[k] # "renaming"
      BY <3>2, <3>3, <3>5 DEF RenamingInv
    <3> QED
      BY <3>3, <3>4, <3>5
  <2> QED
    BY <2>4, <2>5, <2>6 DEF LogParts
<1>2. CASE F!EndRotation(l) /\ UNCHANGED <<files, oldFiles>>
  <2>1. /\ files' = files /\ oldFiles' = oldFiles /\ contents' = contents /\ expired' = expired
        /\ UNCHANGED <<fileStream, textStreamPrinter, writer, task>>
    BY <1>2 DEF F!Compress, F!streamVars, F!historyVars
  <2>2. /\ DOMAIN rotation' = Logs
        /\ \A k \in Logs : rotation'[k] = rotation[k] \/ rotation'[k] \in {"stat", "idle"}
    BY <1>2 DEF F!EndRotation, F!SetRotation, LogParts, LogTypes
  <2>3. /\ contents' \in Seq(Nat) /\ Len(contents') = Len(contents)
        /\ fileStream' \in [Logs -> Nat] /\ textStreamPrinter' \in [Logs -> Nat]
        /\ writer' \in [Logs -> Nat]
        /\ DOMAIN task' = Logs /\ DOMAIN oldFiles' = Logs
    BY <2>1 DEF LogParts, LogTypes
  <2>4. \A k \in Logs :
            /\ OpenFiles(k)' \subseteq OpenFiles(k)
            /\ task'[k] = "writing" => writer'[k] # F!NoFile
            /\ task'[k] = "opening" => OpenFiles(k)' = {}
    BY <2>1 DEF LogParts, OpenInv, OpenFiles
  <2>5. \A k \in Logs : \/ rotation'[k] = rotation[k] /\ oldFiles'[k] = oldFiles[k]
                        \/ rotation'[k] \notin Rotating
    BY <2>1, <2>2 DEF Rotating
  <2> QED
    BY <2>1, <2>2, <2>3, <2>4, <2>5, FilesAlone
<1> QED
  BY <1>1, <1>2, Zenon DEF F!Compress, F!Exists, SourceFile, TargetFile

LEMMA WrittenKeeps ==
    ASSUME LogParts, NEW l \in Logs, F!CompressedFileWritten(l), ~overlapped'
    PROVE  ~overlapped /\ LogParts'
<1>1. /\ rotation[l] = "compressing" /\ F!Meets(l)
      /\ rotation' = [rotation EXCEPT ![l] = "unlinking"]
      /\ contents' = contents /\ expired' = expired
      /\ UNCHANGED <<fileStream, textStreamPrinter, writer, task>>
      /\ oldFiles' = [oldFiles EXCEPT ![l] = {}]
  BY DEF F!CompressedFileWritten, F!SetRotation, F!streamVars
<1>2. /\ ZeroFile(l) \in DOMAIN files
      /\ SourceFile(l) \in DOMAIN files /\ TargetFile(l) \in DOMAIN files
      /\ oldFiles[l] = {files[SourceFile(l)]}
  BY <1>1 DEF LogParts, CompressInv
<1>3. files' = [files EXCEPT ![TargetFile(l)] = files[SourceFile(l)]]
  <2>1. (CHOOSE f \in oldFiles[l] : TRUE) = files[SourceFile(l)]
    BY <1>2
  <2> QED
    BY <1>2, <2>1, Zenon DEF F!CompressedFileWritten, F!Exists, TargetFile
<1>4. /\ DOMAIN files' = DOMAIN files \cup {TargetFile(l)}
      /\ files'[TargetFile(l)] = files[SourceFile(l)]
      /\ \A name \in DOMAIN files : name # TargetFile(l) => files'[name] = files[name]
      /\ files[SourceFile(l)] \in Nat
  <2>1. DOMAIN files' = DOMAIN files \cup {TargetFile(l)}
    BY <1>2, <1>3
  <2>2. files'[TargetFile(l)] = files[SourceFile(l)]
    BY <1>2, <1>3, Zenon
  <2>3. \A name \in DOMAIN files : name # TargetFile(l) => files'[name] = files[name]
    BY <1>3, Zenon
  <2>4. files[SourceFile(l)] \in Nat
    BY <1>2 DEF LogParts, LogTypes
  <2> QED
    BY <2>1, <2>2, <2>3, <2>4
<1>5. /\ DOMAIN rotation' = Logs /\ DOMAIN oldFiles' = Logs /\ rotation'[l] = "unlinking"
      /\ \A k \in Logs \ {l} : rotation'[k] = rotation[k]
  BY <1>1 DEF LogParts, LogTypes
<1>6. LogTypes' /\ NewestFirst' /\ FilesNamed' /\ \A k \in Logs : OpenInv(k)'
  BY <1>1, <1>2, <1>4, <1>5, TargetKeeps
<1>7. ~overlapped /\ \A k \in Logs \ {l} : RenamingInv(k)' /\ CompressInv(k)'
  <2>1. \A k \in Logs \ {l} : F!Current(k) \in DOMAIN files => F!Current(k) \in DOMAIN files'
    BY <1>4
  <2> QED
    BY <1>1, <1>5, <2>1, OneRotation
<1>8. RenamingInv(l)' /\ CompressInv(l)'
  <2>1. SourceFile(l) # TargetFile(l)
    BY OneFacts
  <2> QED
    BY <1>2, <1>4, <1>5, <2>1 DEF RenamingInv, CompressInv
<1> QED
  BY <1>6, <1>7, <1>8 DEF LogParts

LEMMA UnlinkSourceKeeps ==
    ASSUME LogParts, NEW l \in Logs, F!UnlinkSource(l), ~overlapped'
    PROVE  ~overlapped /\ LogParts'
<1> DEFINE p == SourceFile(l)
           g == TargetFile(l)
<1>1. /\ rotation[l] = "unlinking" /\ F!Meets(l)
      /\ rotation' = [rotation EXCEPT ![l] = IF again[l] THEN "stat" ELSE "idle"]
      /\ contents' = contents /\ expired' = expired /\ oldFiles' = oldFiles
      /\ UNCHANGED <<fileStream, textStreamPrinter, writer, task>>
      /\ IF p \in DOMAIN files THEN F!Unlink(p) ELSE files' = files
  BY Zenon DEF F!UnlinkSource, F!EndRotation, F!SetRotation, F!streamVars, F!Exists, SourceFile
<1>2. /\ DOMAIN rotation' = Logs /\ DOMAIN oldFiles' = Logs /\ rotation'[l] \in {"stat", "idle"}
      /\ \A k \in Logs \ {l} : rotation'[k] = rotation[k]
  BY <1>1 DEF LogParts, LogTypes
<1>3. /\ ZeroFile(l) \in DOMAIN files
      /\ p \in DOMAIN files => g \in DOMAIN files /\ files[g] = files[p]
  BY <1>1 DEF LogParts, CompressInv
<1>4. /\ p \in FileNames /\ p.log = l /\ p.number = 1 /\ ~p.compressed /\ p # g
      /\ ZeroFile(l).log = l /\ ZeroFile(l).number = 0 /\ ~ZeroFile(l).compressed
  BY OneFacts, ZeroFacts
<1> HIDE DEF p, g
<1>5. LogTypes' /\ NewestFirst' /\ FilesNamed' /\ \A k \in Logs : OpenInv(k)'
  <2>1. CASE p \in DOMAIN files
    <3>1. \E other \in DOMAIN files \ {p} : files[other] = files[p]
      BY <1>3, <1>4, <2>1
    <3>2. files[p] \notin OpenFiles(l)
      <4>1. /\ files[p] # F!NoFile /\ files[p] \in Nat /\ files[ZeroFile(l)] \in Nat
            /\ files[ZeroFile(l)] # F!NoFile
        BY <1>3, <1>4, <2>1 DEF LogParts, LogTypes
      <4>2. Newer(ZeroFile(l), p)
        BY <1>3, <1>4, <2>1, <4>1 DEF LogParts, NewestFirst
      <4>3. files[ZeroFile(l)] > files[p]
        BY <1>4, <4>1, <4>2 DEF Newer
      <4>4. \A f \in OpenFiles(l) : f >= files[ZeroFile(l)]
        BY <1>3, <1>4 DEF LogParts, OpenInv
      <4> QED
        BY <4>1, <4>3, <4>4
    <3>3. F!Unlink(p) /\ expired \subseteq expired'
      BY <1>1, <2>1
    <3> QED
      BY <1>1, <1>2, <1>4, <2>1, <3>1, <3>2, <3>3, UnlinkKeeps
  <2>2. CASE p \notin DOMAIN files
    <3>1. files' = files
      BY <1>1, <2>2
    <3>2. LogTypes'
      BY <1>1, <1>2, <3>1 DEF LogParts, LogTypes
    <3>3. NewestFirst' /\ FilesNamed'
      BY <1>1, <3>1 DEF LogParts, NewestFirst, Newer, Copies, FilesNamed
    <3>4. ASSUME NEW k \in Logs PROVE OpenInv(k)'
      <4>1. OpenInv(k)
        BY DEF LogParts
      <4> QED
        BY <1>1, <3>1, <4>1 DEF OpenInv, OpenFiles
    <3> QED
      BY <3>2, <3>3, <3>4
  <2> QED
    BY <2>1, <2>2
<1>6. \A k \in Logs \ {l} : F!Current(k) \in DOMAIN files => F!Current(k) \in DOMAIN files'
  <2>1. \A k \in Logs : F!Current(k) # p
    BY <1>4, CurrentFacts
  <2> QED
    BY <1>1, <2>1, Zenon DEF F!Unlink
<1>7. ~overlapped /\ \A k \in Logs \ {l} : RenamingInv(k)' /\ CompressInv(k)'
  BY <1>1, <1>2, <1>6, OneRotation
<1>8. RenamingInv(l)' /\ CompressInv(l)'
  BY <1>2 DEF RenamingInv, CompressInv
<1> QED
  BY <1>5, <1>7, <1>8 DEF LogParts

-----------------------------------------------------------------------------
\* Two rotations that have met are not forgotten.
LEMMA LogStep == LogInv /\ F!LogNext => LogInv'
<1> SUFFICES ASSUME LogInv, F!LogNext, ~overlapped' PROVE LogParts'
  BY DEF LogInv
<1>1. ~overlapped => LogParts
  BY DEF LogInv
<1>2. ASSUME NEW l \in Logs,
             F!PrintRecord(l) \/ F!Write(l) \/ F!WriteFails(l) \/ F!Close(l) \/ F!CloseEvent(l)
      PROVE  LogParts'
  <2>1. overlapped' = overlapped
    BY <1>2, Zenon DEF F!PrintRecord, F!Write, F!WriteFails, F!Close, F!CloseEvent, F!historyVars
  <2> QED
    BY <1>1, <1>2, <2>1, PrintKeeps
<1>3. ASSUME NEW l \in Logs, F!StatFile(l) \/ F!FileIsMissing(l) \/ F!ReadFails(l)
      PROVE  LogParts'
  <2>1. overlapped' = overlapped
    BY <1>3, Zenon DEF F!StatFile, F!FileIsMissing, F!ReadFails, F!historyVars
  <2> QED
    BY <1>1, <1>3, <2>1, LookKeeps
<1>4. ASSUME NEW l \in Logs, F!StreamOpens(l) \/ F!ReadDirectory(l) \/ F!Compress(l)
      PROVE  LogParts'
  <2>1. overlapped' = overlapped
    BY <1>4, Zenon DEF F!StreamOpens, F!ReadDirectory, F!Compress, F!historyVars
  <2> QED
    BY <1>1, <1>4, <2>1, OpenKeeps, ReadKeeps, CompressKeeps
<1>5. ASSUME NEW l \in Logs,
             F!RenameOldFile(l) \/ F!RenameCurrent(l) \/ F!CompressedFileWritten(l)
                \/ F!UnlinkSource(l)
      PROVE  LogParts'
  <2>1. overlapped => overlapped'
    BY <1>5, Zenon DEF F!RenameOldFile, F!RenameCurrent, F!CompressedFileWritten, F!UnlinkSource, F!Meets
  <2> QED
    BY <1>1, <1>5, <2>1, RenameOldKeeps, RenameCurrentKeeps, WrittenKeeps, UnlinkSourceKeeps
<1>6. CASE F!Crash
  <2>1. overlapped' = overlapped
    BY <1>6, Zenon DEF F!Crash, F!historyVars
  <2> QED
    BY <1>1, <1>6, <2>1, LogCrashKeeps
<1> QED
  BY <1>2, <1>3, <1>4, <1>5, <1>6, Zenon DEF F!LogNext

(***************************************************************************)
(* No record of a log is lost, unless two rotations have met: its file has *)
(* a name or was removed because it was old, the files of a log are in the  *)
(* order of their numbers, and what print() writes to is no file that       *)
(* compressFile() has removed.  Wherever the process crashes, for any logs,  *)
(* any number of files and of calls (file-printer.ts, rotate-log-files.ts,  *)
(* compress-file.ts).                                                      *)
(***************************************************************************)
THEOREM RotationsLoseNothing == Spec => []RecordsKept
<1>1. Init => LogInv
  <2> SUFFICES ASSUME Init PROVE LogParts
    BY DEF LogInv
  <2>1. /\ files = [name \in {} |-> F!NoFile] /\ contents = <<>>
        /\ fileStream = [l \in Logs |-> F!NoFile] /\ textStreamPrinter = fileStream
        /\ task = [l \in Logs |-> "none"] /\ writer = fileStream
        /\ rotation = [l \in Logs |-> "idle"]
        /\ oldFiles = [l \in Logs |-> {}]
    BY Zenon DEF Init, ServicesInit, F!LogInit
  <2>2. LogTypes /\ NewestFirst /\ FilesNamed
    BY <2>1 DEF LogTypes, NewestFirst, FilesNamed, F!NoFile
  <2>3. ASSUME NEW l \in Logs PROVE OpenInv(l) /\ RenamingInv(l) /\ CompressInv(l)
    BY <2>1 DEF OpenInv, OpenFiles, RenamingInv, CompressInv, F!NoFile
  <2> QED
    BY <2>2, <2>3 DEF LogParts
<1>2. LogInv /\ [Next]_vars => LogInv'
  <2> SUFFICES ASSUME LogInv, [Next]_vars PROVE LogInv'
    OBVIOUS
  <2>1. CASE UNCHANGED logVars
    <3> USE <2>1 DEF logVars
    <3> SUFFICES ASSUME LogParts, ~overlapped PROVE LogParts'
      BY DEF LogInv
    <3>1. /\ contents' \in Seq(Nat) /\ Len(contents') = Len(contents)
          /\ fileStream' \in [Logs -> Nat] /\ textStreamPrinter' \in [Logs -> Nat]
          /\ writer' \in [Logs -> Nat]
          /\ DOMAIN task' = Logs /\ DOMAIN rotation' = Logs /\ DOMAIN oldFiles' = Logs
      BY DEF LogParts, LogTypes
    <3>2. \A l \in Logs :
            /\ OpenFiles(l)' \subseteq OpenFiles(l)
            /\ task'[l] = "writing" => writer'[l] # F!NoFile
            /\ task'[l] = "opening" => OpenFiles(l)' = {}
      BY DEF LogParts, OpenInv, OpenFiles
    <3> QED
      BY <3>1, <3>2, FilesAlone
  <2>2. CASE F!LogNext
    BY <2>2, LogStep
  <2> QED
    BY <2>1, <2>2, ServiceStep
<1>3. LogInv => RecordsKept
  <2> SUFFICES ASSUME LogInv, ~overlapped PROVE F!RecordsKept
    BY DEF RecordsKept, F!RecordsKept
  <2>0. LogParts
    BY DEF LogInv
  <2>1. ASSUME NEW f \in DOMAIN contents \ expired PROVE \E name \in DOMAIN files : files[name] = f
    BY <2>0 DEF LogParts, FilesNamed
  <2>2. ASSUME NEW a \in DOMAIN files, NEW b \in DOMAIN files,
               a.log = b.log, a.number < b.number, files[b] # F!NoFile
        PROVE  files[a] = F!NoFile \/ files[a] >= files[b]
    BY <2>0, <2>2 DEF LogParts, NewestFirst, Newer
  <2>3. ASSUME NEW l \in Logs, task[l] = "writing"
        PROVE  writer[l] \in expired
               \/ \E name \in DOMAIN files : ~name.compressed /\ files[name] = writer[l]
    <3>1. writer[l] \in OpenFiles(l)
      BY <2>0, <2>3 DEF LogParts, OpenInv, OpenFiles
    <3> QED
      BY <2>0, <3>1 DEF LogParts, OpenInv
  <2> QED
    BY <2>1, <2>2, <2>3, Zenon DEF F!RecordsKept
<1> QED
  BY <1>1, <1>2, <1>3, PTL DEF Spec
=============================================================================
