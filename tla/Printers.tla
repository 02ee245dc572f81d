------------------------------ MODULE Printers ------------------------------
(***************************************************************************)
(* The spool of a TextStreamPrinter, or of a NoRepeatPrinterProxy, and the *)
(* flushes that empty it (app-util, logger/printers).  The two classes      *)
(* share their flush() and print(); the proxy holds back a record equal to *)
(* the last one, and prints how often it was repeated instead.              *)
(***************************************************************************)
EXTENDS Integers, SequencesExt, FiniteSets

CONSTANTS
    Texts,              \* what records say
    MaxCount,           \* maxCount: so many repetitions are held back
    MaxPrints, MaxOthers, MaxFailures   \* bounds: print(), flush() and clear(), printFailures

Noone == "noone"
NoText == "no text"
NoCount == [text |-> NoText, times |-> 0]
ClearCode == 0      \* the item that clears the terminal

VARIABLES
    holdsRepeated,  \* is it a NoRepeatPrinterProxy?
    record,         \* the text of each record, by the order of the calls
    spool,
    flushing,       \* who holds flushLock: "print", by flushSqn, "flush", or no one,
    batch,          \*   with the spool it took,
    handling,       \*   and how far it is with the first record of it
    current, next,  \* flushSqn: the calls that wait for this flush, and the next
    lastText, skipCount,        \* lastRecord, lastRecordSkipCount
    tick, counting,     \* is the timer's call printing? the count that is printed
    others, printFailures,
    written,        \* history: what was printed, [text, times],
    resolved, rejected, failed, cleared     \*   and the records of each kind

printerVars == <<holdsRepeated, record, spool, flushing, batch, handling, current, next,
                 lastText, skipCount, tick, counting, others, printFailures, written, resolved, rejected,
                 failed, cleared>>
flushVars == <<flushing, batch, handling>>
callVars == <<current, next, resolved, rejected>>
repeatVars == <<lastText, skipCount, tick, counting>>
boundVars == <<holdsRepeated, others, printFailures>>

PrintersInit ==
    /\ holdsRepeated \in BOOLEAN
    /\ record = <<>> /\ spool = <<>>
    /\ flushing = Noone /\ batch = <<>> /\ handling = "no"
    /\ current = {} /\ next = {}
    /\ lastText = NoText /\ skipCount = 0 /\ tick = FALSE /\ counting = NoCount
    /\ others = 0 /\ printFailures = 0
    /\ written = <<>> /\ resolved = {} /\ rejected = {} /\ failed = {} /\ cleared = {}

\* flushSqn: the flush that runs may have taken the spool already, so a call
\* waits for the next.
CallFlush(r) ==
    IF current = {} THEN current' = {r} /\ next' = next
    ELSE next' = next \cup {r} /\ current' = current

\* print(): into the spool; then a flush.
PrintRecord(text) ==
    /\ Len(record) < MaxPrints
    /\ record' = Append(record, text)
    /\ spool' = Append(spool, Len(record'))
    /\ CallFlush(Len(record'))
    /\ UNCHANGED <<flushVars, repeatVars, boundVars, written, resolved, rejected, failed, cleared>>

\* flush(), with flushLock, takes the spool,
Flush(who) ==
    /\ flushing = Noone
    /\ IF who = "print" THEN current # {} /\ others' = others ELSE others < MaxOthers /\ others' = others + 1
    /\ flushing' = who
    /\ batch' = spool /\ spool' = <<>>
    /\ UNCHANGED <<holdsRepeated, printFailures, record, handling, callVars, repeatVars, written,
                   failed, cleared>>

\* Variant: behind the newer ones.
PutBehind(left) == spool' = spool \o left

\* and puts back what is left when a record fails: before the newer ones.
PutBack(left) == spool' = left \o spool

\* The calls that waited for this flush settle, and the next one may begin.
Settled(ok) ==
    IF flushing = "print"
    THEN /\ resolved' = IF ok THEN resolved \cup current ELSE resolved
         /\ rejected' = IF ok THEN rejected ELSE rejected \cup current
         /\ current' = next /\ next' = {}
    ELSE UNCHANGED callVars

FlushEnds ==
    /\ flushing # Noone /\ batch = <<>>
    /\ flushing' = Noone
    /\ Settled(TRUE)
    /\ UNCHANGED <<boundVars, record, spool, batch, handling, repeatVars, written,
                   failed, cleared>>

RecordFails ==
    /\ flushing # Noone /\ batch # <<>> /\ printFailures < MaxFailures
    /\ printFailures' = printFailures + 1
    /\ IF holdsRepeated THEN handling \in {"count", "print"} ELSE handling = "no"
    /\ failed' = failed \cup {Head(batch)}
    /\ PutBack(Tail(batch))
    /\ batch' = <<>> /\ flushing' = Noone /\ handling' = "no"
    /\ Settled(FALSE)
    /\ UNCHANGED <<holdsRepeated, others, record, repeatVars, written, cleared>>

\* clear(): with flushLock; it does not take spoolLock.  The proxy just forgets the
\* last record.
Clear ==
    /\ others < MaxOthers /\ others' = others + 1
    /\ IF holdsRepeated
       THEN /\ lastText' = NoText /\ skipCount' = 0
            /\ cleared' = cleared \cup {ClearCode}
            /\ UNCHANGED <<spool, current, next>>
       ELSE /\ flushing = Noone
            /\ spool' = <<ClearCode>>
            /\ cleared' = cleared \cup Range(spool)
            /\ CallFlush(ClearCode)
            /\ UNCHANGED <<lastText, skipCount>>
    /\ UNCHANGED <<holdsRepeated, printFailures, record, flushVars, resolved, rejected, tick, counting,
                   written, failed>>

\* TextStreamPrinter: the record is written to the stream.
Output ==
    /\ ~holdsRepeated /\ flushing # Noone /\ batch # <<>>
    /\ written' = IF Head(batch) = ClearCode THEN written
                  ELSE Append(written, [text |-> record[Head(batch)], times |-> 1])
    /\ batch' = Tail(batch)
    /\ UNCHANGED <<boundVars, record, spool, flushing, handling, callVars, repeatVars, failed, cleared>>

-----------------------------------------------------------------------------
\* NoRepeatPrinterProxy: handleRecordPrint(), with handleRepeatCountLock, prints how
\* often the last record was repeated before another one, or when that is too often
\* or too long ago,
LockFree == ~tick /\ handling \in {"no", "print"}
HasCount == lastText # NoText /\ skipCount > 0
Counted(now) == written' = IF now THEN Append(written, counting) ELSE written

HandleRecord ==
    /\ holdsRepeated /\ flushing # Noone /\ batch # <<>> /\ handling = "no" /\ LockFree
    /\ LET equal == lastText = record[Head(batch)] IN
       \/ /\ HasCount
          /\ handling' = "count"
          /\ counting' = [text |-> lastText, times |-> skipCount]
       \/ /\ ~HasCount \/ (equal /\ skipCount < MaxCount)
          /\ handling' = IF equal THEN "equal" ELSE "new"
          /\ counting' = counting
    /\ UNCHANGED <<boundVars, record, spool, flushing, batch, callVars, lastText, skipCount, tick,
                   written, failed, cleared>>

CountPrinted ==
    /\ handling = "count"
    /\ Counted(TRUE)
    /\ skipCount' = 0 /\ counting' = NoCount
    /\ handling' = "new"
    /\ UNCHANGED <<boundVars, record, spool, flushing, batch, callVars, lastText, tick, failed,
                   cleared>>

\* remembers the record, before it is printed,
Remember ==
    /\ handling = "new"
    /\ lastText' = record[Head(batch)]
    /\ handling' = "print"
    /\ UNCHANGED <<boundVars, record, spool, flushing, batch, callVars, skipCount, tick, counting,
                   written, failed, cleared>>

RecordPrinted ==
    /\ handling = "print"
    /\ written' = Append(written, [text |-> record[Head(batch)], times |-> 1])
    /\ handling' = "no" /\ batch' = Tail(batch)
    /\ UNCHANGED <<boundVars, record, spool, flushing, callVars, repeatVars, failed, cleared>>

\* or counts it.
SkipRecord ==
    /\ handling = "equal"
    /\ lastText' = record[Head(batch)]
    /\ skipCount' = skipCount + 1
    /\ handling' = "no" /\ batch' = Tail(batch)
    /\ UNCHANGED <<boundVars, record, spool, flushing, callVars, tick, counting, written, failed,
                   cleared>>

\* handleTimerTick(): the count, when it is too long ago.
TimerTick ==
    /\ holdsRepeated /\ LockFree /\ HasCount
    /\ tick' = TRUE
    /\ counting' = [text |-> lastText, times |-> skipCount]
    /\ UNCHANGED <<boundVars, record, spool, flushVars, callVars, lastText, skipCount, written,
                   failed, cleared>>

TickEnds ==
    /\ tick /\ tick' = FALSE
    /\ \/ /\ Counted(TRUE)
          /\ skipCount' = 0 /\ printFailures' = printFailures
       \/ /\ printFailures < MaxFailures /\ printFailures' = printFailures + 1
          /\ UNCHANGED <<written, skipCount>>
    /\ counting' = NoCount
    /\ UNCHANGED <<holdsRepeated, others, record, spool, flushVars, callVars, lastText, failed, cleared>>

PrintersNext ==
    \/ \E text \in Texts : PrintRecord(text)
    \/ Flush("print") \/ Flush("flush") \/ FlushEnds \/ RecordFails \/ Clear \/ Output
    \/ HandleRecord \/ CountPrinted \/ Remember \/ RecordPrinted \/ SkipRecord
    \/ TimerTick \/ TickEnds

-----------------------------------------------------------------------------
\* What was printed, each count standing for as many records, and what is still
\* to be printed.
Expanded == FlattenSeq([i \in DOMAIN written |-> [n \in 1 .. written[i].times |-> written[i].text]])
Waiting == SelectSeq(batch \o spool, LAMBDA r : r # ClearCode)
Accounted == Expanded \o [n \in 1 .. skipCount |-> lastText] \o [i \in DOMAIN Waiting |-> record[Waiting[i]]]
Expected == LET kept == SelectSeq([r \in DOMAIN record |-> r], LAMBDA r : r \notin failed \cup cleared)
            IN [i \in DOMAIN kept |-> record[kept[i]]]

(***************************************************************************)
(* Each record is printed once and in the order of the print() calls, or   *)
(* counted, or still in the spool, except those whose own output failed and *)
(* those cleared: what a failed flush had left comes before newer records.  *)
(* Only the text of a count may be wrong after a failure, as the proxy takes *)
(* a record that was never printed for the last one; a clear() of the proxy *)
(* may come between the count and its reset.  A print() that resolves has    *)
(* left the spool; if its own record failed, an earlier print(), whose flush *)
(* took both, was rejected instead, or flush() or clear() took it.  A record *)
(* that nobody will flush belongs to a print() that was rejected, although   *)
(* it will be printed some day.                                              *)
(***************************************************************************)
SpoolPrintsInOrder ==
    /\ IF ~holdsRepeated \/ (printFailures = 0 /\ cleared = {}) THEN Accounted = Expected
       ELSE cleared = {} => Len(Accounted) = Len(Expected)
    /\ \A r \in resolved : r \notin Range(Waiting) /\ (r \in failed => others > 0 \/ \E q \in rejected : q < r)
    /\ (current = {} /\ flushing = Noone) => Range(Waiting) \subseteq rejected
=============================================================================
