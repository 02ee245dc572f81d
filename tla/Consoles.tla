------------------------------ MODULE Consoles ------------------------------
(***************************************************************************)
(* The calls of a LoggerConsole (app-util, logger): what they remember of   *)
(* counters, timers and groups, and the records they print with a           *)
(* TextStreamPrinter, whose print() and clear() they do not wait for.       *)
(***************************************************************************)
EXTENDS Integers, Sequences, SequencesExt

CONSTANTS
    Labels,         \* of counters, timers and groups; "" is one
    MaxConsoleCalls \* bound

NoLabel == "no label"

VARIABLES
    countMap, timerTable, groupStack,
    unspooled,      \* the records whose print() waits for spoolLock, in order,
    clearing,       \*   how many clear() of the printer wait for flushLock,
    output,         \*   and the records spooled since the last of those that went on
    overtaken,      \* history: has it cleared records that were printed after its call?
    consoleCalls    \*   the calls, [name, label]

recordVars == <<unspooled, clearing, output, overtaken>>
consoleVars == <<countMap, timerTable, groupStack, recordVars, consoleCalls>>

ConsoleInit ==
    /\ countMap = [l \in Labels |-> 0] /\ timerTable = {} /\ groupStack = <<>>
    /\ unspooled = <<>> /\ clearing = 0 /\ output = <<>> /\ overtaken = FALSE
    /\ consoleCalls = <<>>

\* How many clear() were called; a record bears how many came before it.
Clears == Len(SelectSeq(consoleCalls, LAMBDA c : c.name = "clear"))

\* print(): the record bears the label of the group that is open, if it is not "".
GroupLabel == IF groupStack = <<>> \/ Last(groupStack) = "" THEN NoLabel ELSE Last(groupStack)
Record(logLevel, group, label, value) ==
    [logLevel |-> logLevel, group |-> group, label |-> label, value |-> value, clears |-> Clears]
PrintAll(records) ==
    unspooled' = unspooled \o records /\ UNCHANGED <<clearing, output, overtaken>>
Logged(logLevel, label, value) == PrintAll(<<Record(logLevel, GroupLabel, label, value)>>)

Called(name, label) ==
    /\ Len(consoleCalls) < MaxConsoleCalls
    /\ consoleCalls' = Append(consoleCalls, [name |-> name, label |-> label])

\* log(), debug(), info(), warn(), error(), dir(), dirxml(), table() and trace() print
\* what they are given; assert() does if its condition does not hold.
LogCall(logLevel) ==
    /\ Called("log", "")
    /\ Logged(logLevel, NoLabel, 0)
    /\ UNCHANGED <<countMap, timerTable, groupStack>>

AssertCall(condition) ==
    /\ Called("assert", "")
    /\ IF condition THEN UNCHANGED recordVars ELSE Logged("error", NoLabel, 0)
    /\ UNCHANGED <<countMap, timerTable, groupStack>>

CountCall(label) ==
    /\ Called("count", label)
    /\ countMap' = [countMap EXCEPT ![label] = @ + 1]
    /\ Logged("info", label, countMap'[label])
    /\ UNCHANGED <<timerTable, groupStack>>

CountReset(label) ==
    /\ Called("countReset", label)
    /\ countMap' = [countMap EXCEPT ![label] = 0]
    /\ IF countMap[label] > 0 THEN UNCHANGED recordVars ELSE Logged("warning", label, 0)
    /\ UNCHANGED <<timerTable, groupStack>>

\* group() and groupCollapsed()
Group(label) ==
    /\ Called("group", label)
    /\ groupStack' = Append(groupStack, label)
    /\ PrintAll(<<Record("start", NoLabel, label, 0)>>)
    /\ UNCHANGED <<countMap, timerTable>>

EndOf(label) == Record("end", NoLabel, label, 0)

GroupEnd ==
    /\ Called("groupEnd", "")
    /\ IF groupStack = <<>> THEN UNCHANGED <<groupStack, recordVars>>
       ELSE /\ groupStack' = Front(groupStack)
            /\ PrintAll(<<EndOf(Last(groupStack))>>)
    /\ UNCHANGED <<countMap, timerTable>>

Time(label) ==
    /\ Called("time", label)
    /\ timerTable' = timerTable \cup {label}
    /\ IF label \in timerTable THEN Logged("warning", label, 0) ELSE UNCHANGED recordVars
    /\ UNCHANGED <<countMap, groupStack>>

TimeLog(label) ==
    /\ Called("timeLog", label)
    /\ Logged(IF label \in timerTable THEN "debug" ELSE "warning", label, 0)
    /\ UNCHANGED <<countMap, timerTable, groupStack>>

TimeEnd(label) ==
    /\ Called("timeEnd", label)
    /\ timerTable' = timerTable \ {label}
    /\ Logged(IF label \in timerTable THEN "info" ELSE "warning", label, 0)
    /\ UNCHANGED <<countMap, groupStack>>

\* Both clear() of the console: it calls the printer's last.
Cleared ==
    /\ Called("clear", "")
    /\ countMap' = [l \in Labels |-> 0] /\ timerTable' = {}
    /\ clearing' = clearing + 1 /\ overtaken' = FALSE
    /\ UNCHANGED output

\* Variant: the groups stay open.
ClearKeepsGroups == Cleared /\ UNCHANGED <<groupStack, unspooled>>

\* clear() ends the groups, the innermost first.
Clear ==
    /\ Cleared
    /\ groupStack' = <<>>
    /\ unspooled' = unspooled \o [i \in DOMAIN groupStack |-> EndOf(Reverse(groupStack)[i])]

\* The printer's print() and clear() await different locks, so that neither waits
\* for the other: a record goes to the spool,
RecordSpooled ==
    /\ unspooled # <<>>
    /\ output' = Append(output, Head(unspooled)) /\ unspooled' = Tail(unspooled)
    /\ UNCHANGED <<countMap, timerTable, groupStack, clearing, overtaken, consoleCalls>>

\* and the spool and what is shown are cleared.
PrinterClears ==
    /\ clearing > 0 /\ clearing' = clearing - 1
    /\ output' = <<>>
    /\ overtaken' = (overtaken \/ \E r \in ToSet(output) : r.clears = Clears)
    /\ UNCHANGED <<countMap, timerTable, groupStack, unspooled, consoleCalls>>

ConsoleNext ==
    \/ LogCall("debug") \/ AssertCall(FALSE) \/ AssertCall(TRUE) \/ GroupEnd \/ Clear
    \/ RecordSpooled \/ PrinterClears
    \/ \E l \in Labels :
        CountCall(l) \/ CountReset(l) \/ Group(l) \/ Time(l) \/ TimeLog(l) \/ TimeEnd(l)

-----------------------------------------------------------------------------
\* What is shown once every record that was printed is.
Shown == output \o unspooled

\* The groups that a reader of the first n records takes to be open, who knows that
\* the start of a group may have been cleared and its end not.
OpenGroups ==
    LET Open[n \in 0 .. Len(Shown)] ==
        IF n = 0 THEN <<>>
        ELSE CASE Shown[n].logLevel = "start" -> Append(Open[n - 1], Shown[n].label)
               [] Shown[n].logLevel = "end" ->
                    IF Open[n - 1] = <<>> THEN <<>>
                    ELSE IF Last(Open[n - 1]) = Shown[n].label THEN Front(Open[n - 1])
                    ELSE <<NoLabel>>
               [] OTHER -> Open[n - 1]
    IN Open

\* The counts that are shown of a label, and the calls since the last one p picks.
CountsShown(label) == SelectSeq(Shown, LAMBDA r : r.label = label /\ r.value > 0)
CallsSince(p(_)) ==
    LET ends == {0} \cup {i \in DOMAIN consoleCalls : p(consoleCalls[i])}
    IN SubSeq(consoleCalls, (CHOOSE i \in ends : \A j \in ends : j <= i) + 1, Len(consoleCalls))

(***************************************************************************)
(* What is shown tells the state: the groups that a reader finds open are   *)
(* those of the stack, each "end" closing the innermost; a record bears the *)
(* label of the innermost group that is open where it stands; and the last  *)
(* count shown of a label is the number of count() calls since its          *)
(* countReset(), or since clear().  Records printed before a clear() may be *)
(* shown after it, and then bear the label of a group whose start is gone;  *)
(* and if a clear() went on so late that it took records printed after its  *)
(* call, what is shown tells nothing until the next.                        *)
(***************************************************************************)
OutputTellsGroups ==
    ~overtaken =>
      /\ OpenGroups[Len(Shown)] = groupStack
      /\ \A n \in DOMAIN Shown : Shown[n].logLevel \notin {"start", "end"} /\ Shown[n].clears = Clears =>
          LET open == OpenGroups[n] IN
          Shown[n].group = IF open = <<>> \/ Last(open) = "" THEN NoLabel ELSE Last(open)
      /\ \A l \in Labels :
          LET since == CallsSince(LAMBDA c : c.name = "clear" \/ (c.name = "countReset" /\ c.label = l))
              counts == {i \in DOMAIN since : since[i].name = "count" /\ since[i].label = l}
          IN counts # {} => /\ CountsShown(l) # <<>>
                            /\ Last(CountsShown(l)).value = Cardinality(counts)
=============================================================================
