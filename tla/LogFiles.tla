------------------------------ MODULE LogFiles ------------------------------
(***************************************************************************)
(* Log files of one directory (app-util): a FilePrinter for each log, the  *)
(* rotation it runs after every call, rotateLogFiles(), and the             *)
(* compressFile() of misc-util.  The process may crash and start again.     *)
(* A rotated file of the log l is named l.0, l.1, ..., and l.1.gz when it   *)
(* is compressed; "old-log.0" also contains the name "log.0".               *)
(***************************************************************************)
EXTENDS Integers, Sequences, FiniteSets

CONSTANTS
    Logs,               \* "log" and "old-log"
    CutOff,             \* cutOffFileSize, in records,
    MaxRetained,        \*   and maxRetainedFiles
    MaxCalls, MaxBreaks     \* bounds: calls; failures and crashes

NoFile == 0
Now == -1       \* the number of the file a log is written to

VARIABLES
    files,          \* names in the directory -> files
    contents,       \* files -> how many records they hold
    fileStream, textStreamPrinter,  \* of each FilePrinter: the file they write to
    task,           \* the task that holds its streamPrinterLock,
    writer,         \*   and the textStreamPrinter that a print() got
    lateCloses,     \* the "close" events still to come
    rotation, again,    \* how far handleRotation() is, and is it called once more?
    oldFiles,       \* the files it has read from the directory
    calls, breaks,
    expired, overlapped     \* history: the files that were removed because they were
                    \*   old; did two rotations meet?

logVars == <<files, contents, fileStream, textStreamPrinter, task, writer, lateCloses, rotation,
             again, oldFiles, calls, breaks, expired, overlapped>>
fileVars == <<files, contents>>
streamVars == <<fileStream, textStreamPrinter, writer, lateCloses>>
historyVars == <<expired, overlapped>>

Numbered(l, n, c) == [log |-> l, number |-> n, compressed |-> c]
Current(l) == Numbered(l, Now, FALSE)
Exists(name) == name \in DOMAIN files

LogInit ==
    /\ files = [name \in {} |-> NoFile]
    /\ contents = <<>>
    /\ fileStream = [l \in Logs |-> NoFile] /\ textStreamPrinter = fileStream
    /\ task = [l \in Logs |-> "none"] /\ writer = fileStream
    /\ lateCloses = [l \in Logs |-> 0]
    /\ rotation = [l \in Logs |-> "idle"] /\ again = [l \in Logs |-> FALSE]
    /\ oldFiles = [l \in Logs |-> {}]
    /\ calls = 0 /\ breaks = 0
    /\ expired = {} /\ overlapped = FALSE

SetTask(l, t) == task' = [task EXCEPT ![l] = t]
SetRotation(l, r) == rotation' = [rotation EXCEPT ![l] = r]
Fault == breaks < MaxBreaks /\ breaks' = breaks + 1
Rename(from, to) ==
    files' = [name \in (DOMAIN files \ {from}) \cup {to} |-> IF name = to THEN files[from] ELSE files[name]]
Unlink(name) == files' = [other \in DOMAIN files \ {name} |-> files[other]]

\* serializeQueueNext(): a call while handleRotation() runs lets it run once more.
CallRotation(l) ==
    IF rotation[l] = "idle" THEN SetRotation(l, "stat") /\ again' = again
    ELSE again' = [again EXCEPT ![l] = TRUE] /\ rotation' = rotation
EndRotation(l) ==
    /\ SetRotation(l, IF again[l] THEN "stat" ELSE "idle")
    /\ again' = [again EXCEPT ![l] = FALSE]

-----------------------------------------------------------------------------
\* print(): with the lock, it opens the file for appending unless it is open,
PrintRecord(l) ==
    /\ task[l] = "none" /\ calls < MaxCalls
    /\ calls' = calls + 1
    /\ IF textStreamPrinter[l] = NoFile /\ fileStream[l] = NoFile
       THEN SetTask(l, "opening") /\ UNCHANGED <<textStreamPrinter, writer>>
       ELSE LET f == IF textStreamPrinter[l] # NoFile THEN textStreamPrinter[l] ELSE fileStream[l] IN
            /\ SetTask(l, "writing")
            /\ textStreamPrinter' = [textStreamPrinter EXCEPT ![l] = f]
            /\ writer' = [writer EXCEPT ![l] = f]
    /\ UNCHANGED <<fileVars, fileStream, lateCloses, rotation, again, oldFiles, breaks, historyVars>>

StreamOpens(l) ==
    /\ task[l] = "opening"
    /\ LET new == ~Exists(Current(l))
           f == IF new THEN Len(contents) + 1 ELSE files[Current(l)] IN
        /\ files' = [name \in DOMAIN files \cup {Current(l)} |-> IF name = Current(l) THEN f ELSE files[name]]
        /\ contents' = IF new THEN Append(contents, 0) ELSE contents
        /\ fileStream' = [fileStream EXCEPT ![l] = f]
        /\ textStreamPrinter' = [textStreamPrinter EXCEPT ![l] = f]
        /\ writer' = [writer EXCEPT ![l] = f]
    /\ SetTask(l, "writing")
    /\ UNCHANGED <<lateCloses, rotation, again, oldFiles, calls, breaks, historyVars>>

\* and writes the record,
Write(l) ==
    /\ task[l] = "writing"
    /\ contents' = [contents EXCEPT ![writer[l]] = @ + 1]
    /\ SetTask(l, "none")
    /\ CallRotation(l)
    /\ UNCHANGED <<files, streamVars, oldFiles, calls, breaks, historyVars>>

\* which may fail: the stream destroys itself, and its "close" event comes later.
WriteFails(l) ==
    /\ task[l] = "writing" /\ Fault
    /\ lateCloses' = [lateCloses EXCEPT ![l] = @ + 1]
    /\ SetTask(l, "none")
    /\ UNCHANGED <<fileVars, fileStream, textStreamPrinter, writer, rotation, again, oldFiles,
                   calls, historyVars>>

\* close(): with the lock, end() of the stream; a rotation follows.
Close(l) ==
    /\ task[l] = "none" /\ fileStream[l] # NoFile /\ calls < MaxCalls
    /\ calls' = calls + 1
    /\ textStreamPrinter' = [textStreamPrinter EXCEPT ![l] = NoFile]
    /\ fileStream' = [fileStream EXCEPT ![l] = NoFile]
    /\ lateCloses' = [lateCloses EXCEPT ![l] = @ + 1]
    /\ CallRotation(l)
    /\ UNCHANGED <<fileVars, task, writer, oldFiles, breaks, historyVars>>

\* "close" of a stream: the fields are reset, whichever stream they hold by now.
CloseEvent(l) ==
    /\ lateCloses[l] > 0
    /\ lateCloses' = [lateCloses EXCEPT ![l] = @ - 1]
    /\ fileStream' = [fileStream EXCEPT ![l] = NoFile]
    /\ textStreamPrinter' = [textStreamPrinter EXCEPT ![l] = NoFile]
    /\ UNCHANGED <<fileVars, task, writer, rotation, again, oldFiles, calls, breaks, historyVars>>

-----------------------------------------------------------------------------
\* handleRotation(): is the file there, and too large?
StatFile(l) ==
    /\ rotation[l] = "stat"
    /\ IF Exists(Current(l)) /\ contents[files[Current(l)]] >= CutOff
       THEN SetRotation(l, "locking") /\ again' = again
       ELSE EndRotation(l)
    /\ UNCHANGED <<fileVars, streamVars, task, oldFiles, calls, breaks, historyVars>>

\* Variant: the ".gz" is not optional.
CompressedFiles(l) ==
    {name \in DOMAIN files : name.compressed /\ name.number # Now /\ (name.log = l \/ l = "log")}

\* rotateLogFiles(), with the lock: the names that contain that of the log and a
\* number,
OldFiles(l) == {name \in DOMAIN files : name.number # Now /\ (name.log = l \/ l = "log")}

ReadDirectory(l) ==
    /\ rotation[l] = "locking" /\ task[l] = "none"
    /\ IF Exists(Current(l))
       THEN /\ SetTask(l, "rotating") /\ SetRotation(l, "renaming")
            /\ oldFiles' = [oldFiles EXCEPT ![l] = OldFiles(l)]
       ELSE SetRotation(l, "compress") /\ UNCHANGED <<task, oldFiles>>
    /\ UNCHANGED <<fileVars, streamVars, again, calls, breaks, historyVars>>

NextOldFiles(names) == {name \in names : \A other \in names : other.number <= name.number}

Meets(l) ==
    overlapped' = (overlapped \/ \E k \in Logs \ {l} :
                    rotation[k] \in {"renaming", "compress", "compressing", "unlinking"})

\* the highest first, are renamed to the next number, or removed,
RenameOldFile(l) ==
    /\ rotation[l] = "renaming"
    /\ \E name \in NextOldFiles(oldFiles[l]) :
        /\ Exists(name)
        /\ oldFiles' = [oldFiles EXCEPT ![l] = @ \ {name}]
        /\ \/ /\ name.number + 1 > MaxRetained
              /\ Unlink(name)
              /\ expired' = expired \cup {files[name]}
           \/ Rename(name, [name EXCEPT !.number = @ + 1]) /\ expired' = expired
    /\ Meets(l)
    /\ UNCHANGED <<contents, streamVars, task, rotation, again, calls, breaks>>

\* unless another rotation has moved them;
FileIsMissing(l) ==
    /\ rotation[l] = "renaming"
    /\ \/ \E name \in NextOldFiles(oldFiles[l]) : ~Exists(name)
       \/ oldFiles[l] = {} /\ ~Exists(Current(l))
    /\ SetTask(l, "none") /\ EndRotation(l)
    /\ oldFiles' = [oldFiles EXCEPT ![l] = {}]
    /\ UNCHANGED <<fileVars, streamVars, calls, breaks, historyVars>>

\* then the file itself gets the number 0.  Its stream stays as it is.
RenameCurrent(l) ==
    /\ rotation[l] = "renaming" /\ oldFiles[l] = {} /\ Exists(Current(l))
    /\ Rename(Current(l), Numbered(l, 0, FALSE))
    /\ SetTask(l, "none") /\ SetRotation(l, "compress")
    /\ Meets(l)
    /\ UNCHANGED <<contents, streamVars, again, oldFiles, calls, breaks, expired>>

\* compressFile() of the file with the number 1: the compressed file is written,
Compress(l) ==
    /\ rotation[l] = "compress"
    /\ \/ /\ Exists(Numbered(l, 1, FALSE))
          /\ SetRotation(l, "compressing") /\ again' = again
          /\ files' = [name \in DOMAIN files \cup {Numbered(l, 1, TRUE)} |->
                        IF name = Numbered(l, 1, TRUE) THEN NoFile ELSE files[name]]
          /\ oldFiles' = [oldFiles EXCEPT ![l] = {files[Numbered(l, 1, FALSE)]}]
       \/ EndRotation(l) /\ UNCHANGED <<files, oldFiles>>
    /\ UNCHANGED <<contents, streamVars, task, calls, breaks, historyVars>>

CompressedFileWritten(l) ==
    /\ rotation[l] = "compressing"
    /\ SetRotation(l, "unlinking")
    /\ IF Exists(Numbered(l, 1, TRUE))
       THEN files' = [files EXCEPT ![Numbered(l, 1, TRUE)] = CHOOSE f \in oldFiles[l] : TRUE]
       ELSE files' = files
    /\ oldFiles' = [oldFiles EXCEPT ![l] = {}]
    /\ Meets(l)
    /\ UNCHANGED <<contents, streamVars, task, again, calls, breaks, expired>>

\* and the other removed.
UnlinkSource(l) ==
    /\ rotation[l] = "unlinking"
    /\ IF Exists(Numbered(l, 1, FALSE)) THEN Unlink(Numbered(l, 1, FALSE)) ELSE files' = files
    /\ EndRotation(l)
    /\ Meets(l)
    /\ UNCHANGED <<contents, streamVars, task, oldFiles, calls, breaks, expired>>

\* An error of the stream that reads is heard by nobody: the promise never settles.
ReadFails(l) ==
    /\ rotation[l] = "compressing" /\ Fault
    /\ SetRotation(l, "stuck")
    /\ UNCHANGED <<fileVars, streamVars, task, again, oldFiles, calls, historyVars>>

\* The process crashes, and another one starts.
Crash ==
    /\ Fault
    /\ fileStream' = [l \in Logs |-> NoFile] /\ textStreamPrinter' = fileStream'
    /\ writer' = fileStream' /\ lateCloses' = [l \in Logs |-> 0]
    /\ task' = [l \in Logs |-> "none"]
    /\ rotation' = [l \in Logs |-> "idle"] /\ again' = [l \in Logs |-> FALSE]
    /\ oldFiles' = [l \in Logs |-> {}]
    /\ UNCHANGED <<fileVars, calls, historyVars>>

LogNext ==
    \/ \E l \in Logs :
        \/ PrintRecord(l) \/ StreamOpens(l) \/ Write(l) \/ WriteFails(l)
        \/ Close(l) \/ CloseEvent(l)
        \/ StatFile(l) \/ ReadDirectory(l)
        \/ RenameOldFile(l) \/ FileIsMissing(l) \/ RenameCurrent(l)
        \/ Compress(l) \/ CompressedFileWritten(l) \/ UnlinkSource(l) \/ ReadFails(l)
    \/ Crash

-----------------------------------------------------------------------------
(***************************************************************************)
(* No record that was written is lost, whenever the process crashes: it is *)
(* in a file that still has a name, or in one that was removed because it   *)
(* was old.  A file of a higher number is older than one of a lower number, *)
(* if both hold records of the log.  No record is written to a file that    *)
(* was compressed and removed.  Two rotations at once, of "log" and         *)
(* "old-log", overwrite files of the latter, and compress the file that is  *)
(* still open.                                                              *)
(***************************************************************************)
RecordsKept ==
    overlapped \/
    /\ \A f \in DOMAIN contents \ expired :
        contents[f] > 0 => \E name \in DOMAIN files : files[name] = f
    /\ \A a, b \in DOMAIN files :
        (a.log = b.log /\ a.number < b.number /\ files[b] # NoFile) =>
            files[a] = NoFile \/ files[a] >= files[b]
    /\ \A l \in Logs : task[l] = "writing" =>
        writer[l] \in expired \/ \E name \in DOMAIN files : ~name.compressed /\ files[name] = writer[l]
=============================================================================
