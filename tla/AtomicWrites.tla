----------------------------- MODULE AtomicWrites -----------------------------
(***************************************************************************)
(* writeFileAtomic() (node/fs): calls for the same file that overlap, each  *)
(* with a temporary file of its own, system calls that fail and processes   *)
(* that end between two of them.  A file is {} when there is none, and      *)
(* {content} otherwise; a content is the sequence of the pieces written.    *)
(***************************************************************************)
EXTENDS Integers, SequencesExt

CONSTANTS
    Writers,        \* the calls; what each of them writes is its own name
    MaxFaults       \* bound: system calls that fail, and crashes

VARIABLES
    file, tmp,      \* the file, and the temporary file of each call
    flag,           \* of each call: "w", "wx", or "a"
    step,           \* of each call: the system call it comes to next, or how it ended
    faults,
    before,         \* history: the file when the call began,
    alone,          \*   has no other call run since then?
    copied          \*   did the call that appends copy the file?

atomicVars == <<file, tmp, flag, step, faults, before, alone, copied>>

Running == {"stat", "copy", "chmod", "write", "unlink", "rename", "clean", "cleanAfterError"}
Lost == {"crashedBeforeRename", "renameFailed"}

AtomicInit ==
    /\ file \in {{}, {<<"old">>}}
    /\ tmp = [w \in Writers |-> {}]
    /\ flag = [w \in Writers |-> "w"]
    /\ step = [w \in Writers |-> "idle"]
    /\ faults = 0
    /\ before = [w \in Writers |-> {}]
    /\ alone = [w \in Writers |-> TRUE]
    /\ copied = [w \in Writers |-> FALSE]

Goes(w, next) == step' = [step EXCEPT ![w] = next]
SetTmp(w, f) == tmp' = [tmp EXCEPT ![w] = f]
Fails == faults < MaxFaults /\ faults' = faults + 1
Works == faults' = faults
History == <<flag, before, alone>>

Call(w, f) ==
    /\ step[w] = "idle"
    /\ Goes(w, "stat")
    /\ flag' = [flag EXCEPT ![w] = f]
    /\ before' = [before EXCEPT ![w] = file]
    /\ LET others == {v \in Writers \ {w} : step[v] \in Running} IN
       alone' = [v \in Writers |-> IF v = w THEN others = {} ELSE alone[v] /\ v \notin others]
    /\ UNCHANGED <<file, tmp, faults, copied>>

\* stat(): a file that cannot be seen is one that does not exist.
Stat(w) ==
    /\ step[w] = "stat"
    /\ \E seen \in BOOLEAN :
        /\ IF seen = (file # {}) THEN Works ELSE ~seen /\ Fails
        /\ Goes(w, IF flag[w] = "wx" /\ seen THEN "exists"
                   ELSE IF flag[w] = "a" THEN "copy" ELSE "write")
    /\ UNCHANGED <<file, tmp, copied, History>>

\* Variant: the old content is not copied.
CopyNothing(w) ==
    /\ step[w] = "copy"
    /\ Goes(w, "write")
    /\ copied' = [copied EXCEPT ![w] = TRUE]
    /\ UNCHANGED <<file, tmp, faults, History>>

\* copyFile(): whatever fails is ignored, and the content is written alone.
Copy(w) ==
    /\ step[w] = "copy"
    /\ \/ Works /\ file # {} /\ Goes(w, "chmod") /\ SetTmp(w, file)
          /\ copied' = [copied EXCEPT ![w] = TRUE]
       \/ Works /\ file = {} /\ Goes(w, "write") /\ UNCHANGED <<tmp, copied>>
       \/ Fails /\ Goes(w, "write") /\ UNCHANGED <<tmp, copied>>
    /\ UNCHANGED <<file, History>>

\* chmod() of the copy: when it fails the copy is removed.
Chmod(w) ==
    /\ step[w] = "chmod"
    /\ Goes(w, "write")
    /\ \/ Works /\ UNCHANGED <<tmp, copied>>
       \/ Fails /\ SetTmp(w, {}) /\ copied' = [copied EXCEPT ![w] = FALSE]
    /\ UNCHANGED <<file, History>>

\* writeFile() of the temporary file, which nobody removes when it fails.
WriteTmp(w) ==
    LET content == IF tmp[w] = {} THEN <<>> ELSE CHOOSE c \in tmp[w] : TRUE IN
    /\ step[w] = "write"
    /\ \/ Works /\ SetTmp(w, {Append(content, w)}) /\ Goes(w, "unlink")
       \/ Fails /\ SetTmp(w, {Append(content, "half")}) /\ Goes(w, "writeFailed")
    /\ UNCHANGED <<file, copied, History>>

\* unlink() of the file, which need not exist.
Unlink(w) ==
    /\ step[w] = "unlink"
    /\ \/ Works /\ file' = {} /\ Goes(w, "rename")
       \/ Fails /\ file' = file /\ Goes(w, "cleanAfterError")
    /\ UNCHANGED <<tmp, copied, History>>

Rename(w) ==
    /\ step[w] = "rename"
    /\ \/ Works /\ file' = tmp[w] /\ SetTmp(w, {}) /\ Goes(w, "clean")
       \/ Fails /\ Goes(w, "renameFailed") /\ SetTmp(w, {}) /\ UNCHANGED file
    /\ UNCHANGED <<copied, History>>

\* finally: unlink() of the temporary file (in the same step after a rename that failed).
Clean(w) ==
    /\ step[w] \in {"clean", "cleanAfterError"}
    /\ Goes(w, IF step[w] = "clean" THEN "done" ELSE "unlinkFailed")
    /\ SetTmp(w, {})
    /\ UNCHANGED <<file, faults, copied, History>>

Crash(w) ==
    /\ step[w] \in Running
    /\ Fails
    /\ Goes(w, IF step[w] = "rename" THEN "crashedBeforeRename" ELSE "crashed")
    /\ UNCHANGED <<file, tmp, copied, History>>

AtomicNext ==
    \E w \in Writers :
        \/ \E f \in {"w", "wx", "a"} : Call(w, f)
        \/ Stat(w) \/ Copy(w) \/ Chmod(w) \/ WriteTmp(w) \/ Unlink(w) \/ Rename(w) \/ Clean(w)
        \/ Crash(w)

-----------------------------------------------------------------------------
(***************************************************************************)
(* The file is whole at any time, or missing: then no call has ever begun   *)
(* with a file or completed, or one is between its unlink() and its         *)
(* rename(), has crashed there, or its rename() failed.  A temporary file   *)
(* is left only by a crash or a writeFile() that failed.  A call that no    *)
(* other one overlapped leaves what its flag says: the content alone, or    *)
(* after the old one, unless the copy failed; "wx" finds no file, unless    *)
(* stat() failed.                                                           *)
(***************************************************************************)
WholeOrLost ==
    /\ \A content \in file : \A i \in DOMAIN content : content[i] # "half"
    /\ file = {} =>
        \/ \A w \in Writers : before[w] = {} /\ step[w] # "done"
        \/ \E w \in Writers : step[w] \in Lost \cup {"rename"}
    /\ \A w \in Writers :
        /\ tmp[w] # {} => step[w] \notin {"done", "exists", "unlinkFailed", "renameFailed"}
        /\ step[w] = "clean" /\ alone[w] =>
            file = IF flag[w] # "a" \/ before[w] = {} \/ ~copied[w] THEN {<<w>>}
                   ELSE {Append(content, w) : content \in before[w]}
        /\ step[w] = "clean" /\ alone[w] /\ faults = 0 =>
            /\ flag[w] = "wx" => before[w] = {}
            /\ flag[w] = "a" /\ before[w] # {} => copied[w]
=============================================================================
