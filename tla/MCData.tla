--------------------------------- MODULE MCData ---------------------------------
(* The collections of data/ - a list of each class, or a priority queue -  *)
(* and the calls of the functions that keep no state.                      *)
EXTENDS Lists

CONSTANTS Item, Priority, HeapCapacity, TextLength, FieldLength, PhraseLength

VARIABLES used, data, places, heapCall, given, pending, unordered, input, result

H == INSTANCE Heaps
Fn == INSTANCE AlgorithmCalls

heapVars == <<data, places, heapCall, given, pending, unordered>>
algorithmVars == <<input, result>>
vars == <<used, listVars, heapVars, algorithmVars>>

\* A list of the class "kind" is used, or the heap, or a function is called.
Init ==
    /\ used \in {"list", "heap", "function"}
    /\ ListInit
    /\ used = "list" \/ (kind = "LinkedList" /\ items = <<>>)
    /\ H!HeapInit
    /\ used = "heap" \/ data = <<>>
    /\ IF used = "function" THEN Fn!AlgorithmsInit
       ELSE input = [call |-> "none"] /\ result = Fn!NoResult

ListStep == used = "list" /\ ListNext /\ UNCHANGED <<used, heapVars, algorithmVars>>
HeapStep == used = "heap" /\ H!HeapNext /\ UNCHANGED <<used, listVars, algorithmVars>>
FunctionStep ==
    used = "function" /\ Fn!AlgorithmsNext /\ UNCHANGED <<used, listVars, heapVars>>

Next == ListStep \/ HeapStep \/ FunctionStep

\* What the next calls depend on; the last one is there for the properties.
View == <<used, kind, list, permits, waiting, reserved, upset, data, places, pending, unordered,
          input, result>>

Spec == Init /\ [][Next]_vars

List == INSTANCE BoundedList WITH Calls <- Calls \cup DequeCalls
BagOfData ==
    [e \in ToSet(data) |-> Cardinality({i \in DOMAIN data : data[i] = e})]

Bag == INSTANCE PriorityBag WITH
    Capacity <- HeapCapacity, bag <- BagOfData, call <- heapCall, returned <- given,
    reserved <- IF pending.at = "granted" THEN Len(pending.new) ELSE 0,
    unordered <- unordered \/ H!Placed

(***************************************************************************)
(* Every call of LinkedList, DoublyLinkedList, NativeArray, Deque and      *)
(* Stack does to the items, returns and throws what the interfaces say,    *)
(* and a call that waits does so for the position it was given, whatever   *)
(* happened meanwhile, but for the cases of GoesWrong.                     *)
(***************************************************************************)
ImplementsBoundedList == List!Spec

(***************************************************************************)
(* Every call of PriorityQueue and BinaryHeap takes out an element that    *)
(* none comes before, keeps the others, and refuses what does not fit;     *)
(* which element it is may be wrong only while elements that were put in    *)
(* have not been moved up, or after they never were: the others of one call, *)
(* those of a waitInsert() whose index had changed or that another call      *)
(* moved before it went on.                                                *)
(***************************************************************************)
ImplementsPriorityBag == Bag!Spec

\* A text file writer gives a file the line ends, the final newline and the
\* trailing blanks that were asked for, and readTextFile()'s kin find its data
\* and its line ends, but for named cases (Formatting).
FormatKept == Fn!FormatKept

\* A walk that replaces and removes entries loses none of the changes, but
\* for those that collide (Traversal).
NothingLost == Fn!NothingLost

\* deepMerge() and deepMergeInplace() agree, with cloneSource nothing of the source
\* is shared with the result, and a second merge into it writes to the first source
\* only if it is shared (Merging).
MergesAgree == Fn!MergesAgree

\* The walks over errors and objects that refer to one another end and show
\* all of them, but on named cycles (Traversal).
ErrorsShown == Fn!ErrorsShown

\* A configuration gets what it extends, each module once (Merging).
ConfigResolved == Fn!ConfigResolved

\* A process list has the processes that its filters ask for, and a git
\* status line is split where it should be, but for named cases (Processes).
SnapshotFilters == Fn!SnapshotFilters

\* Short texts fit where they are put, environment variables and HTTP fields
\* are read back as they were written, but for named cases (Formatting).
ConversionsKeep == Fn!ConversionsKeep
=============================================================================
