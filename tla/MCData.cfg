CONSTANTS
    Value = {1, 2}
    Capacity = 3
    MaxNodes = 5
    MaxBatch = 2
    Item = {1, 2}
    Priority = {1, 2}
    HeapCapacity = 4
    TextLength = 3
    FieldLength = 5
    PhraseLength = 4
SPECIFICATION Spec
VIEW View
PROPERTIES ImplementsBoundedList ImplementsPriorityBag
INVARIANTS FormatKept NothingLost MergesAgree ErrorsShown ConfigResolved SnapshotFilters ConversionsKeep
CHECK_DEADLOCK FALSE
