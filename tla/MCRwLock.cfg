SPECIFICATION Spec
CONSTANTS
    Tasks = {t1, t2, t3}
    EntryAbortable = {t1, t2, t3}
    WaitAbortable = {t1, t2, t3}
    Ops = {"readLock", "writeLock", "readToWriteLock", "writeToReadLock", "readUnlock", "writeUnlock"}
    AbortableOps = {"readLock", "writeLock", "readToWriteLock"}
SYMMETRY Symmetry
INVARIANTS WriterExcludesAll WaitsAreJustified
CHECK_DEADLOCK FALSE
