SPECIFICATION Spec
CONSTANTS
    Tasks = {t1, t2, t3}
    Abortable = {t2}
INVARIANTS LockedIsOwned
