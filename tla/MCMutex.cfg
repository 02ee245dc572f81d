SPECIFICATION FairSpec
CONSTANTS
    Tasks = {t1, t2, t3, t4}
    Abortable = {t1, t2, t3, t4}
INVARIANTS MutualExclusion NoWaitOnFreeLock FifoAcquisition
PROPERTIES LostToAbortedOnly EveryLockReturns
CHECK_DEADLOCK FALSE
