SPECIFICATION FairSpec
CONSTANTS
    Tasks = {t1, t2, t3}
    Abortable = {t1, t2}
    TryAcquirers = {t3}
    Counts = {1, 2}
    Posts = {1}
    MaxValue = 2
    InitialValue = 1
    MaxIssued = 3
INVARIANTS PermitsGoInOrder
PROPERTIES EveryAcquireReturns
CHECK_DEADLOCK FALSE
