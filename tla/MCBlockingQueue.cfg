SPECIFICATION QueueFairSpec
CONSTANTS
    Tasks = {t1, t2}
    MaxValue = 2
    InitialValue = 2
    EnqueueAbortable = {t1}
    Sizes = {1, 2}
    MaxItems = 4
INVARIANTS QueueKeepsItems
PROPERTIES EveryEnqueueReturns
CHECK_DEADLOCK FALSE
