SPECIFICATION Spec
CONSTANTS
    Tasks = {t1, t2, t3, t4}
    Abortable = {t1, t2}
    Owners = {"counter", "latch", "barrier"}
    Count = 3
    Values <- Numbers
INVARIANTS NoWaiterAtTarget BarrierCountsItsRound
PROPERTIES BarrierOpensForAll
CHECK_DEADLOCK FALSE
