SPECIFICATION ChannelSpec
CONSTANTS
    Tasks = {t1, t2, t3}
    EntryAbortable = {}
    WaitAbortable = {}
    Capacities = {0, 2}
    MaxAborts = 1
    MayClose = TRUE
    MaxMessages = 3
SYMMETRY TaskSymmetry
INVARIANTS ChannelDelivers
CHECK_DEADLOCK FALSE
