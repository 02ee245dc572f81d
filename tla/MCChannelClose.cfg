SPECIFICATION ChannelSpec
CONSTANTS
    Tasks = {t1, t2}
    EntryAbortable = {}
    WaitAbortable = {}
    Capacities = {0}
    MaxAborts = 0
    MayClose = TRUE
    MaxMessages = 1
SYMMETRY TaskSymmetry
INVARIANT CloseRejectsReceivers
CHECK_DEADLOCK FALSE
