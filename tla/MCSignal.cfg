SPECIFICATION FairSpec
CONSTANTS
    Tasks = {t1, t2, t3}
    Abortable = {t1, t2}
    Modes = {TRUE, FALSE}
    MaxSignals = 2
INVARIANTS WaitersReleased
PROPERTIES SignalLostToAbortedOnly EveryWaitReturns
