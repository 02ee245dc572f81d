SPECIFICATION Spec
CONSTANTS
    Tasks = {t1, t2, t3}
    WaitAbortable = {t1, t2, t3}
    TryLockers = {t3}
PROPERTIES ImplementsMonitor SignalWakesATask
CHECK_DEADLOCK FALSE
