CONSTANTS
    Subs = {s1, s2}
    First = s1
    Own <- FirstOnly
    Senders = {p}
    Receivers = {r1, r2}
    Capacities = {1, 2}
    Messages = {"truthy", "falsy"}
    MaxSends = 2
    MaxAborts = 1
    Holders = {a, b, c}
    Locks = {l1, l2}
    MaxLocks = 2
    MaxFailures = 1
    EventNames = {"e1"}
    Listeners = {f, g}
    Waiters = {w}
    Iterators = {i}
    Priorities = {0, 1}
    MaxSubscriptions = 3
    MaxDispatches = 2
    MaxRunning = 3
    Writers = {"v", "w"}
    MaxFaults = 1
    Here = {"t1", "t2"}
    There = {"t3"}
    MaxCloseFaults = 1
    Instances = {11, 12}
    Pids = {1, 2}
    Logs = {"log", "old-log"}
    CutOff = 1
    MaxRetained = 1
    MaxCalls = 4
    MaxBreaks = 1
    Texts = {"m", "n"}
    MaxCount = 2
    MaxPrints = 4
    MaxOthers = 1
    SocketCalls = {c1, c2, c3}
    MaxErrors = 2
    Labels = {"a", ""}
    MaxConsoleCalls = 4
SPECIFICATION Spec
SYMMETRY Symmetry
INVARIANTS SubscribersGetAll HoldsNeverDeadlock DispatchServesSubscribers TicksGoOn WholeOrLost LocksComeBack PidFileTells RecordsKept SpoolPrintsInOrder ErrorsReported OutputTellsGroups
CHECK_DEADLOCK FALSE
