------------------------------- MODULE Broadcast -------------------------------
(***************************************************************************)
(* async/synchro/broadcast.ts: senders that visit every subscriber, and    *)
(* receivers of each subscriber's own queue, which a mutex and a condition *)
(* guard.  What these two do is that of module Monitor, for a monitor per  *)
(* subscriber; a task is at one of them at a time.                         *)
(***************************************************************************)
EXTENDS EcmaArray

CONSTANTS
    Subs,           \* the subscribers, in the order they subscribe
    Senders, Receivers,
    Own,            \* the subscriber of each receiver
    Capacities,     \* the argument of the constructor is one of these
    Messages,       \* what is sent: the values "truthy" and "falsy"
    MaxSends,       \* bound: the calls of send()
    MaxAborts       \* bound: the signals of callers that abort

Tasks == Senders \cup Receivers

ASSUME BroadcastAssumption ==
    /\ Own \in [Receivers -> Subs]
    /\ Senders \cap Receivers = {}
    /\ Capacities \subseteq Nat \ {0}     \* or the constructor throws

VARIABLES
    capacity,
    subscribers,    \* the Set, in its order
    closed,         \* the subscribers whose closeController aborted, or "all"
    messages,       \* of each subscriber: pairs of a number and a value
    lagCount,
    lockedBy,       \* is its mutex taken?
    entry, sleepers,        \* those queued for its mutex and its condition
    at, target,     \* where each task is, and at which subscriber
    message,        \* what each sender sends
    visited,        \* the subscribers its loop is past
    aborted,        \* the tasks whose own signal has aborted
    aborts,
    sends,
    enqueued,       \* history, of each subscriber: the messages put in its queue,
    accounted,      \* those received, reported as missed or dropped,
    latest,         \* the last one received,
    dropped,        \* was a falsy one dropped?
    lost            \* did a signal go to a receiver that had aborted?

subVars == <<capacity, subscribers, closed, messages, lagCount, lockedBy, entry, sleepers>>
taskVars == <<at, target, message, visited, aborted, aborts>>
history == <<sends, enqueued, accounted, latest, dropped, lost>>
broadcastVars == <<subVars, taskVars, history>>

PerSub(v) == [s \in Subs |-> v]
Nobody == CHOOSE s \in Subs : TRUE

BroadcastInit ==
    /\ capacity \in Capacities
    /\ subscribers = <<>> /\ closed = {}
    /\ messages = PerSub(<<>>) /\ lagCount = PerSub(0)
    /\ lockedBy = PerSub(FALSE) /\ entry = PerSub(<<>>) /\ sleepers = PerSub(<<>>)
    /\ at = [p \in Tasks |-> "idle"] /\ target = [p \in Tasks |-> Nobody]
    /\ message = [p \in Senders |-> "truthy"] /\ visited = [p \in Senders |-> {}]
    /\ aborted = {} /\ aborts = 0
    /\ sends = 0 /\ enqueued = PerSub(0) /\ accounted = PerSub(0) /\ latest = PerSub(0)
    /\ dropped = PerSub(FALSE) /\ lost = PerSub(FALSE)

Closed(s) == "all" \in closed \/ s \in closed

-----------------------------------------------------------------------------
Subscribe(s) ==
    /\ "all" \notin closed /\ s \notin closed
    /\ ~Contains(subscribers, s)
    /\ subscribers' = Append(subscribers, s)
    /\ UNCHANGED <<capacity, closed, messages, lagCount, lockedBy, entry, sleepers, taskVars, history>>

\* The signals of tasks at the subscribers in "which" abort: the promises those
\* await reject.
Rejected(who) ==
    [p \in Tasks |-> IF p \notin who THEN at[p]
                     ELSE CASE at[p] = "entering" -> "rejected"
                            [] at[p] = "sleeping" -> "quitting"
                            [] OTHER -> at[p]]

CloseSubscriber(s) ==
    /\ Contains(subscribers, s) /\ ~Closed(s)
    /\ closed' = closed \cup {s}
    /\ at' = Rejected({p \in Tasks : target[p] = s})
    /\ subscribers' = RemoveSafe(subscribers, s)
    /\ UNCHANGED <<capacity, messages, lagCount, lockedBy, entry, sleepers,
                   target, message, visited, aborted, aborts, history>>

Close ==
    /\ "all" \notin closed
    /\ closed' = closed \cup {"all"}
    /\ at' = Rejected(Tasks)
    /\ UNCHANGED <<capacity, subscribers, messages, lagCount, lockedBy, entry, sleepers,
                   target, message, visited, aborted, aborts, history>>

AbortTask(p) ==
    /\ at[p] # "idle" /\ p \notin aborted
    /\ aborts < MaxAborts /\ aborts' = aborts + 1
    /\ aborted' = aborted \cup {p}
    /\ at' = Rejected({p})
    /\ UNCHANGED <<subVars, target, message, visited, history>>

\* Mutex.lock: take the mutex of s, or queue for it.
LockMutex(p, s, queued, inside) ==
    /\ lockedBy' = [lockedBy EXCEPT ![s] = TRUE]
    /\ at' = [at EXCEPT ![p] = IF lockedBy[s] THEN queued ELSE inside]
    /\ entry' = [entry EXCEPT ![s] = IF lockedBy[s] THEN Append(@, p) ELSE @]

\* Mutex.unlock, by a task that is then "next"; "places" is "at" by then.
UnlockMutex(p, s, next, places) ==
    /\ entry' = [entry EXCEPT ![s] = IF @ = <<>> THEN @ ELSE Tail(@)]
    /\ lockedBy' = [lockedBy EXCEPT ![s] = entry[s] # <<>>]
    /\ at' = [q \in Tasks |->
                IF q = p THEN next
                ELSE IF entry[s] = <<>> \/ q # Head(entry[s]) THEN places[q]
                ELSE CASE places[q] = "entering" -> "inside"
                       [] places[q] = "relocking" -> "again"
                       [] places[q] = "failing" -> "failed"
                       [] OTHER -> places[q]]

-----------------------------------------------------------------------------
Send(p, m) ==
    /\ at[p] = "idle" /\ "all" \notin closed /\ sends < MaxSends
    /\ at' = [at EXCEPT ![p] = "looping"]
    /\ message' = [message EXCEPT ![p] = m]
    /\ sends' = sends + 1
    /\ UNCHANGED <<subVars, target, visited, aborted, aborts, enqueued, accounted, latest, dropped, lost>>

Ahead(p) == SelectSeq(subscribers, LAMBDA s : s \notin visited[p])

\* The loop of send() comes to the next subscriber; it is over when there is
\* none, or when the caller's signal has aborted.  A closed subscriber is passed.
SendVisits(p) ==
    /\ at[p] = "looping"
    /\ IF Ahead(p) = <<>> \/ (p \in aborted /\ ~Closed(Head(Ahead(p))))
       THEN /\ at' = [at EXCEPT ![p] = "idle"]
            /\ visited' = [visited EXCEPT ![p] = {}]
            /\ aborted' = aborted \ {p}
            /\ UNCHANGED <<target, lockedBy, entry>>
       ELSE LET s == Head(Ahead(p)) IN
            /\ visited' = [visited EXCEPT ![p] = @ \cup {s}]
            /\ target' = [target EXCEPT ![p] = s]
            /\ UNCHANGED aborted
            /\ IF Closed(s) THEN UNCHANGED <<at, lockedBy, entry>>
               ELSE LockMutex(p, s, "entering", "inside")
    /\ UNCHANGED <<capacity, subscribers, closed, messages, lagCount, sleepers, message, aborts, history>>

\* Condition.signal: the first of the sleepers, if it has not aborted.
Signalled(s) ==
    IF sleepers[s] # <<>> /\ at[Head(sleepers[s])] = "sleeping"
    THEN [at EXCEPT ![Head(sleepers[s])] = "woken"] ELSE at

\* Variant: only the message that ends an empty queue is signalled.
NotifyWhenEmpty(p, s) ==
    IF messages[s] = <<>>
    THEN /\ sleepers' = [sleepers EXCEPT ![s] = IF @ = <<>> THEN @ ELSE Tail(@)]
         /\ lost' = [lost EXCEPT ![s] = @ \/ (sleepers[s] # <<>> /\ Signalled(s) = at)]
         /\ UnlockMutex(p, s, "looping", Signalled(s))
    ELSE UnlockMutex(p, s, "looping", at) /\ UNCHANGED <<sleepers, lost>>

Notify(p, s) ==
    /\ sleepers' = [sleepers EXCEPT ![s] = IF @ = <<>> THEN @ ELSE Tail(@)]
    /\ lost' = [lost EXCEPT ![s] = @ \/ (sleepers[s] # <<>> /\ Signalled(s) = at)]
    /\ UnlockMutex(p, s, "looping", Signalled(s))

\* enqueue() in the mutex: the oldest message gives way when the queue is full.
Enqueue(p) ==
    LET s == target[p]
        full == Len(messages[s]) >= capacity
    IN  /\ p \in Senders /\ at[p] = "inside"
        /\ messages' = [messages EXCEPT ![s] = Append(IF full THEN Tail(@) ELSE @, <<enqueued[s] + 1, message[p]>>)]
        /\ lagCount' = [lagCount EXCEPT ![s] = IF full THEN @ + 1 ELSE @]
        /\ enqueued' = [enqueued EXCEPT ![s] = @ + 1]
        /\ Notify(p, s)
        /\ UNCHANGED <<capacity, subscribers, closed, target, message, visited, aborted, aborts,
                       sends, accounted, latest, dropped>>

\* The lock() of a task rejects.  A sender goes on if that is because of a close.
LockRejects(p) ==
    LET s == target[p] IN
    /\ at[p] = "rejected"
    /\ entry' = [entry EXCEPT ![s] = RemoveSafe(@, p)]
    /\ at' = [at EXCEPT ![p] = IF p \in Senders THEN "looping" ELSE "idle"]
    /\ aborted' = IF p \in Senders THEN aborted ELSE aborted \ {p}
    /\ UNCHANGED <<capacity, subscribers, closed, messages, lagCount, lockedBy, sleepers,
                   target, message, visited, aborts, history>>

-----------------------------------------------------------------------------
Receive(p, s) ==
    /\ at[p] = "idle" /\ Contains(subscribers, s) /\ ~Closed(s)
    /\ target' = [target EXCEPT ![p] = s]
    /\ LockMutex(p, s, "entering", "inside")
    /\ UNCHANGED <<capacity, subscribers, closed, messages, lagCount, sleepers, message, visited, aborted, aborts, history>>

\* receive() in the mutex finds that messages were missed, and throws.  It does
\* not look again after it has waited.
ReceiveLagged(p) ==
    LET s == target[p] IN
    /\ p \in Receivers /\ at[p] = "inside" /\ lagCount[s] > 0
    /\ accounted' = [accounted EXCEPT ![s] = @ + lagCount[s]]
    /\ lagCount' = [lagCount EXCEPT ![s] = 0]
    /\ aborted' = aborted \ {p}
    /\ UnlockMutex(p, s, "idle", at)
    /\ UNCHANGED <<capacity, subscribers, closed, messages, sleepers, target, message, visited, aborts,
                   sends, enqueued, latest, dropped, lost>>

\* Otherwise it takes the first message, or waits; it takes a falsy one for none.
ReceiveRuns(p) ==
    LET s == target[p]
        first == Head(messages[s])
        empty == messages[s] = <<>>
        none == empty \/ first[2] = "falsy"
    IN  /\ p \in Receivers
        /\ at[p] = "again" \/ (at[p] = "inside" /\ lagCount[s] = 0)
        /\ messages' = [messages EXCEPT ![s] = IF empty THEN @ ELSE Tail(@)]
        /\ accounted' = [accounted EXCEPT ![s] = IF empty THEN @ ELSE @ + 1]
        /\ dropped' = [dropped EXCEPT ![s] = @ \/ (none /\ ~empty)]
        /\ latest' = [latest EXCEPT ![s] = IF none THEN @ ELSE first[1]]
        /\ aborted' = IF none THEN aborted ELSE aborted \ {p}
        /\ sleepers' = [sleepers EXCEPT ![s] = IF none THEN Append(@, p) ELSE @]
        /\ UnlockMutex(p, s, IF ~none THEN "idle"
                        ELSE IF Closed(s) \/ p \in aborted THEN "quitting" ELSE "sleeping", at)
        /\ UNCHANGED <<capacity, subscribers, closed, lagCount, target, message, visited, aborts,
                       sends, enqueued, lost>>

\* wait() resumes: it locks the mutex again, and throws if its signal aborted.
WaitResumes(p) ==
    LET s == target[p] IN
    /\ at[p] \in {"woken", "quitting"}
    /\ sleepers' = [sleepers EXCEPT ![s] = RemoveSafe(@, p)]
    /\ IF at[p] = "woken" THEN LockMutex(p, s, "relocking", "again")
       ELSE LockMutex(p, s, "failing", "failed")
    /\ UNCHANGED <<capacity, subscribers, closed, messages, lagCount, target, message, visited, aborted, aborts,
                   history>>

ReceiveFails(p) ==
    /\ at[p] = "failed"
    /\ UnlockMutex(p, target[p], "idle", at)
    /\ aborted' = aborted \ {p}
    /\ UNCHANGED <<capacity, subscribers, closed, messages, lagCount, sleepers,
                   target, message, visited, aborts, history>>

BroadcastNext ==
    \/ \E s \in Subs : Subscribe(s) \/ CloseSubscriber(s)
    \/ Close
    \/ \E p \in Senders : SendVisits(p) \/ Enqueue(p) \/ \E m \in Messages : Send(p, m)
    \/ \E p \in Receivers : Receive(p, Own[p])
    \/ \E p \in Tasks : AbortTask(p) \/ LockRejects(p)
    \/ \E p \in Receivers :
        ReceiveLagged(p) \/ ReceiveRuns(p) \/ WaitResumes(p) \/ ReceiveFails(p)

BroadcastSpec == BroadcastInit /\ [][BroadcastNext]_broadcastVars

-----------------------------------------------------------------------------
\* Every message enqueued was received, is in the queue, was dropped as falsy,
\* or is counted as missed, once; and they are received in order.
NoMessageUncounted ==
    \A s \in Subs :
        /\ enqueued[s] = accounted[s] + Len(messages[s]) + lagCount[s]
        /\ \A i \in DOMAIN messages[s] :
            messages[s][i][1] > IF i = 1 THEN latest[s] ELSE messages[s][i - 1][1]

\* Nobody sleeps beside a message, unless a signal went to a receiver that had
\* aborted or a falsy message was taken for none.
NobodySleepsBesideAMessage ==
    \A s \in Subs :
        messages[s] # <<>> /\ (\E p \in Receivers : at[p] = "sleeping" /\ target[p] = s)
            => \/ lost[s] \/ dropped[s]
               \/ \E p \in Receivers :
                    /\ target[p] = s
                    /\ at[p] \in {"woken", "relocking", "again"}

(***************************************************************************)
(* Each subscriber gets the messages in order, or learns how many it       *)
(* missed, and does not sleep while there is one for it.                   *)
(***************************************************************************)
SubscribersGetAll == NoMessageUncounted /\ NobodySleepsBesideAMessage
=============================================================================
