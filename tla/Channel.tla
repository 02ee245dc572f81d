------------------------------- MODULE Channel -------------------------------
(***************************************************************************)
(* The channel of async/synchro/channel.ts, for senders and receivers that *)
(* call it concurrently.  receiversLock and newReceiver are the mutex and  *)
(* the condition of module Monitor.  The buffer is a LinkedList with       *)
(* "places" free places; a sender that finds none queues for one, and      *)
(* whoever awaited a place inserts its message at the position it computed *)
(* before it awaited (see BlockingQueue).                                  *)
(*                                                                         *)
(* A capacity of 0 is a rendezvous channel, one of at least MaxMessages    *)
(* stands for the default, Infinity.                                       *)
(***************************************************************************)
EXTENDS Monitor, LinkedList, FiniteSetsExt

CONSTANTS
    Capacities,     \* the constructor's argument is one of these
    MayClose,       \* is close() called?
    MaxAborts,      \* bound: the signals of calls that ever abort
    MaxMessages     \* bound: the messages ever sent

ASSUME ChannelAssumption ==
    /\ Capacities \subseteq Nat
    /\ MaxAborts \in Nat
    /\ MayClose \in BOOLEAN
    /\ MaxMessages \in Nat

VARIABLES
    capacity,
    closed,
    receivers,  \* the resolvers of the receivers, each named by its task
    buffer,     \* the queue "messages"
    places,     \* the permits of its semaphore
    blocked,    \* the senders queued for one
    call,       \* the call each task awaits, or "none"
    stage,      \* how far the call is
    message,    \* what it sends
    start,      \* the position it computed
    result,     \* what a receiver's promise was resolved with, or 0
    refused     \* the receivers whose promise was rejected

channelVars == <<capacity, closed, receivers, buffer, places, blocked>>
callVars == <<call, stage, message, start, result, refused>>

VARIABLES
    aborts,     \* the signals that aborted so far
    used,       \* the messages used so far: they are numbered
    sent,       \* history: the messages that left their sender
    got,        \* history: those that receive() returned
    older,      \* history: the receivers that waited when one began to
    events      \* history: the events below that took place

history == <<aborts, used, sent, got, older, events>>
allVars == <<monitorVars, channelVars, callVars, history>>

Messages == 1..MaxMessages
Stage == {"start", "signal", "await", "settled", "blocked", "granted", "rejected"}
ChannelEvent == {"abort", "twice", "late", "grown", "shrunk"}

ChannelInit ==
    /\ MonitorInit
    /\ capacity \in Capacities
    /\ closed = FALSE
    /\ receivers = <<>>
    /\ buffer = EmptyList
    /\ places = capacity
    /\ blocked = <<>>
    /\ call = [p \in Tasks |-> "none"]
    /\ stage = [p \in Tasks |-> "start"]
    /\ message = [p \in Tasks |-> 0]
    /\ start = [p \in Tasks |-> 0]
    /\ result = [p \in Tasks |-> 0]
    /\ refused = {}
    /\ aborts = 0
    /\ used = 0
    /\ sent = {}
    /\ got = {}
    /\ older = [p \in Tasks |-> {}]
    /\ events = {}

-----------------------------------------------------------------------------
\* A receiver that is registered and has nothing yet.
Unserved(q) ==
    /\ call[q] = "receive"
    /\ Contains(receivers, q) /\ result[q] = 0 /\ q \notin refused

\* The resolver of q is called with m: it has no effect if q's promise is
\* settled, and the message is gone.
Deliver(q, m) ==
    LET twice == result[q] # 0 \/ q \in refused IN
    /\ result' = IF twice THEN result ELSE [result EXCEPT ![q] = m]
    /\ events' = events \cup (IF twice THEN {"twice"} ELSE {})
    /\ sent' = sent \cup {m}

SignalAborts == aborts < MaxAborts /\ aborts' = aborts + 1

Ends(p) ==
    /\ call' = [call EXCEPT ![p] = "none"]
    /\ stage' = [stage EXCEPT ![p] = "start"]

\* A call starts with receiversLock.lock(signal_), which throws at once when
\* the channel is closed.
Send(p) ==
    /\ call[p] = "none" /\ ~closed /\ used < MaxMessages
    /\ Enter(p)
    /\ call' = [call EXCEPT ![p] = "send"]
    /\ used' = used + 1
    /\ aborts' = aborts
    /\ message' = [message EXCEPT ![p] = used + 1]
    /\ UNCHANGED <<channelVars, stage, start, result, refused, sent, got, older,
                   events>>

Receive(p) ==
    /\ call[p] = "none" /\ ~closed
    /\ Enter(p)
    /\ call' = [call EXCEPT ![p] = "receive"]
    /\ UNCHANGED <<channelVars, stage, message, start, result, refused, history>>

Runs(p, o, s) == at[p] = "inside" /\ call[p] = o /\ stage[p] = s

-----------------------------------------------------------------------------
(***************************************************************************)
(* send()                                                                  *)
(***************************************************************************)
\* With receiversLock, a receiver is there: the message is for it.
SendDelivers(p) ==
    /\ Runs(p, "send", "start") /\ p \notin failed
    /\ receivers # <<>>
    /\ receivers' = Tail(receivers)
    /\ Deliver(Head(receivers), message[p])
    /\ Leave(p)
    /\ Ends(p)
    /\ UNCHANGED <<capacity, closed, buffer, places, blocked, message, start,
                   refused, aborts, used, got, older>>

\* A rendezvous channel without a receiver: newReceiver.wait, in a loop.
SendWaits(p) ==
    /\ Runs(p, "send", "start") /\ p \notin failed
    /\ capacity = 0 /\ receivers = <<>>
    /\ Wait(p)
    /\ UNCHANGED <<channelVars, callVars, history>>

\* newReceiver.wait threw: so does send().
SendFails(p) ==
    /\ Runs(p, "send", "start") /\ p \in failed
    /\ Leave(p)
    /\ Ends(p)
    /\ UNCHANGED <<channelVars, message, start, result, refused, history>>

\* A buffered channel without a receiver: unlock, then waitEnqueue up to its
\* await.
SendBuffers(p) ==
    /\ Runs(p, "send", "start") /\ ~closed
    /\ capacity > 0 /\ receivers = <<>>
    /\ Leave(p)
    /\ start' = [start EXCEPT ![p] = buffer.size]
    /\ \/ /\ places > 0 /\ blocked = <<>>
          /\ places' = places - 1
          /\ blocked' = blocked
          /\ stage' = [stage EXCEPT ![p] = "granted"]
       \/ /\ places = 0 \/ blocked # <<>>
          /\ blocked' = Append(blocked, p)
          /\ places' = places
          /\ stage' = [stage EXCEPT ![p] = "blocked"]
    /\ UNCHANGED <<capacity, closed, receivers, buffer, call, message, result,
                   refused, history>>

\* The signal aborted, or the channel closed, while it waited for the lock:
\* waitEnqueue throws.
SendThrows(p) ==
    /\ Runs(p, "send", "start")
    /\ \/ closed /\ aborts' = aborts
       \/ SignalAborts
    /\ capacity > 0 /\ receivers = <<>>
    /\ Leave(p)
    /\ Ends(p)
    /\ events' = events \cup {"abort"}
    /\ UNCHANGED <<channelVars, message, start, result, refused, used, sent, got,
                   older>>

\* waitEnqueue after its await.
SendInserts(p) ==
    /\ call[p] = "send" /\ stage[p] = "granted"
    /\ buffer' = InternalSplice(buffer, start[p], 0, <<message[p]>>)
    /\ Ends(p)
    /\ sent' = sent \cup {message[p]}
    /\ events' = events
         \cup (IF start[p] < buffer.size THEN {"grown"} ELSE {})
         \cup (IF start[p] > buffer.size /\ buffer.chain # <<>>
               THEN {"shrunk"} ELSE {})
         \cup (IF \E q \in Tasks : Unserved(q) THEN {"late"} ELSE {})
    /\ UNCHANGED <<monitorVars, capacity, closed, receivers, places, blocked,
                   message, start, result, refused, aborts, used, got, older>>

SendRejects(p) ==
    /\ call[p] = "send" /\ stage[p] = "rejected"
    /\ blocked' = RemoveSafe(blocked, p)
    /\ Ends(p)
    /\ UNCHANGED <<monitorVars, capacity, closed, receivers, buffer, places,
                   message, start, result, refused, history>>

-----------------------------------------------------------------------------
(***************************************************************************)
(* receive()                                                               *)
(***************************************************************************)
\* Variant: the receiver tells nobody that it is there.
ReceiveRegistersSilently(p) ==
    /\ Runs(p, "receive", "start")
    /\ receivers' = Append(receivers, p)
    /\ stage' = [stage EXCEPT ![p] = "signal"]
    /\ older' = [older EXCEPT ![p] = {q \in Tasks : Unserved(q)}]
    /\ UNCHANGED <<monitorVars, capacity, closed, buffer, places, blocked, call,
                   message, start, result, refused, aborts, used, sent, got, events>>

\* With receiversLock: the resolver is enqueued and newReceiver signalled, the
\* lock held until the signal is out.
ReceiveRegisters(p) ==
    /\ Runs(p, "receive", "start")
    /\ receivers' = Append(receivers, p)
    /\ IF sleepers = <<>> THEN UNCHANGED monitorVars ELSE Signal(p)
    /\ stage' = [stage EXCEPT ![p] = "signal"]
    /\ older' = [older EXCEPT ![p] = {q \in Tasks : Unserved(q)}]
    /\ UNCHANGED <<capacity, closed, buffer, places, blocked, call, message,
                   start, result, refused, aborts, used, sent, got, events>>

\* The place of a message that was dequeued goes to the first blocked sender,
\* even if that one was rejected meanwhile.
GivePlace ==
    \/ /\ blocked = <<>>
       /\ places' = places + 1
       /\ blocked' = blocked
    \/ /\ blocked # <<>>
       /\ places' = places
       /\ blocked' = Tail(blocked)

PhaseAfterPlace(p, next) ==
    [q \in Tasks |->
        CASE q = p -> next
          [] q # p /\ blocked # <<>> /\ buffer.chain # <<>>
             /\ q = Head(blocked) /\ stage[q] = "blocked" -> "granted"
          [] OTHER -> stage[q]]

\* receiversLock is unlocked and the buffer looked at: a message of the buffer
\* resolves the receiver's own promise.  The resolver stays registered.
ReceiveChecks(p) ==
    /\ Runs(p, "receive", "signal")
    /\ Leave(p)
    /\ stage' = PhaseAfterPlace(p, "await")
    /\ \/ /\ buffer.chain = <<>>
          /\ UNCHANGED <<buffer, places, blocked, result>>
       \/ /\ buffer.chain # <<>>
          /\ buffer' = InternalSplice(buffer, 0, 1, <<>>)
          /\ GivePlace
          /\ result' = [result EXCEPT ![p] = Head(buffer.chain)]
    /\ UNCHANGED <<capacity, closed, receivers, call, message, start, refused,
                   history>>

\* Its signal aborted before it came to look at the buffer.
ReceiveThrows(p) ==
    /\ Runs(p, "receive", "signal") /\ SignalAborts
    /\ Leave(p)
    /\ stage' = [stage EXCEPT ![p] = "await"]
    /\ refused' = refused \cup {p}
    /\ events' = events \cup {"abort"}
    /\ UNCHANGED <<channelVars, call, message, start, result, used, sent, got,
                   older>>

\* The promise is settled: the cleanup locks receiversLock, with no signal.
ReceiveSettles(p) ==
    /\ call[p] = "receive" /\ stage[p] = "await"
    /\ result[p] # 0 \/ p \in refused
    /\ Enter(p)
    /\ stage' = [stage EXCEPT ![p] = "settled"]
    /\ UNCHANGED <<channelVars, call, message, start, result, refused, history>>

\* A call that is over is nobody's elder.
Forgets(p) == [q \in Tasks |-> IF q = p THEN {} ELSE older[q] \ {p}]

\* The resolver is removed if a sender has not dequeued it, and receive()
\* returns or throws.
ReceiveEnds(p) ==
    /\ Runs(p, "receive", "settled")
    /\ receivers' = RemoveSafe(receivers, p)
    /\ Leave(p)
    /\ Ends(p)
    /\ got' = IF p \in refused THEN got ELSE got \cup {result[p]}
    /\ result' = [result EXCEPT ![p] = 0]
    /\ refused' = refused \ {p}
    /\ older' = Forgets(p)
    /\ UNCHANGED <<capacity, closed, buffer, places, blocked, message, start,
                   aborts, used, sent, events>>

-----------------------------------------------------------------------------
(***************************************************************************)
(* Aborts.  Who awaits something that its signal, or close(), can end:     *)
(* receiversLock at the start of a call, newReceiver, a place.             *)
(***************************************************************************)
Interrupted(p, how) ==
    CASE at[p] = "entering" /\ stage[p] = "start" -> how = "rejected"
      [] at[p] = "sleeping" -> how = "quitting"
      [] stage[p] = "blocked" -> how = "refused"
      [] OTHER -> FALSE

Interrupt(who) ==
    /\ at' = [p \in Tasks |-> CASE p \in who /\ Interrupted(p, "rejected") -> "rejected"
                                [] p \in who /\ Interrupted(p, "quitting") -> "quitting"
                                [] OTHER -> at[p]]
    /\ failed' = failed \cup {p \in who : Interrupted(p, "quitting")}
    /\ stage' = [p \in Tasks |-> IF p \in who /\ Interrupted(p, "refused")
                                 THEN "rejected" ELSE stage[p]]
    /\ events' = events \cup {"abort"}
    /\ UNCHANGED <<locked, entry, sleepers, receivers, buffer, places, blocked,
                   call, message, start, result, capacity, used, sent, got, older>>

\* The signal of one call, of a receiver that awaits its promise too.  In a
\* closed channel every call that comes to wait ends this way.
CallAborts(p) ==
    /\ \/ /\ \/ closed /\ aborts' = aborts
             \/ SignalAborts
          /\ \E how \in {"rejected", "quitting", "refused"} : Interrupted(p, how)
          /\ refused' = refused
       \/ /\ SignalAborts
          /\ call[p] = "receive" /\ stage[p] = "await" /\ result[p] = 0
          /\ p \notin refused
          /\ refused' = refused \cup {p}
    /\ Interrupt({p})
    /\ closed' = closed

\* close(): it does not reach a receiver that awaits its promise, for which
\* receive() listens to the caller's signal only.
Close ==
    /\ MayClose /\ ~closed
    /\ closed' = TRUE
    /\ Interrupt(Tasks)
    /\ UNCHANGED <<refused, aborts>>

\* receiversLock.lock(signal_) throws.
LockThrows(p) ==
    /\ EntryRejects(p)
    /\ Ends(p)
    /\ UNCHANGED <<channelVars, message, start, result, refused, history>>

WaitEnds(p) ==
    /\ Return(p)
    /\ UNCHANGED <<channelVars, callVars, history>>

ChannelNext ==
    \/ \E p \in Tasks :
        \/ Send(p)
        \/ SendDelivers(p)
        \/ SendWaits(p)
        \/ SendFails(p)
        \/ SendBuffers(p)
        \/ SendThrows(p)
        \/ SendInserts(p)
        \/ SendRejects(p)
        \/ Receive(p)
        \/ ReceiveRegisters(p)
        \/ ReceiveChecks(p)
        \/ ReceiveThrows(p)
        \/ ReceiveSettles(p)
        \/ ReceiveEnds(p)
        \/ CallAborts(p)
        \/ LockThrows(p)
        \/ WaitEnds(p)
    \/ Close

ChannelSpec == ChannelInit /\ [][ChannelNext]_allVars

-----------------------------------------------------------------------------
\* A resolver is registered once at most; places are within the capacity.
ChannelTypeOK ==
    /\ MonitorTypeOK
    /\ capacity \in Capacities
    /\ closed \in BOOLEAN
    /\ receivers \in Seq(Tasks)
    /\ Distinct(receivers)
    /\ buffer.chain \in Seq(Messages)
    /\ buffer.size \in 0..capacity
    /\ places \in 0..capacity
    /\ blocked \in Seq(Tasks)
    /\ call \in [Tasks -> {"none", "send", "receive"}]
    /\ stage \in [Tasks -> Stage]
    /\ message \in [Tasks -> 0..MaxMessages]
    /\ start \in [Tasks -> 0..MaxMessages]
    /\ result \in [Tasks -> 0..MaxMessages]
    /\ refused \subseteq Tasks
    /\ sent \subseteq Messages /\ got \subseteq Messages
    /\ older \in [Tasks -> SUBSET Tasks]
    /\ events \subseteq ChannelEvent
    /\ aborts \in 0..MaxAborts /\ used \in 0..MaxMessages

(***************************************************************************)
(* Where a message that left its sender is: in the buffer, with a receiver *)
(* whose call has not returned, or received.                               *)
(***************************************************************************)
Copies(m) ==
    Cardinality({i \in DOMAIN buffer.chain : buffer.chain[i] = m})
    + Cardinality({q \in Tasks : result[q] = m /\ q \notin refused})
    + (IF m \in got THEN 1 ELSE 0)

\* No message is received twice, whatever senders, receivers and aborts do
\* (channel.ts:143, 154, 201).
ReceivedOnce == \A m \in Messages : Copies(m) <= 1

(***************************************************************************)
(* A message that left its sender is not lost, with these exceptions: it   *)
(* was given to a receiver that had taken one from the buffer or had been  *)
(* aborted, or the buffer shrank while a sender awaited its place.  In a   *)
(* rendezvous channel an abort is the only cause of a loss                 *)
(* (channel.ts:143, 154, 161, 201).                                        *)
(***************************************************************************)
LossNeedsUpset ==
    \/ events \cap {"twice", "shrunk"} = {}
    \/ capacity = 0 /\ "abort" \notin events
    => \A m \in sent : Copies(m) = 1

\* Nothing is on its way: tasks are outside, wait for a receiver, a place or a
\* message.
AllQuiet ==
    /\ ~locked
    /\ \A p \in Tasks :
          /\ at[p] \in {"outside", "sleeping"}
          /\ at[p] = "outside" => \/ call[p] = "none"
                                  \/ stage[p] = "blocked"
                                  \/ Unserved(p)

(***************************************************************************)
(* A sender and a receiver of a rendezvous channel do not wait for each    *)
(* other, unless a call was aborted and took a signal with it              *)
(* (channel.ts:140, 185).                                                  *)
(***************************************************************************)
RendezvousMeets ==
    AllQuiet /\ "abort" \notin events =>
        ~ \E p, q \in Tasks : at[p] = "sleeping" /\ Unserved(q)

(***************************************************************************)
(* "If multiple receivers are waiting, the oldest receiver will be served  *)
(* first": one that has its message overtook nobody that waited when it    *)
(* registered.  In a buffered channel an older one may wait beside a       *)
(* message that was inserted after it looked (channel.ts:168).             *)
(***************************************************************************)
OldestReceiverFirst ==
    "late" \notin events =>
        \A p \in Tasks : result[p] # 0 =>
            \A q \in older[p] : ~Unserved(q) \/ p \in older[q]

(***************************************************************************)
(* What the doc of close() says: "Any pending producers/receivers will be  *)
(* rejected with ChannelClosedError".  A receiver that awaits its message  *)
(* listens to its caller's signal only, and stays (channel.ts:196, 226).   *)
(***************************************************************************)
CloseRejectsReceivers ==
    closed /\ AllQuiet => \A q \in Tasks : ~Unserved(q)

(***************************************************************************)
(* Each message goes to one receiver, the oldest, and whoever can meet     *)
(* does, but for the named cases (channel.ts:143, 168, 185).               *)
(***************************************************************************)
ChannelDelivers ==
    /\ ChannelTypeOK
    /\ ReceivedOnce
    /\ LossNeedsUpset
    /\ RendezvousMeets
    /\ OldestReceiverFirst

\* For TLC: tasks are alike.
TaskSymmetry == Permutations(Tasks)
=============================================================================
