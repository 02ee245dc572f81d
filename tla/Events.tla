--------------------------------- MODULE Events ---------------------------------
(***************************************************************************)
(* The event dispatchers of async/events: a map of subscribers, and a heap *)
(* of [-priority, number] ranks that dispatch() walks in the order of its  *)
(* array, while the callbacks it calls subscribe and unsubscribe.          *)
(*                                                                         *)
(* An EventDispatcherMapBase keeps one dispatcher per event, made when it  *)
(* is first needed: one that is not there is like one that is empty.  The  *)
(* closures that wait() and eventDispatcherToAsyncIterator() subscribe are *)
(* new each time, so each member of Waiters and Iterators is used once.    *)
(* A dispatch() by a callback of the same dispatch() is left out.          *)
(***************************************************************************)
EXTENDS DataOps, FiniteSets

CONSTANTS
    EventNames,
    Listeners,      \* the callbacks
    Waiters,        \* the closures of wait()
    Iterators,      \* and of eventDispatcherToAsyncIterator()
    Priorities,
    MaxSubscriptions,   \* bound: the subscriptions of an event
    MaxDispatches       \* bound: the calls of dispatch()

Subscribers == Listeners \cup Waiters \cup Iterators

VARIABLES
    mode,       \* per event and subscriber: "none", "always" or "once"
    queue,      \* per event: the array of the heap
    queueSeq,
    waits,      \* "unused", "pending", "resolved", "rejected" or "returned"
    iterator,   \* the buffered and yielded events, is a next() not settled?
    walk,       \* the dispatch() that is under way
    dispatches

eventVars == <<mode, queue, queueSeq, waits, iterator, walk, dispatches>>

NoWalk == [event |-> "none", at |-> 0, called |-> <<>>, due |-> {}, moved |-> FALSE]

EventsInit ==
    /\ mode = [e \in EventNames |-> [s \in Subscribers |-> "none"]]
    /\ queue = [e \in EventNames |-> <<>>]
    /\ queueSeq = [e \in EventNames |-> 0]
    /\ waits = [w \in Waiters |-> "unused"]
    /\ iterator = [i \in Iterators |->
                    [buffer |-> <<>>, yielded |-> <<>>, next |-> FALSE]]
    /\ walk = NoWalk
    /\ dispatches = 0

-----------------------------------------------------------------------------
Entries(e, s) == {i \in DOMAIN queue[e] : queue[e][i][1] = s}

\* Calls come from a callback while dispatch() walks, and from anywhere else.
Caller == walk = NoWalk \/ walk.called # <<>>

\* insert([-priority, queueSeq++], subscriber)
Enqueue(e, s, priority) ==
    /\ queueSeq[e] < MaxSubscriptions
    /\ queueSeq' = [queueSeq EXCEPT ![e] = @ + 1]
    /\ LET rank == queueSeq[e] - priority * MaxSubscriptions IN
       queue' = [queue EXCEPT ![e] = HeapifyUp(Append(@, <<s, rank>>), Len(@))]
    /\ walk' = IF walk.event = e THEN [walk EXCEPT !.moved = TRUE] ELSE walk

Subscribe(e, s, once, priority) ==
    /\ Caller
    /\ mode[e][s] = "none"
    /\ mode' = [mode EXCEPT ![e][s] = IF once THEN "once" ELSE "always"]
    /\ Enqueue(e, s, priority)

\* Variant: the rank leaves the heap when the walk may have passed it already.
UnsubscribeRemoves(e, s) ==
    /\ Caller
    /\ mode[e][s] # "none"
    /\ mode' = [mode EXCEPT ![e][s] = "none"]
    /\ walk' = [walk EXCEPT !.due = @ \ {s}]
    /\ queue' = [queue EXCEPT ![e] = SelectSeq(@, LAMBDA entry : entry[1] # s)]
    /\ UNCHANGED <<queueSeq, waits, iterator, dispatches>>

\* Only the map changes: the rank stays in the heap.
Unsubscribe(e, s) ==
    /\ Caller
    /\ mode[e][s] # "none"
    /\ mode' = [mode EXCEPT ![e][s] = "none"]
    /\ walk' = [walk EXCEPT !.due = @ \ {s}]
    /\ UNCHANGED <<queue, queueSeq, waits, iterator, dispatches>>

SubscribeListener(e, s, once, priority) ==
    Subscribe(e, s, once, priority) /\ UNCHANGED <<waits, iterator, dispatches>>

Wait(e, w) ==
    /\ waits[w] = "unused"
    /\ waits' = [waits EXCEPT ![w] = "pending"]
    /\ Subscribe(e, w, FALSE, 0)
    /\ UNCHANGED <<iterator, dispatches>>

AbortWait(w) ==
    /\ waits[w] = "pending"
    /\ waits' = [waits EXCEPT ![w] = "rejected"]
    /\ UNCHANGED <<mode, queue, queueSeq, iterator, walk, dispatches>>

\* The continuation of wait(): it runs after the dispatch() is over.
WaitReturns(w) ==
    /\ walk = NoWalk
    /\ waits[w] \in {"resolved", "rejected"}
    /\ waits' = [waits EXCEPT ![w] = "returned"]
    /\ mode' = [e \in EventNames |-> [mode[e] EXCEPT ![w] = "none"]]
    /\ UNCHANGED <<queue, queueSeq, iterator, walk, dispatches>>

Iterate(e, i) ==
    /\ \A f \in EventNames : Entries(f, i) = {}
    /\ Subscribe(e, i, FALSE, 0)
    /\ UNCHANGED <<waits, iterator, dispatches>>

\* next(): the oldest event, or a promise; one that another next() made and
\* that is not settled yet is forgotten, and never will be.
IteratorNext(i) ==
    /\ \E e \in EventNames : mode[e][i] # "none"
    /\ LET it == iterator[i] IN
       iterator' = [iterator EXCEPT ![i] =
           IF it.buffer = <<>> THEN [it EXCEPT !.next = TRUE]
           ELSE [it EXCEPT !.buffer = Tail(@), !.yielded = Append(@, Head(it.buffer))]]
    /\ UNCHANGED <<mode, queue, queueSeq, waits, walk, dispatches>>

-----------------------------------------------------------------------------
Dispatch(e) ==
    /\ walk = NoWalk
    /\ dispatches < MaxDispatches
    /\ dispatches' = dispatches + 1
    /\ walk' = [NoWalk EXCEPT !.event = e, !.due = {s \in Subscribers : mode[e][s] # "none"}]
    /\ UNCHANGED <<mode, queue, queueSeq, waits, iterator>>

\* A once subscriber leaves the map, and the heap is ordered again under the
\* walk.
Once(e, s) ==
    /\ mode' = [mode EXCEPT ![e][s] = "none"]
    /\ LET first == CHOOSE i \in Entries(e, s) : \A j \in Entries(e, s) : i <= j IN
       queue' = [queue EXCEPT ![e] = HeapifyAll(RemoveAt(@, first))]

\* What the closures of wait() and of an iterator do with the event.
Receive(s) ==
    /\ waits' = [w \in Waiters |-> IF w = s /\ waits[w] = "pending" THEN "resolved" ELSE waits[w]]
    /\ iterator' = [i \in Iterators |->
        IF i # s THEN iterator[i]
        ELSE IF iterator[i].next
        THEN [iterator[i] EXCEPT !.next = FALSE, !.yielded = Append(@, dispatches)]
        ELSE [iterator[i] EXCEPT !.buffer = Append(@, dispatches)]]

\* The next entry of the array: its subscriber is called, if it is still one.
Visit ==
    LET e == walk.event
        s == queue[e][walk.at + 1][1]
    IN  /\ walk # NoWalk
        /\ walk.at < Len(queue[e])
        /\ IF mode[e][s] = "none"
           THEN /\ walk' = [walk EXCEPT !.at = @ + 1]
                /\ UNCHANGED <<mode, queue, waits, iterator>>
           ELSE /\ walk' = [walk EXCEPT !.at = @ + 1,
                                        !.called = Append(@, queue[e][walk.at + 1]),
                                        !.moved = @ \/ mode[e][s] = "once"]
                /\ Receive(s)
                /\ IF mode[e][s] = "once" THEN Once(e, s) ELSE UNCHANGED <<mode, queue>>
        /\ UNCHANGED <<queueSeq, dispatches>>

Walked == walk # NoWalk /\ walk.at >= Len(queue[walk.event])
Calls(s) == Cardinality({i \in DOMAIN walk.called : walk.called[i][1] = s})

DispatchEnds ==
    /\ Walked
    /\ walk' = NoWalk
    /\ UNCHANGED <<mode, queue, queueSeq, waits, iterator, dispatches>>

EventsNext ==
    \/ \E e \in EventNames, s \in Listeners, once \in BOOLEAN, p \in Priorities :
        SubscribeListener(e, s, once, p)
    \/ \E e \in EventNames, s \in Listeners : Unsubscribe(e, s)
    \/ \E e \in EventNames, w \in Waiters : Wait(e, w)
    \/ \E w \in Waiters : AbortWait(w) \/ WaitReturns(w)
    \/ \E e \in EventNames, i \in Iterators : Iterate(e, i)
    \/ \E i \in Iterators : IteratorNext(i)
    \/ \E e \in EventNames : Dispatch(e)
    \/ Visit \/ DispatchEnds

-----------------------------------------------------------------------------
\* Nobody is subscribed whom a dispatch() cannot find.
EverySubscriberQueued ==
    \A e \in EventNames, s \in Subscribers : mode[e][s] # "none" => Entries(e, s) # {}

\* A dispatch() calls everybody who is subscribed all the time, as often as
\* the heap has ranks of it, which is more than once if it came back: unless a
\* callback subscribed somebody, or was a once subscriber and so removed itself,
\* and the entries moved under the walk.
CallsEverybody ==
    Walked /\ ~walk.moved =>
        \A s \in walk.due : Calls(s) = Cardinality(Entries(walk.event, s))

\* Two entries are called in the order of their ranks.  With more of them that
\* is not so: the walk takes them in the order of the array.
BestRankFirst ==
    walk # NoWalk /\ ~walk.moved /\ Len(queue[walk.event]) <= 2 =>
        \A i, j \in DOMAIN walk.called : i < j => walk.called[i][2] < walk.called[j][2]

\* An iterator yields the events in order, and makes nobody wait for one that
\* it has.
IteratorYieldsAll ==
    \A i \in Iterators :
        LET seen == iterator[i].yielded \o iterator[i].buffer IN
        /\ \A j, k \in DOMAIN seen : j < k => seen[j] <= seen[k]
        /\ iterator[i].next => iterator[i].buffer = <<>>

(***************************************************************************)
(* Subscribers are found, called and served in the order the array has,    *)
(* however callbacks subscribe and unsubscribe during the dispatch().      *)
(***************************************************************************)
DispatchServesSubscribers ==
    EverySubscriberQueued /\ CallsEverybody /\ BestRankFirst /\ IteratorYieldsAll
=============================================================================
