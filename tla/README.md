# node-essentials in TLA+

Specifications of the `node-essentials` monorepo: the synchronisation primitives
of `misc-util`, its collections, events, timers, files, processes and sockets, the
loggers, configurations and process lists of `app-util`, the listings the `cli`
package reads, and the pure algorithms on objects, errors and texts that have
something to get wrong. TLC checks each on small instances; for the mutex, the
monitor, the read-write lock, the semaphore, the bounded queue, the channel, the signal,
the counter (with the latch and the barrier), broadcasts, holds of several locks, the timers, the atomic writes, the locks
between processes, the pid files, the log files and the sockets the main safety properties are also
proved with TLAPS for every value of the constants. Paths below are relative to `packages/misc-util/src` unless they start with `app-util` or
`cli`.

Running things, in this directory:

    tlc -config MCMutex.cfg Mutex         # model-check a configuration
    tlapm MutexProofs.tla                 # check the proofs of a module

`PROJECT.json` lists, for each module, which definition stands for which lines
of the source, which runs there are, which mutation of the code each property
was seen to catch, the disagreements found, and the hazards by line.

## 1. Inventory

The repository is a set of packages. `misc-util` (helpers for JavaScript, async
code, data structures, node and net), `app-util` (loggers, configuration and
system helpers of an application) and `cli` (wrappers of command line tools)
hold code; the others are shared tool configurations.

Everything runs in one JavaScript thread. Concurrency is that of tasks: async
functions that run to their next `await` without interruption, and whose
continuations the event loop runs some time after the promise they await is
settled. Two facts make this code hard, and appear in nearly every module:

* settling a promise and running the continuation are two steps, with steps of
  other tasks in between; a second `resolve` or `reject` of a promise is
  ignored without a trace;
* an `AbortSignal` rejects a promise at once, from its listener, while the entry
  that the call has on some queue is only removed in the call's continuation.

### Synchronisation (`async/synchro`)

| Component | State | Operations | What is hard | What makes it correct |
|---|---|---|---|---|
| `Mutex` | `locked_`, list of resolvers | `tryLock`, `lock`, `unlock`, abort | hand-off to a waiter whose continuation has not run, or that has aborted | exclusion, order, nobody waits for a free mutex |
| `Condition` | queue of resolvers under a mutex of its own | `wait`, `signal`, `broadcast`, abort | the mutex is unlocked before the resolver is queued; an aborted wait removes it later | behaves as a monitor: waiting is one step, a signal wakes a task |
| `RwLock` | readers, writer, writers waiting; mutex and condition | read and write lock, try variants, upgrade, downgrade, unlocks, abort | one signal for readers and writers alike, waits that throw, upgrades that give up | a writer is alone, counters agree with the holders, no deadlock |
| `Semaphore` | permits, queue of pending calls | `tryAcquire`, `acquire`, `release`, abort | the queue handler runs asynchronously, one run at a time; aborted entries | permits conserved, order, no permit idle beside a call it would serve |
| `Channel` | buffer, resolvers of receivers, mutex, condition, `closed` | `send`, `receive`, `close`, abort | four kinds of call interleave at each await | each message is received once, senders and receivers meet, close rejects |
| `Signal` | flag, mode, waiters, handler runs | `signal`, `reset`, `wait`, abort | the flag and the handler are apart in time | one waiter per signal in auto-reset mode, nobody waits beside a raised signal |
| `Counter`, `Latch`, `Barrier` | value, list of waiters and targets | `increment`, `decrement`, `reset`, `wait`; `countDown`; `wait` | rounds of a barrier overlap, aborted participants stay counted | nobody waits for the value the counter has; a round releases all its tasks |
| `Broadcast` | a queue, a lag count, a mutex and a condition per subscriber | `subscribe`, `send`, `receive`, `close` of both, abort | a send visits the subscribers one by one; an aborted receiver eats a signal | each subscriber gets the messages in order or is told how many it missed, and does not sleep beside one |
| `LockHold` | ids of locks, the locks held | `from`, `tryFrom`, `unlock`, abort | several locks, failure in between | no circle of waiting tasks, nothing left locked |
| `FileLock`, `UdpBindLock` | a file or a socket, and the object's handle | `tryLock`, `lock` (polling), `unlock`, abort | two processes, several tasks on one object, crashes, a `close` that fails | exclusion between processes, a lock that is taken comes back |

`RwLock` and `Channel` call `Mutex` and `Condition`; `Condition` calls `Mutex`;
`Latch` and `Barrier` own a `Counter`; `LinkedList` owns a `Semaphore` whose
permits are its free places; `Semaphore` and `Signal` run their handlers through
`serializeQueueNext`; `Mutex`, `Semaphore`, `Counter` and `Channel` take entries
off their lists with `removeSafe`.

### Data structures (`data`)

`LinkedList` keeps a chain of nodes, a count and a semaphore of free places;
every insertion and removal goes through `internalSplice`. `Queue`, `Deque` and
`Stack` are views on it; `DoublyLinkedList` and `NativeArray` have the same
interface; `BinaryHeap` and `PriorityQueue` keep an array in heap order. The
`wait...` operations await free places and change the list afterwards: what
they read before is stale then. Correct means that items are neither lost nor
duplicated, that their order is kept, and that the semaphore and the count agree.

### The other parts

| Component | State | Operations | What is hard | What makes it correct |
|---|---|---|---|---|
| Event dispatchers (`async/events`) | a map of subscribers, a heap of ranks | `subscribe`, `wait`, `dispatch`, the iterator | callbacks subscribe and unsubscribe while `dispatch` walks the heap's array | whoever is subscribed is in the heap and is called; an iterator yields all events in order |
| Timers (`ecma/timers`) | started, timeout, callback under way | `start`, `stop` | `stop` and `start` while a callback is awaited | a started timer ticks on, a stopped one does not |
| Atomic writes (`node/fs`) | the file, a temporary file per call | `writeFileAtomic` | nine system calls, each may fail, several callers, crashes | the file is whole, or which step lost it |
| Text files (`fs/text-files`) | none | read, write, resolve the format, for seven kinds | options that are null, libraries that have options of their own | line ends and final newline are those asked for |
| Process helpers (`node/process`, `app-util/system/os`) | handlers by priority, pid file | register, exit, `write`, `remove`, kill by pid file | two processes, signals, pids used again | the file tells which process runs |
| Sockets (`node/net`) | the socket's stage, listeners | open, close, errors | an error while calls are pending | each error is reported, once |
| Loggers (`app-util/logger`) | spool, repeat count, file streams, groups | `print`, `flush`, `clear`, rotation, console calls | failures in a flush, rotation while records are printed, crashes | records are neither lost nor reordered |
| Configurations (`app-util/cli-config`) | none | resolve, load | files that extend one another in a circle | each file is read once, and the same side wins on every level |
| Listings (`cli/posix`, `cli/git`, `app-util/system/os`) | none | `ps`, snapshot, `git status` | columns of several words, filters of three kinds | the rows are split right and the filters select what they say |
| Algorithms (`ecma/*`, `net/http`, `shell`) | none | traversal, merging, error walks, conversions | cycles, sharing, limits | reference definitions |

The printers and the dispatchers use the collections, the printers also `LockHold`
and `serializeQueueNext`; configurations are merged with `deepMergeInplace`;
`getProcessesSnapshot` runs `ps`; the pid file is removed by the exit manager.
`PROJECT.json` lists each component with its status.

## 2. The modules

| Module | What it models |
|---|---|
| `EcmaArray` | `removeSafe` on a list of resolvers |
| `Mutex` | `mutex.ts` |
| `Monitor` | what a mutex and a condition promise together (abstract) |
| `Condition` | `condition.ts` with its two mutexes and the microtask queue; implements `Monitor` |
| `RwLock` | `rw-lock.ts`, on `Monitor` |
| `Semaphore` | the semaphore as a component: its fields and operations |
| `SemaphoreUse` | tasks that use a semaphore |
| `LinkedList` | the chain and the count of `linked-list.ts`, `internalSplice` and the calls, as operators |
| `BlockingQueue` | `Queue` on `LinkedList` and `Semaphore`, with its users |
| `Channel` | `channel.ts`, on `Monitor` and `LinkedList` |
| `Signal` | `signal.ts` |
| `Counter` | `counter.ts`, `latch.ts`, `barrier.ts` |
| `Broadcast`, `LockHold`, `Events`, `Timers` | the modules of these names in the code |
| `BoundedList` | what the interfaces of lists, deques and stacks promise (abstract) |
| `DataOps` | what the list classes share, and the order of a heap in an array, as operators |
| `DoublyLinkedList`, `NativeArray` | the calls of the other two list classes, as operators from a list to a list and a result |
| `Lists` | a list of any class, a deque or a stack under its calls; implements `BoundedList` |
| `PriorityBag` | what the interfaces of heaps and priority queues promise (abstract) |
| `Heaps` | `binary-heap.ts`, `priority-queue.ts`; implements `PriorityBag` |
| `Traversal`, `Merging`, `Processes`, `Formatting` | functions without state, as operators, each with its reference definition; `Traversal` has the walks over errors, `Merging` the configurations that are merged, `Formatting` the text files |
| `AlgorithmCalls` | one call of such a function: its inputs, its result |
| `AtomicWrites`, `ProcessLocks`, `ProcessLife`, `LogFiles`, `Printers`, `Sockets`, `Consoles` | files, processes, sockets and loggers |
| `EcmaArrayProofs`, `MutexProofs`, `MonitorProofs`, `SemaphoreProofs`, `SignalProofs`, `CounterProofs`, `SynchroProofs`, `AsyncProofs` | theorems and proofs |
| `MCData`, `MCAsync` | several components side by side, one of them chosen in the initial state |

A component's fields are variables with the names they have in the code. A call
in progress is the task's entry in a function such as `pc`, `phase` or
`promise`; an await is the boundary between two actions, and what runs between
two awaits is one action. Lists of resolvers are sequences of tasks: a task has
one call in progress at most, so it names its resolver. A promise is "pending",
"resolved" or "rejected", and a resolver called a second time changes nothing.
The steps of the *users* of a component (which operation is called when) are as
free as the operation's protocol allows: a mutex is unlocked by the task that
holds it, a read lock is released by a reader.

Definitions whose name continues that of an operation and that a comment calls
a *Variant* are not part of the specification: they are plausible mistakes, kept
to show that a property would notice them.

### How each corresponds to the code

**Mutex.** `Lock` is `lock()` up to its await, `LockReturns` and `LockRejects`
what follows when the promise was resolved or rejected, `Abort` the abort
listener, `Unlock` the whole of `unlock()`: it shifts the first resolver and
calls it, or clears the flag. `ahead` is a history variable: which waiters were
there first.

**Condition and Monitor.** `Condition` has an action per await of `wait`,
`signal` and `broadcast`, and the loop's queue of jobs. It is the only module
with an explicit order of continuations, because the gap between unlocking and
queueing is harmless only under that order. Everywhere else a settled
continuation may run at any later moment, which allows every order the loop can
produce and more. `Monitor` is the abstract promise: tasks are outside,
entering, inside, sleeping, woken or quitting. `ImplementsMonitor` checks the
refinement under the mapping at the end of `Condition`, and `RwLock` and
`Channel` use the monitor in place of the two classes.

**RwLock.** Each operation enters the monitor (`Call`), does its body in one
step, or sleeps in its loop (`Suspend`) and tests again when it has returned,
and leaves (`Finish`); a release notifies inside the monitor (`Notify`,
`ReleaseEnds`). `upset` remembers the kinds of event after which the code
promises less.

**Semaphore.** `HandlePendingAcquisitions` serves the queue from its head while
permits last; `RequestRun`, `RunResolves`, `RunEnds` are `serializeQueueNext`: one
run at a time, and a request during a run makes another.

**LinkedList and BlockingQueue.** A list is a record with its chain of items and
its count, which are separate fields in the code and can disagree.
`InternalSplice` follows the code when there is no node before the start index:
the new nodes become the head. `WaitEnqueue` computes its start index and asks
for places, `WaitEnqueueSettles` inserts there.

**Channel.** `SendDelivers`, `SendWaits`, `SendFails`, `SendBuffers` are the
branches of `send()` with the mutex; `ReceiveRegisters`, `ReceiveChecks`,
`ReceiveSettles`, `ReceiveEnds` the steps of `receive()`. The places of the buffer
are counted as `LinkedList` does; a sender that has been blocked is granted its
place in the step that frees it. `CallAborts` is an abort, `LockThrows` what follows one
in `lock()`, `WaitEnds` the return of `newReceiver.wait`. `events` names the events after
which the channel promises less: an abort, a second delivery to one receiver ("twice"), a
list that shrank or grew under a sender that awaited its place, and a message put into the
buffer while a receiver waits ("late").

**Signal.** `waitersLock` is never held across an await, so a critical section is
a single step; the handler's runs are those of `serializeQueueNext`.

**Counter.** `owner` is chosen at the start: a plain counter, a latch or a
barrier, and only the owner's operations are enabled.

**Broadcast and LockHold.** A send is at one subscriber at a time (`SendVisits`) and
takes its lock (`Enqueue`, `Notify`); a receiver is where `Monitor` has it, but there
is one lock and one condition per subscriber. `From` sorts the locks by the ids
that `getLockId` hands out when it first sees them, `Advance` takes the next one,
`Release` gives them back one by one, and each may throw. `IsServed` is the promise of
a `lock()` that is resolved: the lock serves its calls in turn, and one that was left
locked by an `unlock` that threw serves none any more.

**Events.** `queue` is the heap's array of ranks, with the heap operations of
`DataOps`; `Visit` calls the subscriber at the place the walk has reached, and what
the callback does to the subscriptions happens before the next `Visit`.

**Lists and Heaps.** A list class is a module of operators that map its data, with
the links of its nodes, to new data and a result or an error; `Lists` makes a step
of each call, for whichever class was chosen. A call that waits keeps the position it
has computed (`waiting`), gets its permits (`Granted`), and settles later. `BoundedList`
knows only the sequence of items. `waitInsert()` of a heap has one await more: its
elements are in the array when `waitSplice()` settles (`WaitSpliceSettles`), and the first
is moved up in a later step (`WaitInsertSettles`), with any calls in between.

**Algorithms.** `AlgorithmCalls` chooses a call and its input in the initial state
and has one action per function. The reference definitions (`FormatKeptBy`,
`NothingLostBy`, `MergesAgreeBy`, `EverythingTraversed`, `EverythingFormatted`, `CyclesCut`,
`ConfigResolvedBy`, `SnapshotFiltersBy`, `RowsSplitBy`, `StatusReadBy`, ...) stand at the
end of the modules they are about and say what the function promises without
following its code. Where the code does the opposite of what its documentation says, the
definition claims nothing of that case, and section 4 names it.
The commands of `ps` are sets: what a filter asks for by its words, and what the code
lets through when it compares the first letter instead. Numbers of `toFixedLength()` are
thousandths of either sign, a value of an environment variable is its type and what its
text reads like.

**Files, processes, loggers, sockets.** An action per system call or await. A file
is the set of its contents, {} if there is none; a process that ends keeps what the
system keeps (files) and loses the rest. The console does not wait for its printer, whose
`print()` and `clear()` await different locks: `RecordSpooled` and `PrinterClears` go on in
any order, and `Shown` is what a reader sees in the end. `faults`, `breaks`, `closeFaults` and
`printFailures` count the failures that TLC injects, `causes` and `upset` remember which
of them excuse what comes later.

## 3. What the runs check

| Run | Module | Instance | Shows |
|---|---|---|---|
| `mutex` | `Mutex` | 4 tasks, all abort | exclusion, no wait on a free mutex, first come first served, `LostToAbortedOnly`, every `lock()` returns |
| `mutex_lost_hand_off` | `Mutex` | 3 tasks, 1 aborts | *violation*: a locked mutex that nobody owns |
| `condition` | `Condition` | 3 tasks, all abort, one uses `tryLock` | refinement of `Monitor`; a signal wakes a task |
| `rw_lock` | `RwLock` | 3 tasks, all operations, aborts | a writer is alone; `WaitsAreJustified` |
| `semaphore` | `SemaphoreUse` | 3 tasks, 2 permits, counts 1 and 2, 3 calls | `PermitsGoInOrder`; every `acquire()` returns |
| `blocking_queue` | `BlockingQueue` | 2 tasks, capacity 2, 4 items | `QueueKeepsItems`; every `waitEnqueue()` returns |
| `channel` | `Channel` | 3 tasks, capacities 0 and 2, 3 messages, 1 abort, close | `ChannelDelivers` |
| `channel_close` | `Channel` | 2 tasks, capacity 0 | *violation*: a closed channel leaves a receiver waiting |
| `signal` | `Signal` | 3 tasks, both modes, 2 signals | `WaitersReleased`, `SignalLostToAbortedOnly`; every `wait()` returns |
| `counter` | `Counter` | 4 tasks, 3 to release, all three owners | nobody waits for the current value, rounds do not mix, an opened barrier leaves nobody |
| `data` | `MCData` | capacity 3 (heap 4), 2 values, batches of 2; inputs of up to 5 parts | lists refine `BoundedList`, heaps `PriorityBag`; seven properties of algorithms |
| `async` | `MCAsync` | see below | one property per component |

Where a component promises several things that only make sense together, one
property is their conjunction, and its parts are definitions with comments of
their own:

* `WaitsAreJustified` (`RwLock`): counters agree with the holders, operations that
  follow the protocol are accepted, readers wait for writers only, and whenever all
  sleep somebody holds the lock (`DeadlockNeedsUpset`).
* `PermitsGoInOrder` (`SemaphoreUse`): conservation, order, no idle permit.
* `QueueKeepsItems` (`BlockingQueue`): places conserved, order, no loss
  (`LossNeedsShrink`).
* `ChannelDelivers` (`Channel`): at most once, no loss (`LossNeedsUpset`), senders meet
  receivers, oldest receiver first.
* `WaitersReleased` (`Signal`): nobody beside a raised signal, one waiter per signal,
  order.

The run `data` starts in one of three kinds of state: a list of one of five classes,
a heap, or a call of an algorithm with its input. The state that TLC compares leaves
out the last call of a list or a heap and its result (`View`), which no later step reads. The run
`async` starts with one of eleven components, and the variables of the others keep
their initial values, so the number of states is the sum of those of its parts and
not the product. Its parts:

| Property | Instance | Named exceptions in the property |
|---|---|---|
| `SubscribersGetAll` | 2 subscribers, 1 sender, 2 receivers of one of them (`FirstOnly`), capacities 1 and 2, 2 sends, 1 abort | an aborted receiver ate the signal; a falsy message |
| `HoldsNeverDeadlock` | 3 tasks, 2 locks, lists of 1 or 2, 1 `unlock` that throws | a task that names a lock twice; locks after the `unlock` that threw |
| `DispatchServesSubscribers` | 1 event, 2 listeners, 1 waiter, 1 iterator, 2 priorities, 3 subscriptions, 2 dispatches | callbacks that subscribe, or a `once` subscriber that removes itself, move the entries under the walk; the order of ranks with more than two entries |
| `TicksGoOn` | 3 callbacks at once, all options | callbacks overlap after a `stop` and a `start` |
| `WholeOrLost` | 2 writers, 1 fault or crash, all flags | missing between unlink and rename, after a crash there or a rename that failed |
| `LocksComeBack` | 2 tasks in one process, 1 in another, 1 `close` that fails, crashes, both classes | a lock file left behind, a socket closed by the signal or forgotten |
| `PidFileTells` | 2 processes, 2 pids, a killer | killed or signalled processes, a file another process wrote or removed; the order of the handlers is not claimed |
| `RecordsKept` | 2 logs of which one's name ends in the other's, 4 calls, 1 failure or crash | two rotations of such logs at once |
| `SpoolPrintsInOrder` | 2 texts, 4 prints, 1 flush or clear, 1 failure, with and without the proxy | the record whose own output failed; counts after a failure |
| `ErrorsReported` | 3 calls, 2 errors, 4 kinds of socket | a `TcpSocket` reports twice; a call that threw hides one error |
| `OutputTellsGroups` | labels "a" and "", 4 calls, any order of prints and clears | records printed before a `clear()` may be shown after it and are not held to their group; nothing is claimed after a clear that took later records (`overtaken`) |

An exception is not an excuse the model invented: each is a place where the code
does less than one would wish, found by stating the property without it first.
Section 4 lists them.

**Bounds.** Three tasks are the least with which two interact while a third
interferes (holder, waiter that aborts, waiter behind it); the mutex and the
counter have four, for two waiters on either side of one that leaves. The
semaphore's counts 1 and 2 of 2 permits give a large call in front of a small
one. Two tasks that take two locks in the wrong order wait in a circle; the third waits
behind one of them. Capacity 2 with items in batches of 1 and 2 makes a list shrink, but not
empty, under a waiting call; the lists of `data` have three places, so that a call in
the middle has a neighbour on both sides, and the heap four, so that it has two levels
and an element that moves twice. Three messages fill a buffer of two with one
sender blocked. Graphs of errors and objects have three nodes: a cycle, a shared
node and one below. Two writers, two processes and two logs are what it takes to
overlap; one failure at a time is what the code is written for. `MaxIssued`, `MaxItems`,
`MaxMessages`, `MaxAborts`, `MaxSignals`, `MaxSends`, `MaxFailures`, `MaxSubscriptions`,
`MaxDispatches`, `MaxRunning`, `MaxFaults`, `MaxCloseFaults`, `MaxCalls`,
`MaxBreaks`, `MaxLocks`, `MaxPrints`, `MaxOthers`, `MaxErrors`, `MaxConsoleCalls`, `MaxNodes`, `MaxBatch`,
`Values` and the lengths of the inputs are the only bounds; each is in a guard, or in the
initial state, and named. A run
stops only where the system may (no task calls anything); this is why deadlock
is not checked in most runs.

**Fairness.** The event loop runs every continuation whose promise is settled:
weak fairness of the actions after an await. `EveryLockReturns`,
`EveryAcquireReturns`, `EveryEnqueueReturns` and `EveryWaitReturns` also assume that a
task that holds something gives it back, that somebody dequeues, and that the signal
stays raised. Nothing is assumed of calls, aborts, `close()` or `reset()`. The other
runs have safety properties only; that a timer "goes on" or a lock "comes back" is
stated there as what must be under way in every state.

## 4. Findings

1. *Lost hand-off* (`mutex.ts:62`, run `mutex_lost_hand_off`). A waiter is aborted, and
   before its continuation has taken its resolver off the list, the holder unlocks: the
   mutex is handed to a promise that is already rejected and stays locked for ever.
   `LostToAbortedOnly`, proved in `MutexProofs`, says this is the only way to lose it.
2. *Close* (`channel.ts:197`, run `channel_close`). A receiver that already awaits its
   message listens to its own signal only: `close()` does not reject it.

The passing runs state what remains true with these in the code: which event a
loss, a deadlock or a missed meeting needs. The other disagreements are the named
exceptions of the properties, or steps of the models that none of them excludes:

| Where | What the code does | Where it is named |
|---|---|---|
| `async/synchro/rw-lock.ts:183` | after a downgrade the last reader's single signal can go to a reader, which sleeps again because a writer waits: all wait, nobody holds the lock | `RwLock.DeadlockNeedsUpset` |
| `data/queue.ts:19` | `waitEnqueue()` inserts at an index computed before its await; if the list has shrunk and is not empty, the new item replaces the whole chain | `BlockingQueue.LossNeedsShrink`, `Lists.GoesWrong` |
| `data/native-array.ts:157` | `waitSet()` overwrites an item or leaves a hole | `Lists.GoesWrong` |
| `data/binary-heap.ts:52` | several items are inserted and only the first is moved up | `Heaps`, the variable `unordered` |
| `data/binary-heap.ts:60` | a `waitInsert()` moves up an index that it computed two awaits ago | `Heaps`, `unordered` and `Placed` |
| `async/synchro/broadcast.ts:226`, `:232` | the lag is tested before the wait and not after; a falsy message counts as none | `Broadcast`, the variables `lost` and `dropped` |
| `async/synchro/helpers/lock-hold.ts:55`, `:97` | a release stops at the first `unlock` that throws; a lock named twice waits for itself | `LockHold.HoldsNeverDeadlock` |
| `async/events/helpers/event-dispatcher-to-async-iterator.ts:57` | a second `next()` before the first has settled overwrites its resolver | `Events.IteratorNext` |
| `async/synchro/file-lock.ts:57`, `udp-bind-lock.ts:112` | the file of a process that ended stays; the signal that aborts a `lock()` closes the socket later too | `ProcessLocks.LocksComeBack` |
| `node/fs/write-file-atomic.ts:96`, `:108`, `:115` | a copy that fails is ignored; a write that fails leaves the temporary file; the file is unlinked before the rename; "wx" is tested with `stat` only | `AtomicWrites.WholeOrLost` |
| `node/process/exit-manager.ts:42` | the handler of the lowest number comes first, although `VERY_EARLY` is the highest | `ProcessLife.Lowest`; `PidFileTells` claims no order |
| `node/process/process-pid-file.ts:43` | the handler removes the file at exit although another process wrote it since ("if it was created by this class instance", `:15`) | `ProcessLife.AtExit`, the cause "removedByAnother" |
| `app-util` `rotate-log-files.ts:50` | the name is not anchored: the rotation of "log" takes files of "old-log" | `LogFiles`, the variable `overlapped` |
| `app-util` `file-printer.ts:212` | after the first rotation the stream stays open on the renamed file | `LogFiles.RenameCurrent` |
| `node/fs/compress-file.ts:100` | a read error is not passed on: the promise never settles | `LogFiles.ReadFails` |
| `app-util` `text-stream-printer.ts:89`, `no-repeat-printer-proxy.ts:131` | the failed record is dropped; it still counts as the last one | `Printers.SpoolPrintsInOrder` |
| `app-util` `text-stream-printer.ts:57`, `:107` | `clear()` and `print()` await different locks: an "end of" a group may be shown after the clear, and a record printed after it may be cleared | `Consoles.OutputTellsGroups` |
| `node/net/tcp-socket.ts:67` | events are forwarded twice | `Sockets.ErrorsReported` |
| `fs/text-files/text-file.ts:151` | `finalNewline` null strips a newline that is there (`:70`: "the stringifier default is used"), one of two is left when none was asked for, "null" may be appended | `Formatting.TextKept` |
| `fs/text-files/text-file.ts:195` | the test for CRLF wants a carriage return after each newline, the last too: a file whose lines all end in CRLF resolves to `null`, which the type keeps for "unknown or mixed" (`:30`) | `Formatting.TextKept` claims nothing of such a text |
| `fs/text-files/json5-file.ts:101` | undefined has no text: a `TypeError`, or with an encoding of iconv-lite an empty file | `Formatting.WriteNothing` |
| `ecma/object/traverse.ts:201`, `:475` | a replacement is lost with Break or Halt; deferred changes of a Set or Map collide | `Traversal.NothingLostBy` |
| `ecma/error/format-error.ts:149`, `traverse-error.ts:86` | the single-line format does not end on a cycle of causes; a walk ends at an error reached twice | `Traversal.EverythingFormatted`, `EverythingTraversed` |
| `ecma/json/replacers/circular-reference.ts:58` | the first parent of a shared object is taken for its only one | `Traversal.CyclesCut` |
| `app-util` `resolve-extendable-config.ts:199` | what a file extends overrides the file's own values | `Merging.ConfigResolvedBy` |
| `app-util` `get-processes-snapshot.ts:181` | filters on ignored fields drop every process; a command is compared by its first letter | `Processes.SnapshotFiltersBy` |
| `cli` `git/status-v1.ts:66` | a line with a blank status letter throws; the path lacks its last word, and that of a rename starts with the arrow (`:84`, `:87`), although the type says "Path relative to the git root" (`:16`) | `Processes.StatusReadBy` |
| `ecma/string/truncate.ts:88`, `ecma/number/to-fixed-length.ts:95` | `slice(-0)` is the whole text; a number may come out longer than asked, by its sign, its point or its digits | `Formatting.TruncateFits`, `FixedLengthKept` |
| `shell/env-variables/parse-env-variable.ts:30`, `net/http/_http-field-value-util.ts:130` | a boolean written as a number, or a small bigint, is read as a number, a large number as a bigint; a comma in a second quoted string splits the value | `Formatting.EnvRoundTrips`, `FieldsKeepValues` |

## 5. What is proved

**`EcmaArrayProofs`.** For every array without repetitions: `RemoveSafeFacts`,
`PushFacts` and `ShiftFacts` say what removal of an item, `push` and `shift` do to
membership, to the absence of repetitions and to the relative order. All the
waiter lists rest on them. `RemoveSafeShape` is the form of a removal from any array.
`Recount` is the lemma that one step of one task changes a cardinality by one. Of linked
lists, `InsertedFacts` says what `internalSplice` does when it inserts, at any index, valid
or not, and `RemovedFacts` and `DequeueRemoves` what the removal of a node does; the bounded
queue and the channel use them.

**`MutexProofs`.** For any set of tasks, finite or not, and any of them aborting:
`TypeCorrect`, `ExclusiveOwner`, `NoIdleWaiting`, `FirstInFirstOut`,
`LostOnlyToAborted`. The properties are not inductive alone. The invariant is

    IInv == TypeOK /\ MutualExclusion /\ NoWaitOnFreeLock /\ ListInv /\ AheadInv

`ListInv` links the list to the tasks: who waits is on it, who is outside or holds
is not. Without it, `Unlock` could give the mutex to a task that owns it already,
or clear the flag while somebody waits. `AheadInv` says that those ahead of a task
stand before it on the list, which is what makes the first of the list the
oldest. There is one step per action; `LossStep` proves the action property.

**`MonitorProofs`, the monitor.** For any set of tasks, `ExclusiveInside` and
`NoneForgotten`: one task at most is inside the monitor, and every task that sleeps or
queues stands on the queue from which it will be woken. `QueueInv` is the strengthening:
it also says that whoever stands on a queue belongs there, without which an unlock could
make a second task "inside". `GiveFacts` and `TakeFacts` are what `unlock()` and `lock()`
do to it; `RwLock` and `Channel` are built of the same actions.

**`MonitorProofs`, the lock.** For any set of tasks, any calls and any aborts:
`WriterIsAlone` (`WriterExcludesAll`) and `WaitsJustified` (`WaitsAreJustified`: the count
of waiting writers, no deadlock without an abort or a downgrade, readers wait for writers
only). No assumption on the constants is used. `MonitorStep` shows that every step of the
lock is a step of the abstract monitor or leaves its variables alone, so the invariant of
the monitor is had for nothing. `LockInv` adds to it:

* `PlaceInv`, which phase of which operation a task may be in at each place of the
  monitor: without it a task could leave its loop twice;
* `CountInv`: `readers` and `writersWaiting` are the cardinalities of the sets of tasks
  they stand for, and `writer` is the existence of the one that writes. The code changes
  the numbers at some steps and the tasks' holdings at others; the sets (`Reads`,
  `Writes`, `WaitsToWrite`) say from which step to which a task is counted.
  `Recount` gives each change of a cardinality;
* `AbortInv` and `ExclusionInv`: exclusion fails only after an aborted upgrade;
* `ReaderInv` and `WakeInv`: for each task that sleeps, who will wake it. The second is
  the heart of the argument: while there are readers the first sleeper is a writer, so the
  *single* signal of the last reader is not lost on a reader that sleeps again; a downgrade
  breaks exactly this, an abort takes a signal with it, and the property says so.
  `SleepersServed` is shown step by step in `ServedOn`, `ServedWhenSleeping`,
  `ServedWhenReleasing` and `ServedWhenNotified`.

**`MonitorProofs`, the channel.** For any set of tasks, any capacities, any numbers of
messages and aborts, and `close()` at any time: `ChannelServes` (`ChannelDelivers`). The
assumption is `ChannelAssumption`, the types of the constants. The steps of the channel on
the monitor are the monitor's own, but for an abort, which rejects the calls of several
tasks at once when the channel is closed (`InterruptMoves`). `ChannelInv` adds to `IInv` and
the types:

* `TaskInv`, where in the monitor a task is at each stage of its call, and which list it is
  on: only a sender of a channel without a buffer sleeps, only a receiver that has
  registered is on the list of receivers, and one whose promise was settled is on its way
  to the lock or in it;
* `PlacesTaken`: free places, places that are taken and places that are promised are no more
  than the capacity; some may be lost to rejected senders. The type invariant is not
  inductive without it, as `places` would outgrow the capacity;
* `MessageInv`: a message is on its way, in the buffer, with one receiver or returned, and
  two calls never send the same. `LossInv` adds that all that was sent is at one of these
  places until a promise was settled twice or the list shrank, and that without a buffer
  neither happens before an abort: a receiver that is registered there has nothing yet;
* `MeetInv`: while a sender sleeps there are at least as many senders that do not as there
  are receivers registered. `RendezvousMeets` says only that not everybody waits; it is not
  inductive, since one sender that is awake may serve one receiver and leave another behind
  that had counted on the sleeper;
* `OlderInv`: those who waited when a receiver registered are before it on the list, which
  makes the head the oldest; and, until a message comes late, a receiver that waits has
  found the buffer empty, without which a younger one could take a message from it.

There is a lemma per step and part where the step matters to the part (`DeliverMessages`,
`CheckMessages`, `MeetRegisters`, `OlderDelivers`, ...), and one for the steps that leave
the part alone. `CopiesCount` turns the sum of three cardinalities into the statement
that a message is at one place.

**`SemaphoreProofs`.** For any set of tasks, finite or not, any counts and values, and any
aborts, resizes, permits posted or barged for: `SemaphoreKeepsOrder`
(`PermitsGoInOrder`). The permits that were ever issued are those of the value, those
lost with aborted calls, and those the tasks own; nobody overtakes a call; no permit lies
idle beside the call it would serve. The assumptions are `ValueAssumption` and
`CountAssumption`. What tasks own together is a sum over a set, which is written as the
cardinality of a set of numbered permits (`Permits`, `SumOf`): what a step does to a sum
is then what it does to a set (`SumOfBoth`, `SumOfOne`, `SumOfList`), and no induction over
the tasks is needed, nor that they be finitely many. The invariant is

    IInv == TypeOK /\ CallInv /\ RunInv /\ IdleInv /\ AheadInv /\ OwnedInv

`CallInv` says where a call is; `RunInv` that a second run of the handler is asked for
during a first one only; `IdleInv` that the first of the queue has been looked at, unless a
run is due; `AheadInv` is what the order rests on; `OwnedInv` is conservation, with the
finiteness without which a cardinality means nothing. `ServeKeeps` is the lemma of all
steps that have the queue served; the others have lemmas of their own.

The places of a bounded queue are the permits of its semaphore, so the second theorem of
the module, `QueueHoldsItems` (`QueueKeepsItems`), rests on the same lemmas (`CutFacts`,
`RequestServes`, `SumOfBoth`): for any tasks, any capacity, any number of items, and any
calls that abort, remove or clear. Its assumptions are `ValueAssumption` and
`QueueAssumption`, which says that the semaphore starts with all its places free, as the
constructor of the list has it. The invariant is

    QueueInv == QueueTypeOK /\ BatchSizes /\ PlaceCalls /\ PlacesInv /\ ItemsInv

`PlacesServe` is conservation: a place that is taken from the semaphore is promised to a
call or lost to one that was rejected. `BatchSizes` turns a promise into as many items,
which `ItemsInv` says more of: batches have no item in common with each other or with the
list (`BatchInv`), the count is never less than the chain (`ChainInv`), and what has to
come before an item is older than it and in no batch but its own (`EarlierInv`). The order
of the list is inductive only with the last two: when a batch goes in behind the list, none
of its items has to come before one that is there. What the list's own operations do is in
the lemmas on linked lists of `EcmaArrayProofs`, and in `ConcatOrdered`. The properties that hold
unless the list changed under a waiting call are proved with that condition, by the events
in `upset`, as the runs check them.

**`SignalProofs`.** For any set of tasks, any bound on the signals and any aborts:
`AllReleased` (`WaitersReleased`: one waiter per signal, in order, none beside a raised
signal) and `LostOnlyToAborted`. The invariant adds `CallInv` (where a call of `wait()`
is agrees with its promise and its place on the list), `RunInv` (a run of the handler is
due whenever it has something to do; without it `NoWaitBesideSignal` is lost when a run
ends) and `AheadInv`. The proof found that the type invariant was false for a signal that
starts raised and a bound of no signals at all, hence `MaxSignals \in Nat \ {0}` in
`SignalAssumption`: the first state counts as a signal.

**`CounterProofs`.** For any tasks, values, owner and number of participants:
`NobodyLeftWaiting`, `RoundsAreCounted` and `OpensForAll`. The invariant adds
`RoundInv`: those who wait at a barrier are finitely many and all wait for `Count`.
Without it the step that opens the barrier could leave somebody behind, and the
equation between the value, the waiters and the aborted arrivals would fail
after it. The assumption used is `CounterAssumption`. The type invariant of
`Counter` is a part of the proved invariant and has no run of its own.

**`SynchroProofs`, the lock holds.** For any tasks, any finite number of locks, lists of any length with
any repetitions, and any number of aborts and of `unlock`s that throw:
`HoldsAreDeadlockFree` (`HoldsNeverDeadlock`). The assumption is `HoldAssumption`, that
the locks are finitely many; the bounds of the run (`MaxLocks`, `MaxFailures`) may be
any. The argument is the classical one, on what the code really does:

* `IdsInv`: no two locks have one id. `getLockId` hands the ids out lazily, in the order
  in which the comparisons of a sort ask for them, so the model says only that the new
  ids fill an interval; `IdsGiven` shows that as many locks as there are numbers get
  different ones (a surjection between finite sets of one size);
* `OrderOf`: what a task holds has smaller ids than what it has not come to, but for a
  lock that it named twice, and for the only lock of a list, which has no id at all
  (`sort` compares nothing);
* `HeldOf` and `CallsOf`: a lock that a task holds serves this task first, and everyone
  else on the lock's list waits for it with one call. Without them a lock could be granted
  to a task that is not waiting, or an abort could take away a call that was served.

Of tasks that wait for one another, one waits for the lock with the largest id of all
(`LastWanted`); the task that holds this lock waits for one with a larger id, or for the
same one. Two errors of the model came to light when the invariant turned out not to be
inductive: a lock that an `unlock` had left locked still served the next call, and an
abort could remove the call of the same task that already had the lock. Both are
corrected (`IsServed`, `LastCall`).

**`SynchroProofs`, the broadcasts.** For any subscribers, any senders and receivers, any
messages and capacities, and any number of sends and aborts: `BroadcastReachesAll`
(`SubscribersGetAll`). `BroadcastAssumption` says that a receiver calls for a subscriber of
its own (`Own`; several may share one), that a sender does not receive in the same call,
and that capacities are positive, as the constructor demands (`broadcast.ts:106`). The
invariant has three parts:

* `Queued`: the numbers of the messages in a queue increase, from above the latest that was
  accounted for up to the last that was sent, and what was sent is accounted for, queued or
  missed. The drop of the oldest message and the lag count change together (`EnqueueStep`);
* `Placed`: a receiver calls for its own subscriber, and one that sleeps is on that
  subscriber's list. Without it a signal could find nobody, or wake another's receiver;
* `OnTheirWay`: while somebody sleeps, there are at least as many receivers woken and on
  their way to a queue as there are messages in it. The property says only that one is on
  its way. That is not inductive: with two messages and one receiver on its way, the
  receiver takes one, and the other lies beside a sleeper. It is what one
  signal for each message comes to, and what the two exceptions break: a signal to a
  receiver that had aborted, and a falsy message that is taken for none.

`QuietStep` covers the steps that leave the queues alone, wake nobody and put nobody to
sleep (sends, aborts, locks); those that receive, sleep or enqueue have lemmas of
their own.

**`AsyncProofs`.** Six components of the run `async`, in the specification of that
run. `ServiceStep` says that a step is one of the chosen component and leaves the others'
variables alone. The assumption is `AsyncAssumption`: the number of errors is a natural
number, no writer has the name that stands for half a content, no task the name that
stands for a free lock, and 0 is neither a process nor a pid.

* `TimersTick` (`TicksGoOn`): for any number of runs. A started timer has a tick to come
  or a run that will ask for one. The strengthening is the types of the two counts;
  `TimerEffects` gives the effect of each step.
* `ErrorsAreReported` (`ErrorsReported`): for any calls and any number of errors, every
  error rejects the calls that wait or is forwarded, as often as the kind of socket does.
  The strengthening is that only calls of the socket listen; `ListenersStep` covers the
  steps that leave the errors alone.
* `FilesStayWhole` (`WholeOrLost`): for any number of writers,
  any faults and any crashes. Three strengthenings: `TmpOf` says what the temporary file
  of a call is at each of its steps (without it the rename could bring half a content);
  `AloneOf` says what a call that no other overlapped has read, copied and written so far
  (without it nothing relates the file at the end to the file at the beginning);
  `FileInv` says which call is to blame when there is no file. There is a lemma per system
  call, and `OtherCalls` says once why a step of one call does not disturb the others.
* `LocksAreGivenBack` (`LocksComeBack`): for any tasks of the two processes and any aborts,
  ends and failures. `LockInv` says that a task that is at a step with the lock is the one
  that took it, which is more than the property: "holding" is only one of these steps, and
  a second task could be past its `open()` and not hold yet. `StepOf` says that the steps of
  `unlock()` are those of the lock's class, and that the dead are idle: without it the
  `close()` of a socket could be followed by the removal of a file. `GoesOn` and
  `GoesWithout` cover the steps that leave the lock as it is.
* `PidFileTellsWho` (`PidFileTells`): for any processes and pids, and any kills. `FileOf` says
  that a process whose file it is has its `write()` behind it, and its handler registered
  and still to run, unless it was killed. `HandlersOf` says that no handler has run that is still to run, and that one that was
  registered is to run or has run, or the process was signalled (`Kept`): with `LowestFacts`
  none runs twice, and none is left when the process is gone, in whatever order they run.
  `LeftAlone` says once why a step of one process does not disturb the others.
* `RotationsLoseNothing` (`RecordsKept`): for any logs, any number of files, calls, failures
  and crashes, as long as no two rotations have met (`overlapped`). `NewestFirst` says of any
  two files of a log which is newer, and that a compressed file with the number of another
  is its copy; the property forgets the copies, without which the removal of a source could
  lose its records. `RenamingInv` orders the files that a rotation has still to rename before
  those that it has renamed: with it a rename overwrites nothing but the copy of what is
  renamed. `OpenInv` keeps what a printer writes to the newest file of its log, under a name
  that is not compressed, and `CompressInv` says that there is a newer file than the one that
  is compressed: the two together keep a print out of a file that is about to be removed.
  `FilesNamed` is the claim about names. `LogStep` has a lemma per step that matters.

**Only model-checked.** Liveness (TLAPS proves nothing under fairness), the three
refinements (`Monitor`, `BoundedList`, `PriorityBag`), everything in the run `data`, and
of the run `async` the dispatchers, the printers and the console; what the
console shows is a fold over its calls, a fact by induction on their sequence.
The refinement of `Monitor` by `Condition` maps the microtask queue to places of
tasks by filtering it with a condition of two functions (`SelectSeq`), whose value after a
step is a fact by induction on the queue. The modules of algorithms use `RECURSIVE` operators where the code recurses
on data of any depth, which TLAPS cannot reason about. What `removeSafe` does on
arrays with repetitions is left out: its callers push an entry once.

## 6. Abstractions, and what is not modelled

* Messages and items are numbers in the order of creation, or model values; texts
  are short sequences of the characters that matter to the algorithm.
* The errors for releasing what is not held are properties of users that keep the
  protocol (`RwLock.AcceptsProtocol`), not actions.
* `releaser` objects and disposal (`[Symbol.asyncDispose]`) are the unlock they call.
* A handler of `serializeQueueNext` may throw in `Printers` only, the one place where
  it can.
* A call that is given a signal that has aborted already throws at once and changes
  nothing; it is left out.
* An `acquire()` of more permits than the maximum blocks the queue for ever; the runs
  do not make such calls.
* `Broadcast`, `RwLock` and `Channel` use the monitor's steps in place of those of
  `Mutex` and `Condition`; `Printers` and `LogFiles` take the locks they use for granted.
* A dispatch within a dispatch of the same event, TLS, data transfer on sockets, and
  how a console record is written out are left out.
* External code is modelled from how it is used: the parsers and stringifiers of the
  text files, `ps` and `git`, the calls of node's `fs`, `net` and `process`.

Not modelled, with the reason: the collection interfaces (types without code); the
helpers on arrays, maps and numbers, case conversions, string pointers, regular
expression builders and shell escaping (pure functions of a few lines, or one
character at a time); the `Logger` class and the proxies that only filter or add records
(no state that two calls share); `exec-async`, `shell-exec` and the docker wrappers (one
child process, and argument lists); third-party wrappers and tables such as
`replace-diacritics`; the configurations of tools.

## 7. Hazards without a property

`PROJECT.json` lists the hazards with their lines. Two there have no property: the
promise of `compressFile()` that never settles (`compress-file.ts:100`), which is an
action of `LogFiles` and after which the rotation does not go on, and the late "close"
event of a stream (`file-printer.ts:151`), an action too, which costs an open stream and no
record. Smaller ones, not listed there:

* an aborted `Condition.wait()` returns only when the mutex is free
  (`condition.ts:112`), which is intended;
* `reset()` right after `signal()` takes the signal back from tasks that were already
  waiting (`signal.ts:105`), of which the class promises nothing;
* the promise of a printer that rejects is awaited by nobody (`app-util`
  `logger/logger.ts:305`);
* `dispatch()` walks the heap's array, which is not the order of priorities
  (`_event-dispatcher-base.ts:91`): `Events.BestRankFirst` says what is left of it.

## 8. Plan

What remains is to prove more about the run `async`: that records are printed in
order (`SpoolPrintsInOrder`), and that a dispatch serves whoever is subscribed
(`DispatchServesSubscribers`), which needs what the operations of a heap do to its array.
