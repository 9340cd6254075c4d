# Nuclex.Support.Native: formal models

TLA+ models of the Nuclex support library for C++, the TLC runs that check
them on small instances, and proofs that the TLA+ proof system checks for
instances of any size.

The library has no program of its own. It is a set of parts that applications
combine: synchronisation primitives, a thread pool and background jobs, events,
collections, a dependency injection container, settings stores, text utilities
and thin wrappers of operating system calls. What makes it hard is the code that
several threads run, from bare atomics and futexes up to the thread pool, the
concurrent event and the service provider; after it come the data structures and
conversions that one thread uses at a time, whose mistakes show after a certain
sequence of calls or for a certain input only. Both are modelled here.

## Inventory

| Part | State | Operations | What makes it correct | Modelled |
| --- | --- | --- | --- | --- |
| `Semaphore` (`Threading/Semaphore.cpp`) | ticket counter, futex word; or counter, mutex, condition | `Post`, `WaitThenDecrement`, `WaitForThenDecrement` | no ticket lost or taken twice; nobody sleeps on a ticket; timed waits end | yes |
| `Latch` (`Threading/Latch.cpp`) | countdown, futex word; or countdown, mutex, condition | `Post`, `CountDown`, `Wait`, `WaitFor` | passes only at zero; nobody sleeps at zero; timed waits end | yes |
| `Gate` (`Threading/Gate.cpp`) | futex word; or flag, mutex, condition | `Open`, `Close`, `Wait`, `WaitFor` | nobody sleeps in front of an open gate; timed waits end | yes |
| `ThreadPool` (`Threading/ThreadPool.cpp`) | lock-free queue, task and thread counts, a status and a thread object per slot, shutdown flag, a semaphore, a gate | constructor, `Schedule`, the workers' loop, destructor | tasks are run or cancelled; the minimum of threads stays; memory outlives threads | portable build |
| `ConcurrentJob` (`Threading/ConcurrentJob.cpp`) | status, stop source, thread, mutex, condition, exception | `Start`, `StartOrRestart`, `Cancel`, `Wait`, `Join`, destructor | one run at a time; a cancellation reaches the run it is meant for; requests are answered; the destructor outlasts the worker | yes, but for failures to get a thread |
| `StopSource`, `StopToken` | a shared flag | `Cancel`, `IsCanceled` | deprecated in favour of the standard library's | no |
| `Process` | child process id, three pipes, exit code | `Start`, `Wait`, `Join`, `Kill`, `Write`, output events | no output lost; no signal to a reaped process | yes, with one output stream for both |
| `ConcurrentEvent` | current and recyclable subscriber array, reference counts, spin lock | `Subscribe`, `Unsubscribe`, emission | an array is freed only after its last emission; each subscriber is called once | all but the destructor |
| `Event`, `Delegate` | built-in or heap array of subscribers | `Subscribe`, `Unsubscribe`, emission | callbacks that change the subscriptions do not derail the emission | yes, but for copies |
| `RingQueue`, `ShiftQueue` | memory, start, end, capacity | `Write`, `Read`, `Skip`, `Shove` | first in, first out, across wrapping and growing | yes |
| `KeyedArrayCache`, `SequentialSlotCache` | slots, doubly linked recency list, index | `Insert`, `TryGet`, `TryTake`, `Evict...` | list and slots agree; the least recently used go first | yes |
| Observable and dynamic arrays, `Variegator` | a standard container | add, remove, replace | notifications in step with the data | no |
| Services | bindings, instance sets with presence flags, change mutex, resolution stack | bind, build provider, get service, create scope | a singleton is created once; cycles are reported and do not deadlock | yes |
| Settings stores | lines, sections and properties of an ini document; a map; keys of the registry | retrieve, store, delete, load, save | the document stays what the map says | yes, without files |
| `RollingLogger` | ring of lines, indentation | log, indent, clear, read lines | the last lines, in order | lines and their texts |
| `Variant` | a type and memory for its value | assign, copy, convert | values are owned once and convert as documented | yes |
| Text | none | casts, UTF-8, wildcard and case-insensitive matching | round trips | matching, encodings, cleaning, numbers |
| Interop | none | one system call each | error codes become exceptions | the futex wait and wake-up |

Interactions: `ThreadPool` sends its workers to sleep on a `Semaphore` and its
destructor to a `Gate`; `ConcurrentJob` runs on a thread or a `ThreadPool`;
`Process` and the observable collections publish through `ConcurrentEvent`; the
primitives use the futex and clock wrappers of Interop. There are no messages
and nothing is persisted apart from settings, so the hard behaviours of the
concurrent part are interleavings of threads, wake-ups that are late, lost or
come for no reason, timeouts that race an answer, and objects destroyed while
somebody is about to touch them. Those of the rest are sequences of legal calls
that leave a structure inconsistent, copies that throw half way, callbacks that
change what is being traversed, and values at the edge of a type or a buffer.

## Modules

| Module | Models |
| --- | --- |
| `Primitive` | what the models of the primitives share: constants and assumptions, a futex (or WaitOnAddress) wait and wake-up, the queue of a condition variable |
| `CountingSemaphore`, `CountdownLatch` | abstract specifications: what a semaphore and a latch promise |
| `Semaphore`, `Latch`, `Gate` | the Linux and Windows builds: one action per atomic operation or system call |
| `SemaphorePosix`, `LatchPosix`, `GatePosix` | the build on mutex and condition variable: one action per critical section |
| `ThreadPool` | the portable pool, with its semaphore by `CountingSemaphore` |
| `ConcurrentJob` | the job, its clients, its workers and its destructor |
| `ConcurrentEvent` | the concurrent event: one action per section under the spin lock or atomic operation |
| `Services` | registrations; provider, scopes and resolution contexts |
| `Process` | a client, the child process it runs and the pipes between them, on Linux and on Windows |
| `Delegate`, `Event` | the event for one thread, with callbacks that change it |
| `RingQueue`, `ShiftQueue` | the queues, each against the sequence of the items it holds |
| `LruCache` | abstract specification: what the caches promise |
| `RecencyList` | the doubly linked list of both caches |
| `KeyedArrayCache`, `SequentialSlotCache` | the caches, refined to `LruCache` |
| `RollingLogger` | the logger's ring of lines |
| `VariantValue`, `Variant` | values with a type and how they convert; variables that hold, copy and move them |
| `SettingsStore` | abstract specification: a table of settings |
| `MemorySettingsStore`, `RegistrySettingsStore` | settings as variants in a map, and as values of registry keys |
| `Settings` | a client of both, and of the texts that an ini file would hold |
| `IniDocumentModel`, `IniSettingsStore` | lines and index of an ini document; the store on top of it |
| `StringConverter`, `StringMatcher`, `StringHelper`, `QuantityFormatter` | text algorithms, as operators |
| `PrimitivesMC`, `ConcurrentMC`, `DataMC` | model checking modules that put components side by side; `ConcurrentMC` also has how an application registers services |
| `SemaphoreProofs`, `LatchProofs`, `PrimitivesProofs`, `ThreadPoolProofs`, `ConcurrentJobProofs`, `ServicesProofs`, `ConcurrentProofs`, `DataProofs` | theorems; `ConcurrentProofs` builds on `ServicesProofs` |

How state and actions correspond to the code:

* In the primitives, `pc[t]` is the place of thread `t` inside a method, and a
  variable with a member's name is that member (`FutexWord` is called
  `WaitWord` in the Windows build). `platform` is the build, chosen in the
  first state: the two differ in who watches the clock. A patience is
  "running" until it elapses; its length is not modelled. A call's history is
  summed up in `posted` and `admitted`.
* In `ThreadPool`, a worker has the number of its slot. Submitters are three
  counters (tasks enqueued but not counted, counted but not announced, and
  tasks in the queue), because `submitTask()` has no local state that matters.
  The queue is lock-free and assumed to be linearisable.
* In `ConcurrentJob`, everything done under `stateMutex` is one action, and
  what is done after unlocking, such as creating the thread, exchanging the
  thread object and notifying, is another. `token[w]` says whether the stop
  token of a running `DoWork()` still belongs to the current stop source, was
  asked to stop, or can never be asked any more. `wanted` is a history
  variable: a start that no call of `DoWork()` has answered yet.
* In `ConcurrentEvent` and `Process`, a call in progress has a list of steps to
  come, `todo`; an action takes the first one away and may put others in its
  place, as a loop or a retry does. The local variables of a thread are the
  other fields of `call[t]`. `Address` are the places arrays can be allocated
  at; a freed one is used again, because that is what defeats the
  compare-and-swap. A callback that changes subscriptions is like another
  thread that does so.
* In `Services`, a request becomes a list of jobs (lock a mutex, open a context,
  activate a binding, throw) that the corresponding lookup function produces;
  `contexts[t]` is the stack of resolution contexts of a thread, and the frames
  of a context are the factories that run in it. Factories make the requests
  that the registration script lists.
* In `Process`, `impl` is the implementation data, `client` the call in
  progress, `child` the other process. Both builds are in one module because
  they share the interface; the names of actions say where they differ. The
  destructor makes two calls, each with a `catch` of its own; `client.stage`
  says in which of them it is, or that it has got behind them.
* The containers keep their memory index by index, and their items carry
  numbers, so that a lost, doubled or misplaced one is visible. The ring of
  lines of an ini document is a sequence, and a pointer into it is a place.
* Texts in settings are classified by what is done to them (numerals, words,
  words that need quotes or escapes or that hold a comment), those of the text
  algorithms are sequences of code points or bytes.
* Where the code does something other than the operation it was asked for, the
  model notes it and stops there: `intact` becomes FALSE (queues, documents),
  an emission's outcome "undefined", `fault` tells of a use of freed memory.
  The properties speak of everything up to that point, and the conditions
  under which it is reached are written down (as `WriteMishandled` and
  `ReadMishandled` in `RingQueue`, for example) and listed under "Deviations".

`ConcurrentMC` and `DataMC` hold several components that do not interact. A
behaviour chooses its `subject` in the first state and the others stand still,
so the states add up rather than multiply. The properties of these runs are
conjunctions of the ones in the modules, where each is explained.

Mutants, which are definitions marked as such, are plausible mistakes. Each
property is checked to fail when a mutant takes the place of the definition it
is derived from.

## Runs

| Run | Instance | What it shows |
| --- | --- | --- |
| `semaphore_safety` | 3 threads that post 0, 1 or 2 tickets and wait; at most 2 posted | ticket accounting, futex word against counter, refinement of `CountingSemaphore` |
| `latch_safety` | 3 threads that post and count down 0, 1 or 2 and wait; at most 4 posted | futex word against countdown, refinement of `CountdownLatch` |
| `primitives` | 2 waiters and a third thread, all six primitives, fair | waits end when they can, timed waits end, signals reach somebody, refinement of the condition variable builds |
| `thread_pool` | minimum 1, maximum 2 threads, 3 tasks, fair | tasks are handled, threads and memory end in order |
| `concurrent_job` | 2 clients, 3 workers, own thread or pool, fair | one run at a time, cancellations and starts answered, everybody returns |
| `concurrent` | event: 2 threads, 2 callbacks, 4 addresses, 3 changes; services: 2 threads, 1 scope, 4 scripts, 2 requests each; process: 2 starts, pipes of 1, 2 portions; fair | arrays are counted and outlive their readers, changes are kept, instances are made once and in order, cycles are real, children are reaped and drained, calls return |
| `data_structures` | queues of 2 that grow, calls of up to 4 items, 3 slots, 2 lines, 3 delegates, integers of 2 to 6 bits, ini documents of 5 lines, texts of up to 3 or 4 letters | order and content of containers, refinement of `LruCache`, emissions that reach everybody, values that survive conversions and stores, text algorithms against their definitions |
| `semaphore_timed_wait` | as `primitives`; fails | finding 1 |
| `semaphore_lost_wake_up` | 3 threads; fails | finding 2 |
| `latch_spuriously_closed` | 3 threads; fails | finding 3 |
| `thread_pool_idle` | 2 threads, no task; fails | finding 4 |
| `concurrent_job_pooled` | 1 client, 1 worker; fails | finding 5 |

Why the bounds are enough. The races of a primitive involve a thread that
changes the state, one that waits and one that disturbs either: three threads
that take all roles cover them, and two tickets cover a ticket that is left
over and one that is gone. `MaxPosted` bounds the sum of posted tickets (or the
calls of `Open()`). The pool's races are between a worker that stays and one
that comes or goes; three tasks (`MaxTasks`) are what it takes for
`safeTaskCount > safeThreadCount + 1` to let it grow. `SizeLimit` stands for
2^64: it exceeds every count that can occur, so a wrapped count is as visible
as in the code. One idle heart beat stands for the default number of them. A
job can have one worker that runs, one that has yet to notify and one that a
client is about to join.

For the concurrent event, two threads are enough for a reader and a writer or
for two writers, and three changes (`MaxChanges`) for one that is overtaken
twice; with `SmallestCapacity` 1 every growth and shrinking happens. Two threads
fire, subscribe and unsubscribe in all combinations. Four addresses are one more
than the arrays that live at a time, and an allocation takes the first free one,
so that an address that was freed soon comes back. The four scripts of
`Services` hold a chain over all lifetimes, a cycle, several bindings of a
service with one of another lifetime, prototypes and given instances, and
factories inside factories. Races need two threads that ask for the same thing;
a second request of a thread finds what the first has left. A
process is started twice so that something can go wrong with what the first
start has left; a pipe of one portion and two portions to write are a child that
has to wait for its client.

The queues are small enough to wrap around, to grow while wrapped around and to
be filled to the brim; items are told apart modulo `ItemNumbers`, which exceeds the
items that are in a queue at a time, and words take two bytes so that counting
bytes and counting items differ. Three slots have a first, a middle and a last.
The logger keeps two lines, an event one subscriber in place and the rest on the
heap. Integers of 2 to 6 bits keep the relations between the four widths (each
wider than the one below, numbers that fit into one and not the other, both
signs) and the few numbers at the edges. The ini documents have properties
before the first section, a section that is declared twice, a property that
occurs twice, quotes, escapes and comments. For text algorithms the alphabet
has characters of one to four bytes, in both cases, with a lower case that is
longer, shorter or the same, white space of both kinds and both wildcards; a
mistake in a loop over two texts shows at three letters. Among them are k
and the Kelvin sign, whose cases differ in their number of bytes. Quantities are all
numbers up to 1100, and the ones at which the unit or the digits change.

Deadlock is not checked: a system whose bounds are used up stops, and so does a
gate that nobody opens.

## Fairness

A thread that can take a step takes it at last (weak fairness per thread, or
per step where a thread could otherwise choose). Nobody is obliged to post,
open, start, cancel, submit or destroy. For the primitives two more
assumptions: clocks advance, so that a running patience elapses, and a wait
whose patience has passed is not interrupted by a signal every single time
(strong fairness of `TimeOut`). A task ends; a `DoWork()` that has been asked
to stop returns, one that has not may run forever. The pool's liveness does not
count on heart beats. The five seconds `~ThreadPool()` waits are taken to be
longer than any task, so they only pass when no thread is left.

In `concurrent`, a call in progress goes on at last (weak fairness per thread),
and a patience elapses. No thread has to begin a call. For the process, only the
client is fair: the child need not write, read or exit, so that nothing but the
client's own patience may end a wait. For the event, weak fairness of a thread
is enough for its retries to end because the number of changes is bounded: with
an endless supply of changes by others, a compare-and-swap may fail forever,
which is what lock-free means. `data_structures` has no liveness: a call is one
step.

## Findings

1. `WaitForThenDecrement()` on Linux need not return. After a ticket was posted
   and taken, the futex word stays 1 with the counter at 0. FUTEX_WAIT fails
   with EAGAIN at once, the loop starts over, and only the kernel watches the
   clock. The header promises `false` after the patience. On Windows the method
   compares the clock itself, which `primitives` checks. A pool's idle workers
   spin for the same reason.
2. A semaphore waiter that announces "no tickets", finds one on its second look
   and restores the word wakes nobody; a waiter that fell asleep in between
   stays asleep with a ticket available.
3. `Latch::Post()` closes the futex word after a concurrent `CountDown()` has
   opened the latch. A waiter that falls asleep before the correction stays
   asleep on an open latch, the case that the comment rules out.
4. An idle worker subtracts itself from the pool's thread count before it knows
   whether it may end. If another worker ends in that moment during shutdown,
   the destructor goes on too early and frees the memory of a running thread.
5. A job on a pool can be destroyed between the unlocking of its mutex and
   `notify_all()`, which then runs on a destroyed condition variable. On a
   thread of its own the destructor joins the thread, and `concurrent_job`
   checks that this is enough.

Two more divergences have no run. The condition variable builds of `Gate` and
`Latch` signal once, so of several waiters only one resumes at an open gate or
latch (`PosixSignalsReachSomeone` states what is left). A futex gate that is
opened and closed at once may hold back threads that slept in front of it.

## Deviations

Where the code of the other components does something else than its
documentation or its name says. The models contain what the code does; the
properties in brackets hold up to this point and say so.

`ConcurrentEvent` (`ArraysOutliveReaders`, `SubscriptionsAreKept`)

* A recycled array is put in place without a reference of its own
  (`ConcurrentEvent.h:625-630`), so that the first emission frees it under the
  event. `revived` notes it.
* The reference to the current array is dropped before the compare-and-swap
  (665). If the array was replaced twice meanwhile, its address may be back with
  other content, and the changes of the others are lost. `overtaken` counts.
* If a change came between, the last subscriber's departure has no new array to
  discard and dereferences null (777).

Services (`ResolutionIsSound`, `CallsReturn`)

* What a factory asks the scope for does not take the scope's mutex
  (`StandardServiceScope.cpp:196,231,360`), so a scoped service may be created
  twice; the assertion at 116 is what notices. `guarded` tells such slots.
* A factory that calls the factory method of another service deadlocks with
  itself (`StandardServiceProvider.cpp:303`).
* A singleton that is created through a scope keeps scoped services of it.

`Process` (`ChildrenAreAccounted`, `CallsReturn`)

* `O_NONBLOCK` is set with `F_SETFD` (`PosixProcessApi.cpp:145-164`), so `Write()`
  blocks on a full pipe. Reads ask how much there is first.
* On Linux, output that is written right before the exit is lost when `Join()`
  closes the pipes (`Process.Linux.cpp:528`).
* If the program cannot be executed, the exception is thrown in the child, which
  goes on as a copy of the client.
* `Kill()` after the child was reaped signals an id that may belong to another
  process by then. The destructor does not (`StrangersAreSafe`).
* The destructor's `Join()` has a patience of a millisecond: a child that takes
  longer stays behind (`log.impatient`).

`RingQueue`, `ShiftQueue`, `RollingLogger` (`ContainersKeepOrder`)

* `RingQueue.h`: a write to an empty queue allocates the old capacity (170-176);
  `memcpy` counts items instead of bytes (316, 443, 568, 575, 665); a wrapped
  queue is moved from the wrong index (565); the new memory is not put to use
  (457-541); ends are wrong after an exception (366, 386); reads do not advance
  the start or advance it instead of setting it (777, 802, 832, 890), and an
  exception is swallowed (798, 821); the copy constructor forgets the start
  (78); the destructor ends one item twice (123, 129).
* `ShiftQueue.h:401`: the second of two reads starts at the beginning again.
* `RollingLogger.cpp:218`: `Clear()` keeps the text of the line that becomes the
  first one.

`Event` (`EmissionReachesSubscribers`)

* A callback that lets the list move from the event to the heap or back makes the
  emission read memory that no longer holds delegates (`Event.h:401, 424, 460,
  482`). `moved` tells.
* A callback that unsubscribes itself and subscribes another one, or that is
  subscribed twice, makes the emission skip somebody (`irregular`).

`Variant`, settings stores (`ValuesSurvive`)

* `Variant.cpp`: assigning a variant to itself empties it (708); a void pointer
  cannot be copied; a moved-from `std::any` is never destroyed (126).
* A bool becomes "1" as a text, which is false as a bool.
* `RegistrySettingsStore.cpp`: an unsigned number of 32 bits beyond the signed
  ones comes back negative (94); a DWORD loses its sign as a text (163); a text
  as a number is its first character (107).
* `IniDocumentModel.cpp`: deleting or replacing the first or last line leaves
  pointers to it (288); the length of a value counts before escapes are undone
  (297, 670); deleting a section deletes up to the end of the document, or
  nothing (382); of properties that occur twice, the earlier one comes back; a
  text with `;` or `#` is written without quotes and cut when read (688).
* `IniSettingsStore.cpp`: deleting does not count as a modification (278), and
  asking for the content of an unknown category dereferences null (260). A number
  other than 1 is false as a bool, which in the other stores it is not.

Text (`AlgorithmsAreRight`, which excludes these inputs)

* The last code point, U+10FFFF, counts as invalid (`UnicodeHelper.h:327`).
* A single character of three or more bytes does not fit into the buffer that
  the conversion starts with (`StringConverter.cpp:203, 264`), and the decoding
  loops never get past invalid input (92, 101).
* U+023A gets longer in lower case, which a comment says no character does
  (`UnicodeHelper.cpp:78`, `StringConverter.cpp:339`).
* Texts that differ in case only are unequal if their bytes differ in number
  (`StringMatcher.cpp:369`), beginnings and endings likewise, and a beginning
  that ends within a character is reported as corrupt (515).
* Removing parts of a text also removes those that differ in the last
  character (`StringHelper.cpp:334`).
* `FindWord()` leaves `start` in front of the word it found; it is to be advanced
  past it (`ParserHelper.h:116`). The model follows the code, no property looks
  at `start`.
* Trimming UTF-16 takes U+FC00 to U+FFFF for trail units on its way back from the
  end (`StringHelper.cpp:411`). The model trims code points and leaves this out.
* A year is 31,490,640 seconds for one of the formatters and 31,536,000 for the
  other (`QuantityFormatter.cpp`).

## Theorems

For any set of threads, any counts and any bounds. In brackets are the
properties that a run checks as well.

* `SemaphoreProofs`, `LatchProofs`: type correctness, ticket accounting
  (`TicketAccounting`), the futex word against the counter (`WordTracksTickets`,
  `WordTracksCountdown`), that a thread falls asleep on a ticket or an open
  latch only while another is correcting the word (`SleepsOnTicketOnlyInRace`,
  `SleepsOnOpenLatchOnlyInRace`), and the refinements of `CountingSemaphore`
  and `CountdownLatch`.
* `PrimitivesProofs`: type correctness of the gate, and that nobody sleeps in
  front of it once it is open, unless the wake-up is on the way
  (`OpenGateWakes`); for the builds on a condition variable, that signals reach
  somebody (`PosixSignalsReachSomeone`) and that the semaphore and the latch
  implement their abstract specifications (`PosixImplements`).
* `ThreadPoolProofs`: type correctness, no task is stranded
  (`NoTaskStranded`), the minimum of threads stays (`MinimumStaysActive`), the
  pool outlives its workers but for finding 4 (`NothingOutlivesPool`), and no
  thread object is overwritten (`NoThreadOverwritten`).
* `ConcurrentJobProofs`: type correctness, the status tells whether there is
  work to do or being done (`StatusMatchesWork`), a cancellation reaches the
  call it is meant for (`CancelReachesWork`), work is done on demand only
  (`WorkOnlyOnDemand`), and no thread outlives a job that has one of its own
  (`ThreadDoesNotOutliveJob`).
* `ServicesProofs`: an instance found for a binding is the one made for it; it was
  made once, unless a factory asked its own scope for it; it is there only after
  what its factory demands; a cycle that is reported is there among the
  bindings; and a mutex that is held is held by one resolution context of its
  owner, which unlocks it when it ends (all of `ResolutionIsSound`); type
  correctness of the services.
* `ConcurrentProofs`: the arrays of the concurrent event are counted and not
  used after they were freed (`ArraysOutliveReaders`), those that are read do
  not change, and changes are kept (`SubscriptionsAreKept`); the destructor of a
  process signals nobody but its child and leaves no child and no open pipe,
  Windows loses no output, and `Wait()` tells the truth
  (`ChildrenAreAccounted`); type correctness of all that `ConcurrentMC` composes
  (`TypeOK`).
* `DataProofs`: the queues hold and hand out what they accepted, in order; the
  recency lists of the caches are linked in both directions and hold the occupied
  slots, and both caches implement `LruCache` (`CachesEvictOldest`); the rolling logger returns the latest lines in order and unchanged (all of
  `ContainersKeepOrder`, with the type correctness of these five); type
  correctness of the event, an emission calls everybody as often as subscribed,
  and reads what is no delegate only after the list has moved
  (`EmissionReachesSubscribers`).

### Assumptions

`ThreadAssumption` says that there are finitely many threads, as does a part of
`ConcurrentAssumption` for the threads of the event. `PrimitiveAssumption`,
`ThreadPoolAssumption` and `ConcurrentAssumption` say that counts and bounds
are natural numbers and that null is no address. `ConcurrentJobAssumption`
says that those who start the job are among its clients, and that "no worker"
is none; `ServicesAssumption` that "nobody" is no thread, that requests are
bounded, and that there are finitely many services, which are numbered, and
scripts of the registrations that the interface offers (an instance or prototype
that is provided needs nothing; what other factories ask for is free). The scripts
themselves are a constant, to which the run gives those of `ConcurrentMC`.
`DataAssumption` collects what the modules composed by `DataMC` require of theirs,
which `DataStructures.cfg` provides: a queue starts with some memory, more
items can be told apart than it may hold, and an item is more than one byte; a
cache has finitely many slots and at least one, numbered from 0, and null is no
slot, key or value; a logger keeps at least one line; an event has room for one
subscriber or more, grows at least twofold when it moves to the heap, and the
mark of an empty delegate is no instance; bounds are natural numbers. The pool assumes what its configuration provides: a maximum of at
least one thread that is at least the minimum. (A minimum of zero is allowed
here. Such a pool never gets a worker and keeps its tasks in the queue, and
`NothingOutlivesPool` says so; the code's default is two or more,
`ThreadPoolConfig.h:116-127`.) TLC evaluates every assumption in the runs.
Nothing else is assumed.

### Inductive invariants

*Semaphore, latch and gate.* The semaphore's is the conjunction of the type
invariant, the accounting, the relation of word and counter and `LocalsOK`,
which says that a thread about to compare and swap has read a positive counter:
without it a step could subtract from zero as far as the types tell. For the
latch, type invariant and word invariant are inductive together; for the gate,
type invariant and `OpenGateWakes`. The refinements map a waiting thread to one
that waits "forever" or "patient", by its patience; every step of the algorithm
is then a step of the abstract specification or leaves it alone.

*Condition variables.* What is signalled is a choice of as many queued threads
as there are signals, or of all if there are fewer. The lemma that such a choice
leaves tickets and takers balanced is one about the sizes of finite sets. Besides
the properties themselves, the invariant says that only waiters are ever queued.

*Thread pool.* A slot's status says in which part of the loop its worker can be,
and whether its thread object is one that runs, one that has ended or none
(`Places`, `StatusTellsThread`); no two submitters claim the same slot
(`ClaimsAreUnique`); nobody ends for want of work while construction is going
on (`ConstructionIsQuiet`), or before the flag is set that all of them can see
(`ShutdownIsKnown`). The heart of it is `CountIsBounded`: the thread
count never exceeds the workers that ought to be counted, and lags behind them
by at most one for each slot, because a worker that ends for want of work is
subtracted twice but only ends that way while the count is positive. From it
follows that the minimum stays. As long as nobody has ended that way, the count is exact, a
count of zero means that no worker is left, and the last one opens the gate
(`LastOneOpensGate`); the other case is finding 4.

*Job.* At most one call of `DoWork()` is in progress or about to begin
(`OneRun`); whether one is, and whether somebody has asked it to stop, shows in
the status (`StatusTellsRun`) and in its stop token (`TokenTellsRun`). In the
end the destructor is alone with the thread that it holds (`ClientsAreGone`,
`ThreadsAreHeld`).

*Concurrent event.* Everything is subject to `revived = {}`: once an array is in
use without a reference, the counters are wrong. Before that, what a thread has
yet to do is one of twenty lists, and says which of its local variables refer to
arrays (`LocalsFollowTodo`). Whatever can be reached is live; an array that
was made has one reference, its maker's, and one that is put aside has none
(`ReachableIsLive`); the counter is the number of those that need the array
(`CountsAreRight`). Together they make an array private to its maker until it is
put in place, so nobody else is disturbed by what is done to it. Each step has
one of seven effects on arrays, and one lemma for each effect shows that the
counters stay right and that nothing in use is freed or written to.
`CopiesAreFaithful` is about the thread that is about to put an array in place.
If nobody has changed the subscribers since it read the current array, its new
array is a copy of that with its own change. If there was one change, the
current array is a different one, so that the comparison fails. Two changes can
bring the old address back, which is the case that `SubscriptionsAreKept`
excepts.

Its type invariant has to hold with revived arrays, too, and is proved apart
(`EventTyped`). No array holds more than it has room for and a live one has room
for the smallest number at least (`Roomy`), whoever writes to it: an array is
filled when it is made, with the room computed from what is put into it, or
recycled only if it has enough. Where a loop is in an array that was freed under
it says nothing any more: the type only says that this is a number.

*Process.* A call has one of seventeen lists of steps to come, and a stage of the
destructor only those of the method it calls (`StagesFit`). Once the client has
found out that the child has ended, this stays true because the client is the
only one who could start another (`ChildIsKnown`). On Windows the list of
`Join()` has the last read between the discovery and the end, and a child that
has ended writes no more: the pipe is empty when it is closed (`OutputIsRead`).
The destructor gets past `Join()` with the child joined or with a timeout on
record (`JoinIsDone`).

*Services.* `ServicesSound` has three parts. `ServicesInv` is about mutexes:
contexts are a stack; a mutex that its thread has locked is in one context of
this thread, and in none of anybody else; a context is only replaced by one with
the same mutexes and the one just locked, which was in none, and when it is
given up all its mutexes are free again.

`ResolutionInv` is about frames and slots, and needs the first part: slots of a
provider are written only under its mutex, so what one thread knows of a slot
under construction no other thread changes. In every context the jobs still to be
done are those that a lookup can produce from where it is (`AllSound`): a factory's
frame has the remainder of its needs to go, and what it has behind it was created,
unless it was only tried (`StackAwaits`). The place of a binding in an instance
set is found by counting the bindings of the services before it; as the number of
pairs of a service and a binding this is seen to be below the place's own number,
and strictly growing, so that no two bindings share a slot: a slot that is filled holds the
binding that it belongs to (`SlotsSound`). A binding under construction is in one
frame of one context that holds the mutex. That is lost when a factory
calls a scope it was not given, and then `guarded` is false.

`OutcomesInv` is about results. The frames of all contexts of a thread, strung
together, ask for one another; if one of them is asked for again, the services from
it on are the cycle that `ThrowCyclic` reports.

*Queues.* The content of a shift queue lies between its indexes, item by item,
and everything else is empty (`ItemsLie`). The ring queue's invariant says the
same of a queue that is empty, one whose items lie in one piece, and one whose
items go round the end of the memory (`Nowhere`, `Straight`, `Around`), without the
remainders that the code computes. Each method is a lemma about these three: writing
to an empty queue, behind the items, around them, or into larger memory; reading
from one piece, from the end, or round it. What a call that is executed wrongly
leaves behind is only said to be memory. That larger memory is large enough is
a fact about the least power of two that is no less than a number, which exists
because doubling goes on. This and the walks and loops of other modules are
inductions, which rest on a lemma about sets of numbers (`EveryNumber`): the
smallest number outside of a set is zero or follows one that is inside.

*Caches.* There is a line of slots without repetition (`Sound`, `Chain`) which the
pointers link up in both directions, which begins and ends where the ends of the
list point to, and in which exactly the occupied slots are. Every operation is a
lemma about how it changes this line: a slot is appended, taken out at a place (at
either end or in the middle, with the neighbours joined), the line is cut off in
front, or each of its slots in turn is left or taken out. That the walk along
the pointers (`Order`), which the properties speak of, is this line is proved
from it (`OrderWalks`). In the cache whose keys are its slots, a slot has its own
number as its key, or none (`SlottedInv`).

The refinement reads the keys and values along the line (`Reads`), which gives
the sequence of entries of the abstract cache: what becomes of the line becomes of
the sequence (`ReadingShorter`, `ReadingLonger`). Each operation of the list is a
step of `LruCache` on that sequence, or leaves it alone (`Moved`): a removal cuts
out the entry, a use cuts it out and appends it, an insertion into a full cache
does so with the first one, whose slot it overwrites. What a policy or the removal
of a key leaves are the entries at some places, in the same order
(`OneByOneKeeps`, `KeptAt`).

*Logger.* The lines from the oldest one on, one behind the other round the ring,
are those that were logged, and behind them lies the line that is being formed
(`LinesAreKept`). The indexes, which the code computes modulo the number of
lines, are rewritten as a distance that wraps around once at most
(`RingIndexes`).

*Event.* While a regular emission goes on, the calls of a delegate so far and
its places that are still ahead of the loop add up to how often it was
subscribed before and meanwhile (`CallsAddUp`). A subscription adds a place at
the end. A callback that leaves takes its own place away, the last one moves
there, and the loop stays where it is: nobody is skipped. That needs
whoever leaves to be subscribed once and its callback to subscribe nobody, since
the loop finds out about a shorter list from its length alone; an emission in
which all callbacks are like that is regular. The loop over the heap is refreshed when the list grows, and a
move that it does not notice takes somebody who left; the loop over the event's
own memory loses its list when somebody joined.

The action properties follow from the invariants in every step.

### Only model-checked

All liveness, which is beyond the proof system. In `data_structures`: the variants
and settings stores (`ValuesSurvive`, and their part of `TypeOK`); and the text algorithms
(`AlgorithmsAreRight`), which are recursive operators. The
five runs that find violations are counterexamples, with nothing to prove.

## What is not modelled

Memory is sequentially consistent: effects of the acquire and release orders
that are weaker are left out, such as a store to the futex word that is still
in a store buffer when the counter is read. Creating a thread and scheduling a
task succeed, memory can be allocated, and constructors throw only where the
model of a queue, an event or a factory says so.

Left out of modelled components: recycling of the pool's task memory; the
destructor of `ConcurrentEvent`, which no other call may overlap, and
`CountSubscribers()`; copies of an `Event`; destroying a provider or a scope while
it is used; the second output stream of a process, and system calls that fail for
other reasons than a process that is gone; single characters in the parser of
ini files, and the files themselves: `Save()` writes over the old file in place,
so a program that ends half way leaves a torn one, and the store promises
nothing about it; paths of the registry; time and severity of log lines;
floating point numbers.

Components without a module: the pool on Windows hands each task to the
operating system's pool, whose behaviour would be all there is to check.
`StopSource` is one atomic flag. Observable collections declare most of their
operations without defining them. Threads, temporary files, the operating
system wrappers and `CommandLine` keep no state that a sequence of calls could
break. `PROJECT.json` has the reason for each.
