# libretro-common: TLA+ specifications of the concurrent core

libretro-common is the C library that libretro frontends and cores share. Most of it is
sequential: file and path handling, decoders, string and time helpers, platform wrappers. What
carries risk that tests hardly reach is the part that several threads use at once:

* the **triple buffer** between a renderer and a presenter,
* the **eventcount**, the sleeping primitive the others are built on, and its **asymmetric** form,
* the **single-producer single-consumer ring** and its **waitable** form,
* the **thread pool**,
* the **task queue**, its runners and the switch between them.

This project specifies those parts as TLA+ modules, model-checks them with TLC on small
instances, and proves the most important results for all instances with TLAPS. The commands are
`tlc -config X.cfg M` and `tlapm M_proof.tla`.

## Inventory

### The components, their state and their operations

| component | state | operations | uses |
|---|---|---|---|
| triple buffer (`include/queues/retro_triple_buffer.h`) | `mid`, an atomic word with the middle index and the FRESH bit; `back` (producer's), `front` (consumer's) | `init`, `back`, `publish`, `take`, `front` | one atomic word |
| eventcount (`rthreads/retro_eventcount.c`) | `epoch`, `waiters`, and what the backend sleeps on | `notify`, `prepare_wait`, `cancel_wait`, `commit_wait`, `commit_wait_timeout` | futex, or mutex and condition variable, or a list of waiters with a semaphore each |
| SPSC ring (`queues/retro_spsc.c`) | `buffer`, `capacity`, `mask`, `head`, `tail`, and the private `cached_tail` and `cached_head` | `write`, `write_frames`, `write_begin/end`, `read`, `peek`, `skip`, `read_begin/end`, the two `avail`, `clear`, `grow` | two atomic counters |
| waitable ring (`queues/retro_waitable_spsc.c`) | a ring, the eventcounts `readable` and `writable`, the flag `cancelled` | announced and quiet `write`/`read`, `notify_readable/writable`, `wait_read`, `wait_write`, `cancel` | ring, eventcount |
| thread pool (`rthreads/tpool.c`) | a ring of slots with a turn each, `enq`, `deq`, an overflow list with spare nodes, `queued`, `outstanding`, `stop`, a `parked` mark and an eventcount for each thread, the eventcount `idle` | `create`, `add_work`, `try_add_work`, `help`, `wait`, `destroy`, the worker's loop | eventcount, mutex |
| task queue (`queues/task_queue.c`) | the running, finished and retiring lists with their counts, the tasks' flags and times, the workers, the generation of primitives, the gate, the held pushes and cancels | `init`, `deinit`, `push`, `check`, `wait`, `wake`, `cancel`, `find`, `retrieve`, `reset`, `set_threaded` | mutexes, condition variables or eventcount, MPSC stack |
| asymmetric eventcount (`rthreads/retro_asym_eventcount.c`) | as the eventcount | the same, the notifier's barrier moved to the waiter by a process-wide barrier | `retro_procbarrier` |
| MPSC stack (`include/queues/mpsc_stack.h`) | `top` | `push`, `drain`, `reverse` | compare-and-swap |
| fifo, message and generic queues (`queues/*.c`) | a byte ring; a bounded heap of messages; a doubly linked list | sequential containers | nothing |

Everything else of the repository (network, files, streams, formats, audio, graphics, encodings,
crypto, compatibility) is listed with its reason in `PROJECT.json`. Most is pure I/O, numeric code
or platform glue. The HTTP client's connection pool, the audio mixer and the prefetch thread of
the virtual file system are the candidates left for later.

### How they interact

The eventcount is where the ring's and the pool's threads sleep. Its users follow the pattern of
its header: look; register (`prepare_wait`); look again; then `cancel_wait` or `commit_wait`. The
other side publishes its change, then calls `notify`. So their correctness reduces to two
questions: does the eventcount keep its promise, and does each user put the second look after the
registration and the notify after the publication? The task queue sleeps on its own condition
variables, under the lock of the list it looks at.

The modules follow that split. `EventCountSpec` states the promise; `EventCount` shows that four
backends keep it and `AsymEventCount` that the fence-free notifier does; `WaitableSpsc` composes
two instances of the promise with the ring's promise, and `TPool` uses what the promise leaves of an
eventcount with a single waiter. The task queue is split by what its locks separate: `TaskQueue` is the
threaded runner while it stays, `TaskSwitch` is what happens around it when it does not.

### What is hard

`PROJECT.json` lists each hazard at its line. In groups:

* *lost wake-ups*: a notify that reads no waiters, or reads them before its own store is in memory; a
  mark cleared before the wait was open; a cancel between a test and a sleep; a wake that comes while
  the handler is still on its way to park;
* *a timeout racing an answer*: a block already taken off the list, whose signal is on its way;
* *stale copies*: the ring's private counters, a load followed by an exchange, copies that survive
  `clear` or `grow`;
* *wrap-around*: `head - tail` and the pool's positions and turns, at every offset from the wrap;
* *claimed but not filled*: slots and buffers that are between two owners;
* *counts that several threads keep*: `waiters`, `queued`, `outstanding`, also when an allocation
  fails half-way;
* *calls inside calls*: handlers and callbacks that push, or check the queue again;
* *shutting down*: `tpool_destroy`, `cancel`, the switch of a task queue's runner, and the worker it
  leaves behind in a handler that does not return.

### What makes each component correct

* triple buffer: one owner per buffer, no torn frame, never back in time, the newest frame is shown;
* eventcount, in both forms: nobody sleeps through a notify, the count of waiters is exact, and a park
  leaves nothing behind that could cut a later one short;
* ring: the consumer gets the producer's bytes, all of them and in order, and a short answer means
  a short ring;
* waitable ring: no end sleeps beside what it asked for, the stream goes through, a cancel releases
  both ends;
* pool: every job runs exactly once, `tpool_wait` means done, `tpool_destroy` means gone, and both
  return;
* task queue: a task can be found from its push to the end of its callback, is run by one thread at a
  time, and is retired; no wake is lost; a gather leaves nothing behind; a wait overlooks nothing but what a
  retire budget put off;
* switch of runner: a call that got through the gate finds the runner up until it leaves; held calls
  arrive once and in order; primitives outlive whoever may still use them; the switch happens.

## The modules

### TripleBuffer

`mid`, `back` and `front` are the struct's fields. A frame is a number and a buffer under the
producer's hands holds `Torn`. `Publish` is the producer's exchange. `TakeFresh` and `TakeSwap` are the
consumer's load and exchange, apart because a publish may come between them. `seen` and
`published` are history.

### EventCountSpec and EventCount

`EventCountSpec` is the header: a waiter is out, ready (its window is open), parked or woken; `Notify`
is one step that releases the parked and stops the ready from parking; `Park` requires the epoch named
by `prepare_wait`; waking for no reason is allowed. Its fairness says that a released waiter returns.

`EventCount` is `retro_eventcount.c` with the client the header prescribes. `backend` is chosen in the
initial state and never changes:

* `"futex"`: the kernel compares and sleeps in one step (`FutexWait`);
* `"list"`: a waiter puts a block of its stack on a list (`PushBlock`), looks at the epoch again
  (`LookListed`), sets EC_W_ASLEEP (`Arm`) and sleeps on its own semaphore; a notifier takes the whole list
  (`TakeList`), marks block after block (`WakeOne`) and signals those that sleep (`Signal`). Who finds the
  epoch changed, or times out, takes its block back if it is still there (`Unlink`); if not, it waits for
  the mark (`Linger`) or for the signal (`Consume`) before its stack frame goes;
* `"scond"`: the mutex is held across the second look at the epoch (`Recheck`) and released by the
  sleep (`CondWait`); the broadcast (`Wake`) needs the mutex;
* `"locked"`: the atomics are not lock-free and each operation is a critical section
  (`NotifyLocked`, `PrepareLocked`).

Every sequentially consistent atomic access is one step. The epoch is a counter that does not wrap: the
header's rule 4 forbids a window that spans 2^32 notifies. The refinement mapping (`AbstractState`)
makes a notify take effect when it bumps the epoch: a sleeper whose key is old counts as woken from then
on, although the wake-up is still to come.

### AsymEventCount

`retro_asym_eventcount.c`: the notifier's two stores (the client's item and the epoch) go into a store
buffer that drains in order and at leisure (`Drain`), so its load of the waiter count may come first. A
waiter that has registered calls the process-wide barrier and only then reads the epoch. `Barrier` is
what `retro_procbarrier` promises, not how it does it: after it every store made before is in memory.
The initial state also has the object that falls back on the symmetric pair, whose notifier drains its
own buffer. The refinement mapping is that of `EventCount`.

### RetroSpsc

The counters are modulo `Wrap` and a position is a counter modulo the buffer's size. The private copies
are variables of their own, refreshed under the code's conditions only. A byte is the number of its turn
in the stream. Each memcpy is a step, so the other side can act between the two halves of a wrapped copy
and before the counter is published. The initial state is a plain or a mirrored buffer; a mirrored one
is at least a granule large, so that its mask exceeds its capacity, and may lose the mirror in `grow`.
The copy loop of `grow` is the recursive function `Moved`: each turn copies one `Run`, cut at the end of
the old buffer and of the new one. The runs of one loop do not overlap, so their order does not show.
`clear` and `grow` need both sides quiet, which the header asks of the caller. The two `avail` queries
change nothing; what they compute are `Room` and `Avail`.

### WaitableSpsc

The ring is its fill, since `RetroSpsc` shows that each end finds at least what it was told. The two
eventcounts are instances of `EventCountSpec`. The actions of a wait are the tests of
`RETRO_WAITABLE_SPSC_WAIT` in their order. Its deadline may have passed at any look at the clock
(`Expire`), or never. With a read and a write size that add up to more than the capacity and one the two
ends may each want what only the other's move would give, and both sleep for ever; neither the code nor the
header rules that out. So `GoesThrough` promises progress only for sizes that meet (`SizesMeet`). The safety
properties hold for all sizes.

### TPool and MCTPool

The lock-free build. The ring is `enq`, `deq`, `seq` and `slot`; the overflow is `over` and `spare`.
A thread's `pc` walks through the code's steps: claim, fill, count, look at the marks, notify for a
poster; take, lower, run, retire for a taker; mark, prepare, three looks, commit, unmark for an idle
worker. The load of a position, the load of its turn and the compare-and-swap are one step: the turn of
an unclaimed position only changes when somebody claims it, so a failed attempt is a retry that changes
nothing. A critical section of the overflow's mutex is one step. The allocation between two of them is
apart and may fail, and so may the creation of any thread but one. An eventcount with one waiter is one
bit: a notify came since its `prepare_wait`. `MCTPool` says how many jobs each poster
has.

### TaskQueue and MCTaskQueue

The threaded runner. `running`, `finished` and `retiring` are the three lists, `runningCount` and
`finishedCount` the two counts a gather reads without a lock. Every worker takes the first task it may
run (`MayTake`), runs its handler and settles it: parks it, puts it back, or moves it to the finished
list. `Main` is the checking thread. It runs the tasks bound to it and gathers; since handlers and callbacks
may check again, its place is a stack of calls, and `inGather` and `inRunMain` are the code's guards against
re-entry. Other threads push, publish what a task waits for and wake it, and cancel. A critical section is
one step; the move of a finished task is two, because the counts change inside it. Times are abstracted
to their order (`when`). `setup` says what each task is and whether the callbacks have a time budget.

### TaskSwitch and MCTaskSwitch

`task_queue_check` sees that the application wants the other runner, closes the gate (`switching`),
counts who is inside (`wakers`), and if nobody is takes the runner down and brings the other up; else it
tries at its next check. Meanwhile pushes and cancels of other threads are held, newest first, and the next
gather passes them on, oldest first. A deinit that finds its worker stuck in a detachable handler leaves it
behind with a reference to its generation of primitives, which whoever lets go last frees. `Program` is the
calls each client makes.

`Flip` is `task_queue_set_threaded` or its opposite, on any thread and at any moment, in the middle of a check
too. The check reads which runner is wanted once; the init at the end of the switch stores what it read
(`InitRegular`, `InitThreaded`), over a change of mind made since, which is lost. With `Budget` a gather
retires at least one task and may stop then. What the threaded one leaves stays on `retiring`, which only the
threaded one looks at; the unthreaded one takes from `finished`, and may also stop running handlers after the
first that was due, putting what it ran behind the rest.

The two modules share the code's lists and leave to the other what is not theirs: `TaskSwitch` has no
parallel, blocking or main-thread task and no call from a handler; `TaskQueue` has no switch.

## Model checking

| run | instance | checks |
|---|---|---|
| `triple_buffer` | 6 frames | `NoTornRead`, `NeverOlder`, `NewestShown` |
| `eventcount` | 2 notifiers, 2 waiters, 2 items, the four backends | `CountExact`, `NoMissedNotify`, `NoSleepOnWork`, `NothingLeftOver`, `Implements` |
| `asym_eventcount` | 2 waiters, 3 items, with the barrier and without | `NoSleepOnWork`, `Implements` |
| `spsc` | capacity 2 growing to 4, counters modulo 8, 11 bytes, plain and mirrored | `StreamIntact`, `NoDataRace`, `ShortOnlyWhenShort` |
| `waitable` | capacity 4, reads of 3, writes of 2, 6 bytes | `YesHolds`, `NoSleepOnBytes`, `GoesThrough`, `CancelReleases` |
| `tpool` | 2 workers, 2 posters with 2 jobs and 1, 2 slots, failures | `ExactlyOnce`, `NoLostWakeup`, `CountsExact` |
| `tpool_life` | 1 worker, 1 poster with 3 jobs, 1 client, destroy, failures | `WaitMeansDone`, `DestroyedMeansGone`, `EveryJobRuns`, `WaitReturns`, `DestroyReturns` |
| `task_queue` | 2 tasks in two setups, a worker, an extra one, the checking thread with calls two deep, one other thread | `FindTruthful`, `NothingMissed`, `NoLostWake`, `OneHandler`, `WaitOverlooksNone`, `EveryTaskRetires` |
| `task_queue_one_blocking` | 2 blocking tasks | violation: `OneBlocking` |
| `task_queue_wait_budget` | 2 plain tasks, a budget | violation: `WaitMeansRetired` |
| `task_switch` | 2 tasks (one waits, one is detachable), 2 clients with four calls, 2 changes of runner, budgets | `RunnerStaysUp`, `GenerationOutlives`, `PushOrder`, `CancelNotLost`, `WakeLostOnlyBySwitch`, `SwitchHappens`, `PushesEndOrAreLeft` |
| `task_switch_leftovers` | 2 plain tasks, 1 client, 1 change of runner, budgets | violation: `EveryPushEnds` |

A type invariant is checked for each module, in some as the first part of another invariant. Every
property has a mutation of the code (a dropped guard, a missing reset, a swapped step) that violates
it; they are in the modules, under "Mutations".

**Bounds.** Three buffers rotate within three frames; six let each return twice. Two waiters and two
notifiers with an item each are enough for one waiter to take what another was woken for, for two
notifiers to hold a block each, and for a late wake to reach a thread that slept after it; the
asymmetric notifier is alone and has three items, so that it may begin a notify over stores of the one
before. With counters modulo 8 and 11 bytes the ring's counters wrap, at every alignment to a buffer of
2 or 4; the requests (1 and 3 bytes) are smaller and larger than the initial capacity. A read of 3 and a
write of 2 in a ring of 4 are the largest sizes that cannot deadlock. Two slots and positions modulo 4
make the pool's positions wrap and fill the ring with two jobs; with three jobs the overflow is used,
emptied and used again with a spare node. The task queue's setups put a parallel task that parks beside
one bound to the checking thread, and a blocking task beside one that starts later, under a budget; two
calls deep is a gather inside a callback of a gather. Two changes of runner are a switch and the switch
back, also before the first was made, and a change of mind during the switch it undoes. The retire
budget stands for any: each gather stops anywhere after its first task.

**Fairness.** Weak fairness is for threads that run: the scheduler lets each go on while it can. The
eventcount has strong fairness per thread because a mutex that is released again and again must be got in
the end: that is a promise of the platforms' mutexes in practice, not of POSIX. A consumer of the triple
buffer polls. Nobody has to publish, post, help, wait, cancel or destroy; no timeout has to expire; no
spurious wake-up has to happen. In `TPool` a job that was begun ends. A store buffer drains. In the task
queue the checking thread checks again and again, which is how the library is driven; handlers and
callbacks return; a task that is run again and again finishes in one of its runs (strong fairness of
`FinishingPass`), what it waits for comes, and the time it is scheduled for, or its horizon, passes. In
`TaskSwitch` the clients make their calls. Nobody has to push, wait, cancel or reset in
`TaskQueue`, or change runners in `TaskSwitch`.

**Disagreements with the documentation.** Three are shown by a run that TLC finds violated:

* `task_queue_wait_budget`: the threaded wait looks at the running and the finished list and never at the
  retiring one, so with a retire budget it returns beside finished tasks whose callbacks have not run. The
  header says that a budget "slows a blocking wait but never changes what it waits for"
  (`task_queue.h:992-994`). `WaitOverlooksNone`, in the passing run, says that this is the only way.
* `task_switch_leftovers`: tasks that a retire budget left on the retiring list are forgotten when the queue is
  switched to the unthreaded runner, whose gather does not know that list. The header says that "the rest stay
  queued, still findable, for the next check" (`task_queue.h:979-980`). `PushesEndOrAreLeft`, in the passing
  run, says that no other push is forgotten.
* `task_queue_one_blocking`: `task_queue_push` looks for a running blocking task and pushes in two critical
  sections, so two threads may each find none and push one. The header says "only one blocking task can exist
  in the queue at a time" (`task_queue.h:43-46`).

Two were met while modelling, and no run is kept for them:

* `retro_waitable_spsc_cancel`: the header says that every later wait returns false "at once,
  whatever the queue holds" (`retro_waitable_spsc.h:194`). A wait looks at the bytes first
  (`retro_waitable_spsc.c:139`) and says true if they are there. Draining after a cancel may well be what is
  wanted, but then the header should say so.
* `tpool_take`: a head slot that is claimed and not yet filled makes the ring look empty, and the taker
  goes to the overflow past older jobs (`tpool.c:171-172`, `225-235`). The header says that a job depending only
  on earlier ones never waits on one still queued (`tpool.h:120-123`). No job is lost, but a job may start
  before one its own poster posted earlier.

Two remarks that are no more than that. `task_queue.h` describes the threaded runner as "exactly one worker",
which parallel tasks have made one worker and some extra ones. And a switch that is put off, because a
client is inside the gate, and then taken back, because the application changed its mind again, has dropped
the wakes that came meanwhile without ending the parks: such a task waits until its horizon. The header says
that a wake which "meets the switch is dropped" (`task_queue.h:581-582`) and is silent on a switch taken back.
`WakeLostOnlyBySwitch` says that this, and a worker left behind, are the only ways.

## Proofs

`TripleBuffer_proof` proves, for every number of frames, `TypeOK`, `Ownership`, `NoTornRead`,
`AtLeastAsNew` and `NeverOlder`. `NoTornRead` is not inductive: the inductive invariant `IInv` adds
that the three indices differ (`Ownership`) and what each buffer holds (`Contents`): a fresh middle
buffer holds the newest frame, a stale one means that the consumer has it, and the consumer's pending
exchange finds the FRESH bit still set because only the consumer clears it.

`EventCount_proof` proves, for any sets of notifiers and waiters (the waiters finite) and each backend,
`TypeOK`, `CountExact`, `NoMissedNotify`, `NoSleepOnWork`, `NothingLeftOver`, and that every behaviour of
the backend is one of `EventCountSpec!SafetySpec` (`Refinement`). `NoMissedNotify` needs companions:

* `CountExact`: a notifier that reads zero waiters returns, so nobody may be registered then;
* `LockHeld`: the broadcast must not fall between the second look and the sleep, which the mutex
  prevents;
* `KeyInPast`: a key is never ahead of the epoch, so a bumped epoch differs from every key;
* `SawNothing`: a waiter that goes to sleep on the current epoch saw no item, or its publisher has
  not bumped yet; this is what turns "no missed notify" into "no sleep beside an item";
* `ListExact`: on the list, a block is in at most one hand (the list, one notifier's chain, one signal on
  its way, one signal counted: `OneHand`) and while its waiter is parked in at least one (`SomeHand`); and
  a waiter that is about to sleep on an old epoch will find the mark (`WillLearn`). `NothingLeftOver` is a
  consequence of `OneHand`.

`AsymEventCount_proof` proves `TypeOK`, `CountExact`, `NoSleepOnWork` and `Refinement` for any finite set of
waiters, in both protocols. What carries it is `Shape`: once a waiter is past its barrier the store
buffer holds at most the stores of the one notify under way, so a notifier that has not seen the waiter
still has its epoch to store.

`RetroSpsc_proof` proves `StreamIntact`, `NoDataRace` and the action property `ShortOnlyWhenShort` for every
capacity and granule, every range of the counters, all requests, with the mirror and without. Two things
stand in the way. The counters wrap and are then masked; lemmas on remainders turn both into additions, so
that a byte's place depends only on how far it is from `tail` (`IndexAt`). And what an end may do depends on
its private copy, not on the counter. The inductive invariant `IInv` has the order of the counters and their
copies (`CountersOrdered`), what is stored at each place between them (`RingHolds`), that what the producer
is copying fits behind the *current* tail and what the consumer is copying is before the current head
(`ProducerFits`, `ConsumerHas`): the copies may be stale, but only in the safe direction.

`WaitableSpsc_proof` proves `YesHolds` and `NoSleepOnBytes` for every capacity and all sizes, those that can
never meet included. An end sleeps
because of what it saw earlier: `Windows` says that it had named its epoch by then, `SawTooLittle` and
`SawFlagDown` that whoever has changed what it saw has moved that epoch or still has its notify to make.

`TPool_proof` proves `ExactlyOnce`, `CountsExact` (with `TypeOK`), `NoLostWakeup`, `WaitMeansDone` and
`DestroyedMeansGone` for any number of workers, posters, clients and jobs, every size of the ring and every
range of the positions that the assumption of `TPool` admits, with failing allocations and without. None is
inductive. The parts of `IInv` (`Shape` to `Waits`, at the end of `TPool`) and what they are for:

* `Ring`: `enq` and `deq` wrap, so it speaks of two positions `E` and `D` that do not, of which they are the
  remainders. The last `QueueSize` positions before `E` are those of the slots; the turn of each says that a
  poster has claimed it, that it is filled, that a taker has claimed it, or that it is given back, and a
  claim belongs to one thread. That a comparison of turns as a signed difference decides between these
  cases follows from there being at least twice as many positions as slots.
* `Tries`: `tpool_try_add_work` looks at its slot before its compare-and-swap; if that wins, the slot is
  as it was.
* `Own`, `Apart`, `Fates`: a job that has left its poster is in one slot, in the overflow once, in one taker's
  hands, or is over; it is over once.
* `Counts`: each count is a sum of numbers of jobs and threads at certain places. A step moves one thread, so
  it moves each number by one at most, which the lemmas on `Delta` compute.
* `Marks`, `Awake`: a worker past its last look at its mark has the mark, or a wake is on its way; so with
  something queued some worker will look before it sleeps, or a poster has not come to its mark yet.
* `Shut`, `Waits`: `tpool_destroy` is alone with the workers and stops them when the pool is empty; what a
  client waits for had been posted.

These theorems have a hypothesis, `[][TryIsBrief]_vars`: while one `tpool_try_add_work` is between its look and
its compare-and-swap, the others do not post as many jobs as there are positions, 2^32 in the code. Otherwise
the compare-and-swap would find its position again, with the slot in another state. TLC finds that every
behaviour of the instances of `tpool` and `tpool_life` satisfies it. (The same look and compare-and-swap of
`tpool_queue_put` and `tpool_queue_take`, which retry, are one step of the model.)

`TaskQueue_proof` proves `FindTruthful`, `NothingMissed`, `NoLostWake`, `OneHandler` and `WaitOverlooksNone` for
any tasks of any kinds, any number of extra workers and other threads, and any depth of nested checks. The
inductive invariant `IInv` has eleven parts (`Types` to `Waits`, at the end of `TaskQueue`): a task is in one
list and once (`Lists`); a thread in a handler took its task from the running list and has it alone
(`WorkersHold`, `MainHolds`); of the calls on the checking thread's stack at most one is in a pass over its
tasks and one in a gather, which is what the guards against re-entry are for (`Calls`); a park is for a task
nobody runs, and a wake has ended it or is seen when the pass is settled (`Parking`, `Passes`, `Wakes`); a count
read without its lock is never zero too early (`Counts`); a wait that saw a list without its tasks would
still, since tasks only move on (`Waits`).

`TaskSwitch_proof` proves, for any tasks, clients, programs of calls and number of changes, with budgets and
without, `RunnerStaysUp` and
`GenerationOutlives` from one inductive invariant and `PushOrder`, `CancelNotLost` and `WakeLostOnlyBySwitch`
from a second. The first, `IInv`, says that the gate's count misses nobody (`WakersExact`), that nobody is
inside while the runner goes down (`GateHolds`), that the runner going down is the one that is not wanted, so
that a threaded init takes two changes of mind (`Turns`), and who holds each generation of primitives
(`Lives`). The second, `LInv`, follows every call that was held: which list or hand a task is in (`Placed`),
that the held pushes are in the order they were made and those being drained come before them
(`HeldInOrder`), that a push takes effect once (`PushedOnce`), that a cancel is held, or in the hands of who
drains, until it reaches its task (`CancelsKept`), and who will end a park (`ParksEnd`).

The assumptions are those of the modules, which TLC evaluates on its instances: finitely many waiters or
clients; marks (`Nobody`, `None`) that are no thread, no task and no job; in `TPool`, that positions and
turns have a range that is a multiple of the number of slots and at least twice it, and that posters,
workers, clients and the destroyer are different threads (one that plays two parts, one after the other, is
two of them); in `TaskQueue`, that the worker, the extra ones, the checking thread and the others are
different threads; in `TaskSwitch`, that a task is pushed once, since from its push on it is the queue's to
free. `RetroSpsc` takes its powers of two as a set: positive, each dividing the larger ones, and one between
any capacity asked for and its double, which is what `next_pow2` gives. The powers of two are such a set,
and the ring needs no more of them.

Induction over data is avoided, not used: where a definition is recursive (a list merged into an ordered
one, a list with entries taken out, the copy loop of `grow`) its lemma looks at the least position at which it
could fail.

Only model-checked: all liveness (`NewestShown`, the liveness half of the two `Implements`,
`GoesThrough`, `CancelReleases`, `EveryJobRuns`, `WaitReturns`, `DestroyReturns`, `EveryTaskRetires`,
`SwitchHappens`, `PushesEndOrAreLeft`), which is outside the prover's reach. Every invariant and every
safety action property of the passing runs is a theorem.

## Not modelled

* Memory orders weaker than sequential consistency, but for the store buffer of `AsymEventCount`. The acquire
  and release pairs of the ring and the buffer publish data before the counter or index that names it, and
  each atomic step here stands for such a pair; the algorithms that need more (the pool's marks, the
  eventcount) use sequentially consistent operations in the code.
* Of the eventcount: the thread alerts and keyed events that Windows may sleep on in place of an event (the
  list around them is modelled), and the address arbiters of the Switch and the 3DS. A window that spans
  2^32 notifies, which the header forbids.
* Of the task queue: the Grand Central Dispatch runner, progress reports and retrievers, the condition
  function of a wait, a `task_queue_deinit` the application calls itself, and a blocking push refused
  while it is held.
* The pool's build without lock-free atomics; the system calls that map a buffer twice; of the process-wide
  barrier all but what a call promises.
* The small sequential containers: planned, below.
* The rest of the library, with the reason of each part in `PROJECT.json`. It is most of the repository's
  lines: decoders, encoders, a shader compiler, file formats and platform glue, sequential and numeric code
  whose state a model checker cannot enumerate and which tests reach well.

## Plan

Done: `TripleBuffer`, `EventCountSpec`, `EventCount` with its four backends, `AsymEventCount`, `RetroSpsc`,
`WaitableSpsc`, `TPool`, `TaskQueue` and `TaskSwitch`, and the proofs of all their safety properties. In
order of importance, what is left:

1. **MpscStack**, with many producers: nothing lost, order per producer kept.
2. **FifoQueue, message queue, generic queue**: pure algorithms against reference definitions. To
   examine: `include/retro_spsc.h` calls the fifo safe with several producers because it locks, and its
   source has no lock.
3. The **Grand Central Dispatch runner** of the task queue, as a third one for `TaskSwitch`.
