----------------------------- MODULE EventCount -----------------------------
(***************************************************************************)
(* rthreads/retro_eventcount.c, whichever way it sleeps:                   *)
(*   "futex"   Linux: the kernel compares the epoch and sleeps in one step *)
(*   "list"    Darwin, the BSDs and some consoles, and Windows on events:  *)
(*             a list of blocks on the waiters' stacks, and a semaphore of *)
(*             each waiter's own                                           *)
(*   "scond"   a mutex held across the re-check and the sleep              *)
(*   "locked"  the build whose atomics are not lock-free: every access     *)
(*             under that mutex                                            *)
(* together with the client the header prescribes: producers publish an    *)
(* item and notify; consumers take items, and when there are none open a   *)
(* wait window, look again, and cancel or commit.                          *)
(*                                                                         *)
(* Each sequentially consistent atomic access is one step.  A critical     *)
(* section is one step where everything it touches is under the mutex;     *)
(* otherwise the mutex is a variable; so is the list lock, which is never  *)
(* held across a step.  Rule 4 of the header (a window must not span 2^32  *)
(* notifies) makes the epoch a plain counter.                              *)
(***************************************************************************)
EXTENDS Integers, FiniteSets

CONSTANTS
    Notifiers,    \* threads that publish and notify
    Waiters,      \* threads that consume and wait
    MaxItems,     \* bound: items published over the run
    Nobody        \* no thread: the mutex is free, no signal is owed

ASSUME EventCountAssumption ==
    /\ MaxItems \in Nat
    /\ IsFiniteSet(Waiters)
    /\ Notifiers \cap Waiters = {}
    /\ Nobody \notin Waiters

VARIABLES
    backend,      \* which of the four builds this is; it never changes
    epoch,        \* ec->epoch
    waiters,      \* ec->waiters
    lock,         \* ec->lock, held by a waiter that re-checks the epoch
    key,          \* what each waiter's prepare_wait returned
    npc,          \* where each notifier is
    wpc,          \* where each waiter is
    items,        \* the client's condition: items published and not taken
    published,    \* items published so far
    listed,       \* waiters whose block is on ec->waitlist
    chain,        \* the blocks each notifier has taken off it and not yet read
    woken,        \* blocks with EC_W_WOKEN; EC_W_ASLEEP is in the waiter's place
    signal,       \* the waiter whose semaphore a notifier is about to signal
    sem           \* what each waiter's semaphore counts

list == <<listed, chain, woken, signal, sem>>
vars == <<backend, epoch, waiters, lock, key, npc, wpc, items, published, list>>

Init ==
    /\ backend \in {"futex", "list", "scond", "locked"}
    /\ epoch = 0
    /\ waiters = 0
    /\ lock = Nobody
    /\ key = [w \in Waiters |-> 0]
    /\ npc = [n \in Notifiers |-> "idle"]
    /\ wpc = [w \in Waiters |-> "out"]
    /\ items = 0
    /\ published = 0
    /\ listed = {} /\ woken = {}
    /\ chain = [n \in Notifiers |-> {}]
    /\ signal = [n \in Notifiers |-> Nobody]
    /\ sem = [w \in Waiters |-> 0]

\* The backends that sleep on the condition variable.
Mutexed == backend \in {"scond", "locked"}

NGoto(n, from, to) ==
    /\ npc[n] = from
    /\ npc' = [npc EXCEPT ![n] = to]

WGoto(w, from, to) ==
    /\ wpc[w] = from
    /\ wpc' = [wpc EXCEPT ![w] = to]

\* Threads between their prepare_wait and its answer, as the counter has them.
Registered == {w \in Waiters : wpc[w] # "out"}

\* Broadcast and futex wake: every sleeper is made runnable.  On a condition
\* variable it still has to get the mutex back; off the list, its block.
Woken == IF Mutexed THEN "woken" ELSE IF backend = "list" THEN "expired" ELSE "leave"

\* The places of a waiter that has set EC_W_ASLEEP, and of one whose block a
\* notifier may come across.
Sleeping == {"asleep", "expired", "consume"}
Parking  == Sleeping \cup {"recheck", "arm", "unlink", "linger"}

WakeAll ==
    wpc' = [w \in Waiters |-> IF wpc[w] = "asleep" THEN Woken ELSE wpc[w]]

-----------------------------------------------------------------------------
(***************************************************************************)
(* Mutations: the mistakes the properties below are there to catch.        *)
(***************************************************************************)
\* notify wakes the sleepers and leaves the epoch: a waiter on its way to sleep
\* does not learn of it.
Bump_Forgotten(n) ==
    /\ backend # "locked"
    /\ NGoto(n, "bump", "look")
    /\ UNCHANGED <<backend, epoch, waiters, lock, key, wpc, items, published, list>>

\* commit_wait sleeps without looking at the epoch again.
FutexWait_NoCompare(w) ==
    /\ backend = "futex"
    /\ WGoto(w, "commit", "asleep")
    /\ UNCHANGED <<backend, epoch, waiters, lock, key, npc, items, published, list>>

\* The condition variable's sleep does not let go of the mutex first: the
\* re-check happens outside it.
Recheck_Unlocked(w) ==
    /\ Mutexed
    /\ lock = Nobody
    /\ IF epoch = key[w] THEN WGoto(w, "commit", "sleep") /\ UNCHANGED lock
                         ELSE WGoto(w, "commit", "leave") /\ lock' = w
    /\ UNCHANGED <<backend, epoch, waiters, key, npc, items, published, list>>

\* cancel_wait forgets to deregister.
CancelWait_KeepsCount(w) ==
    /\ backend = "locked" => lock = Nobody
    /\ WGoto(w, "cancel", "out")
    /\ UNCHANGED <<backend, epoch, waiters, lock, key, npc, items, published, list>>

\* A timeout that finds its block taken does not wait for the signal on its way.
Unlink_LeavesSignal(w, from, otherwise) ==
    /\ IF w \in listed \/ from = "expired" THEN WGoto(w, from, "leave")
                                            ELSE WGoto(w, from, otherwise)
    /\ listed' = listed \ {w}
    /\ UNCHANGED <<backend, epoch, waiters, lock, key, npc, items, published, chain,
                   woken, signal, sem>>

\* A wait that came back deregisters twice, as commit_wait and cancel_wait.
Leave_Twice(w) ==
    /\ WGoto(w, "leave", "out")
    /\ waiters' = waiters - 2
    /\ lock' = Nobody
    /\ UNCHANGED <<backend, epoch, key, npc, items, published, list>>

-----------------------------------------------------------------------------
(***************************************************************************)
(* The notifying side.                                                     *)
(***************************************************************************)
\* The client publishes its state change, then calls notify.
Publish(n) ==
    /\ published < MaxItems
    /\ NGoto(n, "idle", "bump")
    /\ items' = items + 1
    /\ published' = published + 1
    /\ UNCHANGED <<backend, epoch, waiters, lock, key, wpc, list>>

\* retro_eventcount_notify: bump the epoch ...
Bump(n) ==
    /\ backend # "locked"
    /\ NGoto(n, "bump", "look")
    /\ epoch' = epoch + 1
    /\ UNCHANGED <<backend, waiters, lock, key, wpc, items, published, list>>

\* ... return if nobody is registered ...
Look(n) ==
    /\ IF waiters = 0 THEN NGoto(n, "look", "idle") ELSE NGoto(n, "look", "wake")
    /\ UNCHANGED <<backend, epoch, waiters, lock, key, wpc, items, published, list>>

\* ... and wake whoever sleeps; a broadcast is made under the mutex.
Wake(n) ==
    /\ backend # "list"
    /\ Mutexed => lock = Nobody
    /\ NGoto(n, "wake", "idle")
    /\ WakeAll
    /\ UNCHANGED <<backend, epoch, waiters, lock, key, items, published, list>>

\* The same under the mutex from the bump to the broadcast.
NotifyLocked(n) ==
    /\ backend = "locked"
    /\ lock = Nobody
    /\ NGoto(n, "bump", "idle")
    /\ epoch' = epoch + 1
    /\ IF waiters # 0 THEN WakeAll ELSE UNCHANGED wpc
    /\ UNCHANGED <<backend, waiters, lock, key, items, published, list>>

\* Off the list: ec_wake_all takes all of it ...
TakeList(n) ==
    /\ backend = "list"
    /\ IF listed = {} THEN NGoto(n, "wake", "idle") ELSE NGoto(n, "wake", "walk")
    /\ chain' = [chain EXCEPT ![n] = listed]
    /\ listed' = {}
    /\ UNCHANGED <<backend, epoch, waiters, lock, key, wpc, items, published, woken,
                   signal, sem>>

\* ... and marks one block after the other: ec_wake_one.  It is the last it reads
\* of the block; one whose waiter sleeps is owed a signal.
WakeOne(n) ==
    /\ npc[n] = "walk"
    /\ \E w \in chain[n] :
          /\ chain' = [chain EXCEPT ![n] = @ \ {w}]
          /\ woken' = woken \cup {w}
          /\ IF wpc[w] \in Sleeping
             THEN NGoto(n, "walk", "signal") /\ signal' = [signal EXCEPT ![n] = w]
             ELSE UNCHANGED <<npc, signal>>
    /\ UNCHANGED <<backend, epoch, waiters, lock, key, wpc, items, published, listed, sem>>

Signal(n) ==
    /\ NGoto(n, "signal", "walk")
    /\ sem' = [sem EXCEPT ![signal[n]] = @ + 1]
    /\ signal' = [signal EXCEPT ![n] = Nobody]
    /\ UNCHANGED <<backend, epoch, waiters, lock, key, wpc, items, published, listed,
                   chain, woken>>

WalkOver(n) ==
    /\ chain[n] = {}
    /\ NGoto(n, "walk", "idle")
    /\ UNCHANGED <<backend, epoch, waiters, lock, key, wpc, items, published, list>>

(***************************************************************************)
(* The waiting side.                                                       *)
(***************************************************************************)
\* The client has work: it takes it and does not wait.
Take(w) ==
    /\ wpc[w] = "out"
    /\ items > 0
    /\ items' = items - 1
    /\ UNCHANGED <<backend, epoch, waiters, lock, key, npc, wpc, published, list>>

\* retro_eventcount_prepare_wait registers ...
Register(w) ==
    /\ backend # "locked"
    /\ items = 0
    /\ WGoto(w, "out", "read")
    /\ waiters' = waiters + 1
    /\ UNCHANGED <<backend, epoch, lock, key, npc, items, published, list>>

\* ... then reads the epoch.
ReadEpoch(w) ==
    /\ WGoto(w, "read", "test")
    /\ key' = [key EXCEPT ![w] = epoch]
    /\ UNCHANGED <<backend, epoch, waiters, lock, npc, items, published, list>>

PrepareLocked(w) ==
    /\ backend = "locked"
    /\ lock = Nobody
    /\ items = 0
    /\ WGoto(w, "out", "test")
    /\ waiters' = waiters + 1
    /\ key' = [key EXCEPT ![w] = epoch]
    /\ UNCHANGED <<backend, epoch, lock, npc, items, published, list>>

\* The client looks at its condition again.
Test(w) ==
    /\ IF items > 0 THEN WGoto(w, "test", "cancel") ELSE WGoto(w, "test", "commit")
    /\ UNCHANGED <<backend, epoch, waiters, lock, key, npc, items, published, list>>

\* retro_eventcount_cancel_wait
CancelWait(w) ==
    /\ backend = "locked" => lock = Nobody
    /\ WGoto(w, "cancel", "out")
    /\ waiters' = waiters - 1
    /\ UNCHANGED <<backend, epoch, lock, key, npc, items, published, list>>

\* retro_eventcount_commit_wait_timeout with no time to wait, or none left when
\* the futex backend has spun: it does not sleep.
Poll(w) ==
    /\ backend = "locked" => lock = Nobody
    /\ WGoto(w, "commit", "out")
    /\ waiters' = waiters - 1
    /\ UNCHANGED <<backend, epoch, lock, key, npc, items, published, list>>

\* retro_eventcount_commit_wait on a futex: it spins a while on the epoch, then
\* the kernel compares and sleeps in one step.
FutexWait(w) ==
    /\ backend = "futex"
    /\ IF epoch = key[w] THEN WGoto(w, "commit", "asleep")
                         ELSE WGoto(w, "commit", "leave")
    /\ UNCHANGED <<backend, epoch, waiters, lock, key, npc, items, published, list>>

\* The other backends take the mutex and look at the epoch again; the sleep
\* comes after and gives the mutex back in the same step.
Recheck(w) ==
    /\ Mutexed
    /\ lock = Nobody
    /\ lock' = w
    /\ IF epoch = key[w] THEN WGoto(w, "commit", "sleep")
                         ELSE WGoto(w, "commit", "leave")
    /\ UNCHANGED <<backend, epoch, waiters, key, npc, items, published, list>>

CondWait(w) ==
    /\ WGoto(w, "sleep", "asleep")
    /\ lock' = Nobody
    /\ UNCHANGED <<backend, epoch, waiters, key, npc, items, published, list>>

\* ec_sem_park and ec_win32_park, if the epoch has not moved: there may be nothing
\* to sleep on, which ends the wait at once ...
LookFirst(w) ==
    /\ backend = "list"
    /\ IF epoch = key[w] THEN WGoto(w, "commit", "push") ELSE WGoto(w, "commit", "leave")
    /\ UNCHANGED <<backend, epoch, waiters, lock, key, npc, items, published, list>>

NoSemaphore(w) ==
    /\ WGoto(w, "push", "leave")
    /\ UNCHANGED <<backend, epoch, waiters, lock, key, npc, items, published, list>>

\* ... or a block is made and listed ...
PushBlock(w) ==
    /\ WGoto(w, "push", "recheck")
    /\ listed' = listed \cup {w}
    /\ woken' = woken \ {w}
    /\ UNCHANGED <<backend, epoch, waiters, lock, key, npc, items, published, chain,
                   signal, sem>>

\* ... and the epoch is looked at again.
LookListed(w) ==
    /\ IF epoch = key[w] THEN WGoto(w, "recheck", "arm") ELSE WGoto(w, "recheck", "unlink")
    /\ UNCHANGED <<backend, epoch, waiters, lock, key, npc, items, published, list>>

\* A block is taken back if it is still listed; else a notifier has it, and the
\* waiter stays until that has marked it or, if it slept, signalled.
Unlink(w, from, otherwise) ==
    /\ IF w \in listed THEN WGoto(w, from, "leave") ELSE WGoto(w, from, otherwise)
    /\ listed' = listed \ {w}
    /\ UNCHANGED <<backend, epoch, waiters, lock, key, npc, items, published, chain,
                   woken, signal, sem>>

Linger(w) ==
    /\ w \in woken
    /\ WGoto(w, "linger", "leave")
    /\ UNCHANGED <<backend, epoch, waiters, lock, key, npc, items, published, list>>

\* EC_W_ASLEEP is set and EC_W_WOKEN read in one step.
Arm(w) ==
    /\ IF w \in woken THEN WGoto(w, "arm", "leave") ELSE WGoto(w, "arm", "asleep")
    /\ UNCHANGED <<backend, epoch, waiters, lock, key, npc, items, published, list>>

\* The signal ends the sleep, or is waited for after a timeout that came too late.
Consume(w, from) ==
    /\ sem[w] > 0
    /\ WGoto(w, from, "leave")
    /\ sem' = [sem EXCEPT ![w] = @ - 1]
    /\ UNCHANGED <<backend, epoch, waiters, lock, key, npc, items, published, listed,
                   chain, woken, signal>>

\* A timeout, EINTR or a wake-up nobody sent; on the list, a timeout.
WakeSpurious(w) ==
    /\ WGoto(w, "asleep", Woken)
    /\ UNCHANGED <<backend, epoch, waiters, lock, key, npc, items, published, list>>

\* scond_wait returns with the mutex held again.
Relock(w) ==
    /\ lock = Nobody
    /\ lock' = w
    /\ WGoto(w, "woken", "leave")
    /\ UNCHANGED <<backend, epoch, waiters, key, npc, items, published, list>>

\* commit_wait deregisters, releases the mutex where it has one, and returns.
Leave(w) ==
    /\ WGoto(w, "leave", "out")
    /\ waiters' = waiters - 1
    /\ lock' = Nobody
    /\ UNCHANGED <<backend, epoch, key, npc, items, published, list>>

NotifyStep(n) ==
    \/ Bump(n) \/ Look(n) \/ Wake(n) \/ NotifyLocked(n)
    \/ TakeList(n) \/ WakeOne(n) \/ Signal(n) \/ WalkOver(n)

ListStep(w) ==
    \/ LookFirst(w) \/ PushBlock(w) \/ LookListed(w) \/ Linger(w) \/ Arm(w)
    \/ Unlink(w, "unlink", "linger") \/ Unlink(w, "expired", "consume")
    \/ Consume(w, "asleep") \/ Consume(w, "consume")

WaiterStep(w) ==
    \/ Take(w) \/ Register(w) \/ ReadEpoch(w) \/ PrepareLocked(w) \/ Test(w)
    \/ CancelWait(w) \/ FutexWait(w) \/ Recheck(w) \/ CondWait(w) \/ Relock(w)
    \/ Leave(w) \/ ListStep(w)

Next ==
    \/ \E n \in Notifiers : Publish(n) \/ NotifyStep(n)
    \/ \E w \in Waiters : WaiterStep(w) \/ Poll(w) \/ WakeSpurious(w) \/ NoSemaphore(w)

(***************************************************************************)
(* A notify that was begun is finished; a waiter keeps going unless it     *)
(* sleeps; a mutex that is free again and again is got.  Nobody has to     *)
(* publish, and nothing has to time out.                                   *)
(***************************************************************************)
Fairness ==
    /\ \A n \in Notifiers : SF_vars(NotifyStep(n))
    /\ \A w \in Waiters : SF_vars(WaiterStep(w))

SafetySpec == Init /\ [][Next]_vars

Spec == SafetySpec /\ Fairness

-----------------------------------------------------------------------------

TypeOK ==
    /\ backend \in {"futex", "list", "scond", "locked"}
    /\ epoch \in Nat
    /\ waiters \in Nat
    /\ lock \in Waiters \cup {Nobody}
    /\ key \in [Waiters -> Nat]
    /\ npc \in [Notifiers -> {"idle", "bump", "look", "wake", "walk", "signal"}]
    /\ wpc \in [Waiters -> {"out", "read", "test", "cancel", "commit",
                            "sleep", "asleep", "woken", "leave", "push", "recheck",
                            "arm", "unlink", "linger", "expired", "consume"}]
    /\ items \in Nat
    /\ published \in 0..MaxItems
    /\ listed \subseteq Waiters /\ woken \subseteq Waiters
    /\ chain \in [Notifiers -> SUBSET Waiters]
    /\ signal \in [Notifiers -> Waiters \cup {Nobody}]
    /\ sem \in [Waiters -> Nat]

\* The waiter count is exact: every way out of a window (cancel, poll, stale
\* epoch, wake, timeout) gives back exactly one registration.
CountExact == waiters = Cardinality(Registered)

\* A notify that has bumped the epoch and not yet woken the sleepers.
Waking == \E n \in Notifiers : npc[n] \in {"look", "wake"}

\* A publisher that has not got as far as the bump.
Publishing == \E n \in Notifiers : npc[n] = "bump"

\* A notifier has the block of w, or is about to signal it.
Taken(w) == \E n \in Notifiers : w \in chain[n]
Owed(w)  == \E n \in Notifiers : signal[n] = w

\* Nobody sleeps through a notify: a thread asleep, or certain to fall asleep,
\* named the current epoch, unless a notifier is still on its way to wake it or
\* its signal has come.
NoMissedNotify ==
    \A w \in Waiters :
        wpc[w] \in {"sleep", "asleep"} /\ key[w] # epoch
            => Waking \/ Taken(w) \/ Owed(w) \/ sem[w] > 0

\* The condition the client cares about: with every notify finished no consumer
\* is left asleep while there is an item to take.
NoSleepOnWork ==
    (\A n \in Notifiers : npc[n] = "idle") /\ items > 0
        => \A w \in Waiters : wpc[w] = "asleep" => sem[w] > 0

\* A block lives on its waiter's stack, and "every way out hands the semaphore
\* back with nothing counted on it": a waiter that has left its park is on nobody's
\* list and is owed no signal, so that no later park of the thread, or of the next
\* to get the semaphore, is cut short.
NothingLeftOver ==
    \A w \in Waiters : wpc[w] \notin Parking =>
        w \notin listed /\ ~Taken(w) /\ ~Owed(w) /\ sem[w] = 0

\* What makes the two inductive.  The mutex is held across the re-check and the
\* sleep, and by who leaves; an epoch never comes back; and a waiter that saw
\* no item in the epoch it named missed only what is being published.
LockHeld ==
    \A w \in Waiters :
        /\ wpc[w] = "sleep" => Mutexed /\ lock = w
        /\ wpc[w] = "leave" /\ Mutexed => lock = w

KeyInPast == \A w \in Waiters : key[w] <= epoch

SawNothing ==
    \A w \in Waiters :
        wpc[w] \in {"commit", "sleep", "asleep", "push", "recheck", "arm"} /\ key[w] = epoch
            => items = 0 \/ Publishing

\* On the list.  Which steps belong to it; whose hands a block is in, never in two;
\* that it is in some, while its waiter is parking; and that one who is about to
\* sleep learns of a notify.
ListOnly ==
    /\ backend # "list" =>
          /\ \A w \in Waiters : wpc[w] \notin (Parking \ {"asleep"}) \cup {"push"}
          /\ \A n \in Notifiers : npc[n] \notin {"walk", "signal"}
          /\ listed = {} /\ \A w \in Waiters : sem[w] = 0
    /\ \A n \in Notifiers :
          /\ npc[n] \notin {"walk", "signal"} => chain[n] = {}
          /\ npc[n] = "signal" <=> signal[n] # Nobody

OneHand ==
    \A w \in Waiters :
        /\ w \in listed => ~Taken(w) /\ ~Owed(w) /\ w \notin woken /\ sem[w] = 0
                             /\ wpc[w] \in Parking \ {"linger", "consume"}
        /\ Taken(w) => ~Owed(w) /\ w \notin woken /\ sem[w] = 0 /\ wpc[w] \in Parking
        /\ Owed(w) => sem[w] = 0 /\ wpc[w] \in Sleeping
        /\ sem[w] # 0 => sem[w] = 1 /\ wpc[w] \in Sleeping
        /\ \A m, n \in Notifiers :
              (w \in chain[m] /\ w \in chain[n]) \/ (signal[m] = w /\ signal[n] = w) => m = n

SomeHand ==
    \A w \in Waiters :
        /\ wpc[w] \in {"recheck", "arm", "unlink"} => w \in listed \/ Taken(w) \/ w \in woken
        /\ wpc[w] = "linger" => Taken(w) \/ w \in woken
        /\ wpc[w] \in {"asleep", "expired"} /\ backend = "list" =>
              w \in listed \/ Taken(w) \/ Owed(w) \/ sem[w] > 0
        /\ wpc[w] = "consume" => Taken(w) \/ Owed(w) \/ sem[w] > 0

WillLearn ==
    \A w \in Waiters :
        wpc[w] = "arm" /\ key[w] # epoch => Waking \/ Taken(w) \/ w \in woken

ListExact == ListOnly /\ OneHand /\ SomeHand /\ WillLearn

IInv ==
    /\ TypeOK /\ CountExact /\ LockHeld /\ KeyInPast
    /\ NoMissedNotify /\ SawNothing /\ ListExact

\* The promise of the header.  A sleeper whose epoch is gone has been released,
\* even if the wake is still on its way.
AbstractPlace(w) ==
    CASE wpc[w] \in {"out", "read"} -> "out"
      [] wpc[w] \in {"test", "cancel", "commit", "sleep", "push", "recheck", "arm",
                     "unlink", "linger"} -> "ready"
      [] wpc[w] = "asleep" -> IF key[w] = epoch THEN "parked" ELSE "woken"
      [] wpc[w] \in {"woken", "leave", "expired", "consume"} -> "woken"

AbstractState == [w \in Waiters |-> AbstractPlace(w)]

Abstract == INSTANCE EventCountSpec WITH state <- AbstractState

\* The backends implement the header's promise, safety and liveness both: a
\* waiter that a notify released does return.
Implements == Abstract!Spec
=============================================================================
