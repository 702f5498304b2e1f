----------------------------- MODULE TaskSwitch -----------------------------
(***************************************************************************)
(* queues/task_queue.c, the switch between the threaded and the            *)
(* unthreaded runner, made by task_queue_check on the thread that drives   *)
(* the queue (Main), against the calls of other threads (Clients): the     *)
(* gate they go through, the pushes and cancels held for the next gather,  *)
(* and the primitives of one threaded init, its generation, which a worker *)
(* stuck in a detachable handler shares with the deinit that left it.      *)
(*                                                                         *)
(* How the threaded runner orders and retires its tasks is in TaskQueue;   *)
(* here every task is due at once or parked, none is PARALLEL, BLOCKING or *)
(* bound to Main, and no handler calls the queue.                          *)
(***************************************************************************)
EXTENDS Integers, Sequences, FiniteSets, SequencesExt

CONSTANTS
    Tasks,
    Waiting,      \* tasks whose handler parks until what it waits for is there
    Detachable,   \* tasks with RETRO_TASK_FLG_DETACHABLE
    Clients,      \* the other threads
    Program,      \* the calls each of them makes, in order
    Budget,       \* whether task_queue_set_budget was called
    MaxFlips,     \* bound: how often the application changes its mind
    None

Calls == [call : {"push", "cancel", "wake"}, task : Tasks]

ASSUME TaskSwitchAssumption ==
    /\ Waiting \subseteq Tasks /\ Detachable \subseteq Tasks
    /\ IsFiniteSet(Clients) /\ Program \in [Clients -> Seq(Calls)]
    /\ \A o, p \in Clients :    \* a task is pushed once
          \A i \in 1..Len(Program[o]), j \in 1..Len(Program[p]) :
             Program[o][i].call = "push" /\ Program[p][j] = Program[o][i]
             => o = p /\ i = j
    /\ Budget \in BOOLEAN
    /\ MaxFlips \in Nat
    /\ None \notin Tasks

\* One for each threaded init: two changes of mind lie between one and the next.
Generations == 1..(MaxFlips \div 2 + 1)

VARIABLES
    want, flips,          \* task_threaded_enable; how often it was changed
    impl,                 \* impl_current: "none", "regular" or "threaded"
    switching, wakers,    \* the gate
    deferred, cancels,    \* the two lists of held calls, newest first
    running, finished,    \* tasks_running, tasks_finished
    retiring,             \* tasks_retiring
    parked, park, woken,  \* tasks with that field set
    cancelled, done,      \* RETRO_TASK_FLG_CANCELLED, _FINISHED
    gen, refs,            \* inits so far; each one's references
    propertyLock, pinned, \* whether property_lock is there, and kept for good
    workerContinue,
    worker, held,         \* each generation's worker: where it is, with what task
    mpc, fifo, snap, refused, nodes, \* where Main is in its check, and its locals
    pc, at,               \* where each client is, and in which of its calls
    ready,                \* what a waiting task waits for is there
    after,                \* history: clients whose cancel came after the push returned
    entered, ended,       \* history: reached the running list; freed
    pushed, asked,        \* history: its push returned; so did a cancel called after it
    frees,                \* history: how often each generation was freed
    leftParked, keptParked \* history: parks that outlived a switch, or one taken back

gate    == <<switching, wakers>>
lists   == <<deferred, cancels, running, finished, retiring>>
fields  == <<parked, park, woken, cancelled, done>>
life    == <<gen, refs, propertyLock, pinned, workerContinue, frees>>
workers == <<worker, held>>
check   == <<mpc, fifo, snap, refused, nodes>>
begun   == <<at, ready, after>>
clients == <<pc, begun>>
history == <<entered, ended, pushed, asked>>
excuses == <<leftParked, keptParked>>
vars == <<want, flips, impl, gate, lists, fields, life, workers, check, clients,
          history, excuses>>

Init ==
    /\ want \in BOOLEAN /\ flips = 0
    /\ impl = IF want THEN "threaded" ELSE "regular"
    /\ switching = FALSE /\ wakers = 0
    /\ deferred = <<>> /\ cancels = <<>> /\ running = <<>>
    /\ finished = {} /\ retiring = {}
    /\ parked = {} /\ park = {} /\ woken = {} /\ cancelled = {} /\ done = {}
    /\ gen = IF want THEN 1 ELSE 0
    /\ refs = [g \in Generations |-> IF g = gen THEN 1 ELSE 0]
    /\ propertyLock = want /\ pinned = FALSE
    /\ workerContinue = TRUE
    /\ worker = [g \in Generations |-> IF g = gen THEN "idle" ELSE "off"]
    /\ held = [g \in Generations |-> None]
    /\ mpc = "idle" /\ fifo = <<>> /\ snap = 0 /\ refused = <<>> /\ nodes = <<>>
    /\ pc = [o \in Clients |-> "idle"]
    /\ at = [o \in Clients |-> 0]
    /\ ready = {} /\ after = {}
    /\ entered = {} /\ ended = {} /\ pushed = {} /\ asked = {}
    /\ frees = [g \in Generations |-> 0]
    /\ leftParked = {} /\ keptParked = {}

\* Main keeps running_lock from one step to the next only while it leaves a
\* worker behind.
Unlocked == mpc # "release"

MainGoto(from, to) == mpc = from /\ mpc' = to

ClientGoto(o, from, to) ==
    /\ pc[o] = from
    /\ pc' = [pc EXCEPT ![o] = to]

Call(o) == Program[o][at[o]]

\* A list without the tasks of a set.
Without(s, S) ==
    LET kept[n \in 0..Len(s)] ==
            IF n = 0 THEN <<>>
            ELSE IF s[n] \in S THEN kept[n - 1] ELSE Append(kept[n - 1], s[n])
    IN  kept[Len(s)]

\* A task leaves its place for the end of those that are due.
ToBack(t) == Append(Without(running, {t}), t)

\* retro_task_threaded_wake_locked, for a task that is running.
WakeLocked(t) ==
    /\ woken' = woken \cup {t}
    /\ parked' = parked \ {t}
    /\ running' = IF t \in parked THEN ToBack(t) ELSE running

-----------------------------------------------------------------------------
(***************************************************************************)
(* Mutations: the mistakes the properties below are there to catch.        *)
(***************************************************************************)
\* The second look at the gate, after the count, is left out.
GateRelook_NoLook(o) ==
    /\ ClientGoto(o, "relook", "inside")
    /\ UNCHANGED <<want, flips, impl, gate, lists, fields, life, workers, check, begun,
                   history, excuses>>

\* One turned away by it stays counted.
GateRelook_StaysCounted(o) ==
    /\ ClientGoto(o, "relook", IF switching THEN "idle" ELSE "inside")
    /\ UNCHANGED <<want, flips, impl, gate, lists, fields, life, workers, check, begun,
                   history, excuses>>

\* A push goes to the runner whatever is held.
Inside_PassesHeld(o) ==
    /\ ClientGoto(o, "inside",
          IF impl = "threaded" THEN "direct"
          ELSE IF Call(o).call = "push" THEN "hold" ELSE "leave")
    /\ UNCHANGED <<want, flips, impl, gate, lists, fields, life, workers, check, begun,
                   history, excuses>>

\* A held cancel is looked up among the running tasks only.
ApplyCancel_RunningOnly ==
    /\ mpc \in {"deinit cancels", "gather cancels"}
    /\ nodes # <<>>
    /\ nodes' = Tail(nodes)
    /\ cancelled' = cancelled \cup ({Head(nodes)} \cap ToSet(running))
    /\ UNCHANGED <<want, flips, impl, gate, lists, parked, park, woken, done, life,
                   workers, mpc, fifo, snap, refused, clients, history, excuses>>

\* The worker that is left behind gets no reference to its generation.
LeaveBehind_NoReference ==
    /\ MainGoto("stopping", "release")
    /\ worker[gen] = "handler" /\ held[gen] \in Detachable
    /\ worker' = [worker EXCEPT ![gen] = "orphaned"]
    /\ running' = Without(running, {held[gen]})
    /\ UNCHANGED <<want, flips, impl, gate, deferred, cancels, finished, retiring, fields, life,
                   held, fifo, snap, refused, nodes, clients, history, excuses>>

\* Deinit leaves the parked tasks parked.
JoinWorker_KeepsParks ==
    /\ MainGoto("stopping", "initRegular")
    /\ worker[gen] = "exited"
    /\ worker' = [worker EXCEPT ![gen] = "gone"]
    /\ refs' = [refs EXCEPT ![gen] = @ - 1]
    /\ frees' = [frees EXCEPT ![gen] = @ + 1]
    /\ propertyLock' = pinned
    /\ impl' = "none"
    /\ UNCHANGED <<want, flips, gate, lists, fields, gen, pinned, workerContinue, held,
                   fifo, snap, refused, nodes, clients, history, excuses>>

\* What was held since the snapshot goes with what was pushed.
CutHeld_All ==
    /\ fifo = <<>>
    /\ MainGoto("drain", IF refused = <<>> THEN "take" ELSE "refuse")
    /\ deferred' = <<>>
    /\ snap' = 0
    /\ UNCHANGED <<want, flips, impl, gate, cancels, running, finished, retiring, fields, life,
                   workers, fifo, refused, nodes, clients, history, excuses>>

-----------------------------------------------------------------------------
(***************************************************************************)
(* The clients' calls: task_queue_push, task_queue_cancel_ident and        *)
(* task_queue_wake.                                                        *)
(***************************************************************************)
\* A waker publishes what the handler checks before it calls.
Begin(o) ==
    /\ at[o] < Len(Program[o])
    /\ ClientGoto(o, "idle", "look")
    /\ at' = [at EXCEPT ![o] = @ + 1]
    /\ LET c == Program[o][at[o] + 1]
       IN  /\ ready' = IF c.call = "wake" THEN ready \cup {c.task} ELSE ready
           /\ after' = IF c.call = "cancel" /\ c.task \in pushed THEN after \cup {o}
                                                                 ELSE after \ {o}
    /\ UNCHANGED <<want, flips, impl, gate, lists, fields, life, workers, check,
                   history, excuses>>

\* Turned away at the gate, a push or a cancel is held and a wake is dropped.
TurnedAway(o) == IF Call(o).call = "wake" THEN "idle" ELSE "defer"

\* task_wake_gate_enter: a look, the count, and a second look.
GateLook(o) ==
    /\ ClientGoto(o, "look", IF switching THEN TurnedAway(o) ELSE "count")
    /\ UNCHANGED <<want, flips, impl, gate, lists, fields, life, workers, check, begun,
                   history, excuses>>

GateCount(o) ==
    /\ ClientGoto(o, "count", "relook")
    /\ wakers' = wakers + 1
    /\ UNCHANGED <<want, flips, impl, switching, lists, fields, life, workers, check,
                   begun, history, excuses>>

GateRelook(o) ==
    /\ ClientGoto(o, "relook", IF switching THEN TurnedAway(o) ELSE "inside")
    /\ wakers' = IF switching THEN wakers - 1 ELSE wakers
    /\ UNCHANGED <<want, flips, impl, switching, lists, fields, life, workers, check,
                   begun, history, excuses>>

\* Inside, a call reaches the threaded runner, unless it is a push or a cancel
\* and there are held pushes, one of which may be its own thread's.
Inside(o) ==
    /\ ClientGoto(o, "inside",
          IF impl = "threaded" /\ (deferred = <<>> \/ Call(o).call = "wake") THEN "direct"
          ELSE IF Call(o).call = "push" THEN "hold" ELSE "leave")
    /\ UNCHANGED <<want, flips, impl, gate, lists, fields, life, workers, check, begun,
                   history, excuses>>

\* The runner's push_running, cancel_ident and wake, under running_lock.
Direct(o) ==
    LET t == Call(o).task
        found == t \in ToSet(running)
    IN  /\ Unlocked
        /\ ClientGoto(o, "direct", "leave1")
        /\ IF Call(o).call = "push"
           THEN running' = Append(running, t) /\ UNCHANGED <<woken, parked>>
           ELSE IF found THEN WakeLocked(t) ELSE UNCHANGED <<running, woken, parked>>
        /\ entered' = IF Call(o).call = "push" THEN entered \cup {t} ELSE entered
        /\ cancelled' = IF found /\ Call(o).call = "cancel"
                        THEN cancelled \cup {t} ELSE cancelled
        /\ UNCHANGED <<want, flips, impl, gate, deferred, cancels, finished, retiring, park,
                       done, life, workers, check, begun, ended, pushed, asked, excuses>>

Returned(o) ==
    LET c == Call(o)
    IN  /\ pushed' = IF c.call = "push" THEN pushed \cup {c.task} ELSE pushed
        /\ asked'  = IF o \in after THEN asked \cup {c.task} ELSE asked

\* task_wake_gate_leave; a cancel that did not reach the runner is then held.
Leave(o) ==
    /\ pc[o] \in {"leave", "leave1"}
    /\ wakers' = wakers - 1
    /\ IF pc[o] = "leave" /\ Call(o).call = "cancel"
       THEN pc' = [pc EXCEPT ![o] = "defer"] /\ UNCHANGED <<pushed, asked>>
       ELSE pc' = [pc EXCEPT ![o] = "idle"] /\ Returned(o)
    /\ UNCHANGED <<want, flips, impl, switching, lists, fields, life, workers, check,
                   begun, entered, ended, excuses>>

\* task_queue_defer, inside the gate.
Hold(o) ==
    /\ ClientGoto(o, "hold", "leave1")
    /\ deferred' = <<Call(o).task>> \o deferred
    /\ UNCHANGED <<want, flips, impl, gate, cancels, running, finished, retiring, fields, life,
                   workers, check, begun, history, excuses>>

\* task_queue_defer and task_queue_defer_cancel, outside it.
Defer(o) ==
    /\ ClientGoto(o, "defer", "idle")
    /\ Returned(o)
    /\ IF Call(o).call = "push"
       THEN deferred' = <<Call(o).task>> \o deferred /\ UNCHANGED cancels
       ELSE cancels' = <<Call(o).task>> \o cancels /\ UNCHANGED deferred
    /\ UNCHANGED <<want, flips, impl, gate, running, finished, retiring, fields, life, workers,
                   check, begun, entered, ended, excuses>>

\* The cancel could not be recorded, and the caller is told so.
DeferFails(o) ==
    /\ ClientGoto(o, "defer", "idle")
    /\ Call(o).call = "cancel"
    /\ UNCHANGED <<want, flips, impl, gate, lists, fields, life, workers, check, begun,
                   history, excuses>>

(***************************************************************************)
(* The worker of each generation.                                          *)
(***************************************************************************)
\* It leaves its loop once told to ...
WorkerExits(g) ==
    /\ Unlocked
    /\ worker[g] = "idle" /\ ~workerContinue
    /\ worker' = [worker EXCEPT ![g] = "exited"]
    /\ UNCHANGED <<want, flips, impl, gate, lists, fields, life, held, check, clients,
                   history, excuses>>

\* ... and else takes the first task that is not parked.
WorkerPicks(g) ==
    LET i == SelectInSeq(running, LAMBDA t : t \notin parked)
    IN  /\ Unlocked
        /\ worker[g] = "idle" /\ workerContinue
        /\ i # 0
        /\ worker' = [worker EXCEPT ![g] = "handler"]
        /\ held' = [held EXCEPT ![g] = running[i]]
        /\ woken' = woken \ {running[i]}
        /\ UNCHANGED <<want, flips, impl, gate, lists, parked, park, cancelled, done,
                       life, check, clients, history, excuses>>

\* What a handler's pass over t does: finish, park, or neither.
Finishes(t) == t \in ready \cup cancelled \/ t \notin Waiting
Parks(t)    == t \in Waiting \ (ready \cup cancelled)
GoesOn(t)   == t \notin Waiting \cup cancelled

\* The handler returns.  A worker that was left behind cleans up its task.
HandlerReturns(g) ==
    LET t == held[g]
    IN  /\ worker[g] \in {"handler", "orphaned"}
        /\ \/ Finishes(t) /\ done' = done \cup {t} /\ UNCHANGED park
           \/ Parks(t) /\ park' = park \cup {t} /\ UNCHANGED done
           \/ GoesOn(t) /\ UNCHANGED <<done, park>>
        /\ worker' = [worker EXCEPT ![g] = IF @ = "handler" THEN "settle" ELSE "cleanup"]
        /\ UNCHANGED <<want, flips, impl, gate, lists, parked, woken, cancelled, life,
                       held, check, clients, history, excuses>>

\* retro_task_threaded_settle
WorkerSettles(g) ==
    LET t == held[g]
    IN  /\ Unlocked
        /\ worker[g] = "settle"
        /\ worker' = [worker EXCEPT ![g] = "idle"]
        /\ held' = [held EXCEPT ![g] = None]
        /\ running' = IF t \in done THEN Without(running, {t}) ELSE ToBack(t)
        /\ finished' = IF t \in done THEN finished \cup {t} ELSE finished
        /\ parked' = IF t \in park \ (woken \cup done) THEN parked \cup {t} ELSE parked
        /\ park' = park \ {t}
        /\ woken' = woken \ {t}
        /\ UNCHANGED <<want, flips, impl, gate, deferred, cancels, retiring, cancelled,
                       done, life, check, clients, history, excuses>>

\* A worker left behind lets go of its generation after the cleanup, and frees it
\* if deinit has let go too.
OrphanReleases(g) ==
    /\ Unlocked
    /\ worker[g] = "cleanup"
    /\ worker' = [worker EXCEPT ![g] = "gone"]
    /\ held' = [held EXCEPT ![g] = None]
    /\ ended' = ended \cup {held[g]}
    /\ refs' = [refs EXCEPT ![g] = @ - 1]
    /\ frees' = IF refs[g] = 1 THEN [frees EXCEPT ![g] = @ + 1] ELSE frees
    /\ UNCHANGED <<want, flips, impl, gate, lists, fields, gen, propertyLock, pinned,
                   workerContinue, check, clients, entered, pushed, asked, excuses>>

\* A park's horizon passes.
Horizon(t) ==
    /\ t \in parked
    /\ parked' = parked \ {t}
    /\ running' = ToBack(t)
    /\ UNCHANGED <<want, flips, impl, gate, deferred, cancels, finished, retiring, park, woken,
                   cancelled, done, life, workers, check, clients, history, excuses>>

(***************************************************************************)
(* task_queue_check, on Main.                                              *)
(***************************************************************************)
\* task_queue_set_threaded and task_queue_unset_threaded, on any thread and at any
\* moment: a handler may make them, and so may the application, in a check or not.
Flip ==
    /\ flips < MaxFlips
    /\ want' = ~want
    /\ flips' = flips + 1
    /\ UNCHANGED <<impl, gate, lists, fields, life, workers, check, clients, history,
                   excuses>>

\* The gate is closed for a switch, and opened if a switch that was put off is
\* no longer wanted.
Check ==
    /\ IF want # (impl = "threaded")
       THEN /\ MainGoto("idle", "count")
            /\ switching' = TRUE
            /\ UNCHANGED keptParked
       ELSE /\ MainGoto("idle", "gather")
            /\ switching' = FALSE
            /\ keptParked' = IF switching THEN keptParked \cup parked \cup Range(held)
                                            ELSE keptParked
    /\ UNCHANGED <<want, flips, impl, wakers, lists, fields, life, workers, fifo, snap,
                   refused, nodes, clients, history, leftParked>>

\* "A waker still inside keeps the old runner one more check."
CountWakers ==
    /\ MainGoto("count", IF wakers = 0 THEN "deinit" ELSE "gather")
    /\ UNCHANGED <<want, flips, impl, gate, lists, fields, life, workers, fifo, snap,
                   refused, nodes, clients, history, excuses>>

\* task_queue_cancel_deferred, in a deinit and in a gather: all of them are taken ...
TakeCancels(from, to, next) ==
    /\ MainGoto(from, IF cancels = <<>> THEN next ELSE to)
    /\ nodes' = cancels
    /\ cancels' = <<>>
    /\ UNCHANGED <<want, flips, impl, gate, deferred, running, finished, retiring, fields, life,
                   workers, fifo, snap, refused, clients, history, excuses>>

\* ... and each is made: task_queue_cancel_ident_now flags a running task, which
\* the threaded runner also wakes, or one that is still held.
ApplyCancel ==
    LET t == Head(nodes)
        runs == t \in ToSet(running)
    IN  /\ mpc \in {"deinit cancels", "gather cancels"}
        /\ nodes # <<>>
        /\ nodes' = Tail(nodes)
        /\ cancelled' = IF runs \/ t \in ToSet(deferred) THEN cancelled \cup {t} ELSE cancelled
        /\ IF runs /\ impl = "threaded" THEN WakeLocked(t)
                                        ELSE UNCHANGED <<woken, parked, running>>
        /\ UNCHANGED <<want, flips, impl, gate, deferred, cancels, finished, retiring, park,
                       done, life, workers, mpc, fifo, snap, refused, clients, history,
                       excuses>>

CancelsMade(from, to) ==
    /\ nodes = <<>>
    /\ MainGoto(from, to)
    /\ UNCHANGED <<want, flips, impl, gate, lists, fields, life, workers, fifo, snap,
                   refused, nodes, clients, history, excuses>>

\* The unthreaded runner has nothing to take down.  The runner that comes next is
\* the one the check wanted, the other one, whatever is wanted by now.
DeinitRegular ==
    /\ impl = "regular"
    /\ MainGoto("stop", "initThreaded")
    /\ impl' = "none"
    /\ UNCHANGED <<want, flips, gate, lists, fields, life, workers, fifo, snap, refused,
                   nodes, clients, history, excuses>>

\* retro_task_threaded_deinit tells the worker to stop and waits for it.
DeinitStops ==
    /\ impl = "threaded"
    /\ MainGoto("stop", "stopping")
    /\ workerContinue' = FALSE
    /\ UNCHANGED <<want, flips, impl, gate, lists, fields, gen, refs, propertyLock,
                   pinned, frees, workers, fifo, snap, refused, nodes, clients, history,
                   excuses>>

\* Past the bound, one in a detachable handler is left behind: its task is taken
\* off the queue, and it gets a reference to its generation.
LeaveBehind ==
    /\ MainGoto("stopping", "release")
    /\ worker[gen] = "handler" /\ held[gen] \in Detachable
    /\ worker' = [worker EXCEPT ![gen] = "orphaned"]
    /\ running' = Without(running, {held[gen]})
    /\ refs' = [refs EXCEPT ![gen] = @ + 1]
    /\ UNCHANGED <<want, flips, impl, gate, deferred, cancels, finished, retiring, fields, gen,
                   propertyLock, pinned, workerContinue, frees, held, fifo, snap,
                   refused, nodes, clients, history, excuses>>

\* Deinit lets go of the generation while it still holds running_lock, which a
\* worker left behind needs to let go; property_lock is then kept for good.
ReleaseLeft ==
    /\ MainGoto("release", "initRegular")
    /\ refs' = [refs EXCEPT ![gen] = @ - 1]
    /\ pinned' = TRUE
    /\ leftParked' = leftParked \cup parked
    /\ impl' = "none"
    /\ UNCHANGED <<want, flips, gate, lists, fields, gen, propertyLock, workerContinue,
                   frees, workers, fifo, snap, refused, nodes, clients, history,
                   keptParked>>

\* The worker has left its loop: it is joined, every park is ended, and the
\* primitives are freed.
JoinWorker ==
    /\ MainGoto("stopping", "initRegular")
    /\ worker[gen] = "exited"
    /\ worker' = [worker EXCEPT ![gen] = "gone"]
    /\ refs' = [refs EXCEPT ![gen] = @ - 1]
    /\ frees' = [frees EXCEPT ![gen] = @ + 1]
    /\ parked' = {}
    /\ running' = Without(running, parked) \o Without(running, Tasks \ parked)
    /\ propertyLock' = pinned
    /\ impl' = "none"
    /\ UNCHANGED <<want, flips, gate, deferred, cancels, finished, retiring, park, woken,
                   cancelled, done, gen, pinned, workerContinue, held, fifo, snap,
                   refused, nodes, clients, history, excuses>>

\* task_queue_init stores what the check wanted, over a change of mind made since
\* the check looked, and opens the gate once the runner is up ...
InitRegular ==
    /\ MainGoto("initRegular", "gather")
    /\ want' = FALSE
    /\ impl' = "regular"
    /\ switching' = FALSE
    /\ UNCHANGED <<flips, wakers, lists, fields, life, workers, fifo, snap,
                   refused, nodes, clients, history, excuses>>

InitThreaded ==
    /\ MainGoto("initThreaded", "gather")
    /\ want' = TRUE
    /\ impl' = "threaded"
    /\ switching' = FALSE
    /\ gen' = gen + 1
    /\ refs' = [refs EXCEPT ![gen + 1] = 1]
    /\ propertyLock' = TRUE
    /\ workerContinue' = TRUE
    /\ worker' = [worker EXCEPT ![gen + 1] = "idle"]
    /\ UNCHANGED <<flips, wakers, lists, fields, pinned, frees, held, fifo, snap,
                   refused, nodes, clients, history, excuses>>

\* ... and falls back on the unthreaded one if that cannot be had.
InitFails ==
    /\ MainGoto("initThreaded", "gather")
    /\ want' = FALSE
    /\ impl' = "regular"
    /\ switching' = FALSE
    /\ UNCHANGED <<flips, wakers, lists, fields, life, workers, fifo, snap, refused,
                   nodes, clients, history, excuses>>

(***************************************************************************)
(* The gather.  task_queue_push_deferred pushes what it finds held, oldest *)
(* first, and cuts it off below what was held since; then it retires those *)
(* that were cancelled meanwhile.                                          *)
(***************************************************************************)
SnapDeferred ==
    /\ MainGoto("gather", IF deferred = <<>> THEN "take" ELSE "drain")
    /\ fifo' = Reverse(deferred)
    /\ snap' = Len(deferred)
    /\ UNCHANGED <<want, flips, impl, gate, lists, fields, life, workers, refused,
                   nodes, clients, history, excuses>>

PushHeld ==
    LET t == Head(fifo)
    IN  /\ mpc = "drain" /\ fifo # <<>>
        /\ fifo' = Tail(fifo)
        /\ IF t \in cancelled
           THEN refused' = Append(refused, t) /\ UNCHANGED <<running, entered>>
           ELSE /\ running' = Append(running, t)
                /\ entered' = entered \cup {t}
                /\ UNCHANGED refused
        /\ UNCHANGED <<want, flips, impl, gate, deferred, cancels, finished, retiring, fields,
                       life, workers, mpc, snap, nodes, clients, ended, pushed, asked,
                       excuses>>

CutHeld ==
    /\ fifo = <<>>
    /\ MainGoto("drain", IF refused = <<>> THEN "take" ELSE "refuse")
    /\ deferred' = SubSeq(deferred, 1, Len(deferred) - snap)
    /\ snap' = 0
    /\ UNCHANGED <<want, flips, impl, gate, cancels, running, finished, retiring, fields, life,
                   workers, fifo, refused, nodes, clients, history, excuses>>

RetireRefused ==
    /\ MainGoto("refuse", "take")
    /\ done' = done \cup ToSet(refused)
    /\ ended' = ended \cup ToSet(refused)
    /\ refused' = <<>>
    /\ UNCHANGED <<want, flips, impl, gate, lists, parked, park, woken, cancelled, life,
                   workers, fifo, snap, nodes, clients, entered, pushed, asked,
                   excuses>>

\* What a gather retires of those it may: all of them, or, with a budget, at least
\* one if there is one.
Retired(all) ==
    {S \in SUBSET all : IF Budget THEN S # {} \/ all = {} ELSE S = all}

\* The threaded gather moves what its worker finished to the retiring list, and
\* retires from that; what its budget leaves there waits for the next one ...
GatherThreaded ==
    /\ impl = "threaded"
    /\ MainGoto("run", "idle")
    /\ \E S \in Retired(retiring \cup finished) :
          /\ ended' = ended \cup S
          /\ retiring' = (retiring \cup finished) \ S
    /\ finished' = {}
    /\ UNCHANGED <<want, flips, impl, gate, deferred, cancels, running, fields, life,
                   workers, fifo, snap, refused, nodes, clients, entered, pushed, asked,
                   excuses>>

\* ... the unthreaded one runs every due task once, or, with a budget, those in a
\* first part of the list that holds one, and the part it ran goes behind the rest.
\* It retires from the finished list, and never looks at the retiring one.  A park
\* asked for there is ignored.
GatherRegular ==
    /\ impl = "regular"
    /\ MainGoto("run", "idle")
    /\ \E n \in 0..Len(running) :
          LET ran  == SubSeq(running, 1, n)
              rest == SubSeq(running, n + 1, Len(running))
              due  == ToSet(ran) \ parked
          IN  /\ n = Len(running) \/ (Budget /\ due # {})
              /\ \E S \in SUBSET due :
                    /\ \A t \in S : Finishes(t)
                    /\ \A t \in due \ S : Parks(t) \/ GoesOn(t)
                    /\ done' = done \cup S
                    /\ running' = Without(rest \o ran, S)
                    /\ \E R \in Retired(finished \cup S) :
                          /\ ended' = ended \cup R
                          /\ finished' = (finished \cup S) \ R
    /\ UNCHANGED <<want, flips, impl, gate, deferred, cancels, retiring, parked, park,
                   woken, cancelled, life, workers, fifo, snap, refused, nodes, clients,
                   entered, pushed, asked, excuses>>

-----------------------------------------------------------------------------

ClientStep(o) ==
    \/ GateLook(o) \/ GateCount(o) \/ GateRelook(o) \/ Inside(o) \/ Direct(o)
    \/ Leave(o) \/ Hold(o) \/ Defer(o)

WorkerStep(g) ==
    WorkerExits(g) \/ WorkerPicks(g) \/ HandlerReturns(g) \/ WorkerSettles(g)
    \/ OrphanReleases(g)

MainStep ==
    \/ Check \/ CountWakers
    \/ TakeCancels("deinit", "deinit cancels", "stop")
    \/ TakeCancels("take", "gather cancels", "run")
    \/ ApplyCancel
    \/ CancelsMade("deinit cancels", "stop") \/ CancelsMade("gather cancels", "run")
    \/ DeinitRegular \/ DeinitStops \/ LeaveBehind \/ ReleaseLeft \/ JoinWorker
    \/ InitRegular \/ InitThreaded \/ InitFails
    \/ SnapDeferred \/ PushHeld \/ CutHeld \/ RetireRefused
    \/ GatherThreaded \/ GatherRegular

Next ==
    \/ MainStep \/ Flip
    \/ \E o \in Clients : Begin(o) \/ ClientStep(o) \/ DeferFails(o)
    \/ \E g \in Generations : WorkerStep(g)
    \/ \E t \in Tasks : Horizon(t)

\* A handler's pass that finishes a task which could have gone on.
FinishingPass ==
    /\ GatherRegular \/ \E g \in Generations : HandlerReturns(g)
    /\ done' # done

(***************************************************************************)
(* The driving thread checks again and again, each client makes its calls, *)
(* a handler returns, a task that is run again and again finishes, and     *)
(* horizons pass.  Nobody has to change runners.                           *)
(***************************************************************************)
Fairness ==
    /\ WF_vars(MainStep)
    /\ \A o \in Clients : WF_vars(Begin(o) \/ ClientStep(o))
    /\ \A g \in Generations : WF_vars(WorkerStep(g))
    /\ SF_vars(FinishingPass)
    /\ \A t \in Waiting : WF_vars(Horizon(t))

Spec == Init /\ [][Next]_vars /\ Fairness

-----------------------------------------------------------------------------

TypeOK ==
    /\ impl \in {"none", "regular", "threaded"}
    /\ wakers \in Nat
    /\ {deferred, running, fifo, refused, nodes, cancels} \subseteq Seq(Tasks)
    /\ \A g \in Generations : refs[g] \in 0..2
    /\ (finished \cup retiring) \cap ToSet(running) = {} /\ finished \cap retiring = {}

\* A client that got past the gate finds the runner up, and stays safe from the
\* switch until it has left: no deinit has begun while it is to use the lists.
RunnerStaysUp ==
    \A o \in Clients : pc[o] = "direct" =>
        impl = "threaded" /\ workerContinue /\ frees[gen] = 0
            /\ mpc \notin {"deinit", "stop", "stopping", "release"}

\* The primitives of a generation are freed once, by whoever lets go last, and
\* while a handler or a cleanup may use them they, and property_lock, are there.
GenerationOutlives ==
    \A g \in Generations :
        /\ frees[g] <= 1
        /\ worker[g] \in {"idle", "handler", "settle", "exited", "orphaned", "cleanup"} =>
              frees[g] = 0 /\ propertyLock
        /\ worker[g] = "gone" => frees[g] = 1

\* "A thread's pushes start in the order it made them": no push reaches the
\* running list while an earlier one of its thread is still held.
PushOrder ==
    /\ TypeOK
    /\ \A o \in Clients : \A i, j \in 1..Len(Program[o]) :
        /\ i < j
        /\ Program[o][i].call = "push" /\ Program[o][j].call = "push"
        /\ Program[o][j].task \in entered
        => Program[o][i].task \in entered \cup ToSet(refused) \cup ended

\* A cancel made after the task was pushed is not lost to a held push or to a
\* switch: it has reached the task, or waits for the next gather, if the task has
\* not finished or been left behind.
CancelNotLost ==
    \A t \in asked \ (cancelled \cup done \cup ended) :
        \/ t \in ToSet(cancels) \cup ToSet(nodes)
        \/ \E g \in Generations : worker[g] \in {"orphaned", "cleanup"} /\ held[g] = t

\* A waiting task is left parked, with what it waits for there and its waker done.
WakeLost(t) ==
    /\ t \in ready \cap parked
    /\ impl = "threaded" /\ ~switching
    /\ \A o \in Clients : pc[o] # "idle" => Call(o) # [call |-> "wake", task |-> t]

\* "A switch ends every park, unless it leaves a stuck handler behind", so that a
\* wake the gate dropped loses nothing; that, and a switch put off and taken back,
\* are the only ways one is lost.
WakeLostOnlyBySwitch ==
    \A t \in Tasks : WakeLost(t) => t \in leftParked \cup keptParked

\* The runner ends up as the application wants it.
SwitchHappens == <>[](want = (impl = "threaded") /\ ~switching)

\* Every task pushed, held or not, is run and retired in the end, but for those that
\* the budget of a threaded gather had left when the runner was changed for good.
PushesEndOrAreLeft ==
    <>[](pushed \subseteq ended \cup (IF impl = "regular" THEN retiring ELSE {}))

\* "The rest stay queued, still findable, for the next check": every task pushed is
\* retired in the end, budget or not.
EveryPushEnds == <>[](pushed \subseteq ended)
-----------------------------------------------------------------------------
(***************************************************************************)
(* What RunnerStaysUp and GenerationOutlives rest on: the inductive        *)
(* invariant of TaskSwitch_proof.                                          *)
(***************************************************************************)
\* Main is past its look at the count, in a deinit or an init; a client is through
\* the gate; a client is counted.
Closing == {"deinit", "deinit cancels", "stop", "stopping", "release", "initRegular",
            "initThreaded"}
Through == {"inside", "direct", "hold", "leave", "leave1"}
Counted == {o \in Clients : pc[o] \in Through \cup {"relook"}}

Shape ==
    /\ want \in BOOLEAN /\ switching \in BOOLEAN /\ workerContinue \in BOOLEAN
    /\ propertyLock \in BOOLEAN /\ pinned \in BOOLEAN
    /\ flips \in 0..MaxFlips /\ gen \in Nat
    /\ refs \in [Generations -> Nat] /\ frees \in [Generations -> Nat]
    /\ worker \in [Generations -> {"off", "idle", "handler", "settle", "exited",
                                   "orphaned", "cleanup", "gone"}]
    /\ DOMAIN pc = Clients

\* The gate's count misses nobody.
WakersExact == wakers = Cardinality(Counted)

\* Nobody is through the gate while it counts.
GateHolds ==
    /\ mpc \in Closing \cup {"count"} => switching
    /\ \A o \in Clients : pc[o] \in Through => mpc \notin Closing
    /\ \A o \in Clients : pc[o] = "direct" => impl = "threaded"

\* The changes of mind between now and the next threaded init, at least: those to
\* the other runner and back, less the one Main is acting on.
StillToCome ==
    IF mpc \in Closing \cup {"count"}
    THEN IF impl = "threaded" \/ mpc = "initRegular" THEN 1 ELSE 0
    ELSE IF ~want THEN 1 ELSE IF impl = "threaded" THEN 2 ELSE 0

\* A runner is taken down before the other comes up, and a threaded one comes only
\* with every second change of mind.
Turns ==
    /\ mpc \in {"initRegular", "initThreaded"} => impl = "none"
    /\ mpc \in {"stopping", "release"} => impl = "threaded"
    /\ impl = "threaded" /\ mpc \notin {"stopping", "release"} => workerContinue
    /\ 2 * gen <= flips + StillToCome

\* Who holds each generation: nobody yet; deinit, and the worker it has just left;
\* a worker left behind, or nobody any more.
Lives ==
    /\ pinned => propertyLock
    /\ impl = "threaded" => propertyLock /\ gen >= 1
    /\ \A g \in Generations :
          IF g > gen THEN worker[g] = "off" /\ refs[g] = 0 /\ frees[g] = 0
          ELSE IF g = gen /\ impl = "threaded"
          THEN /\ frees[g] = 0
               /\ IF mpc = "release"
                  THEN worker[g] \in {"orphaned", "cleanup"} /\ refs[g] = 2
                  ELSE worker[g] \in {"idle", "handler", "settle", "exited"} /\ refs[g] = 1
          ELSE \/ worker[g] = "gone" /\ refs[g] = 0 /\ frees[g] = 1
               \/ worker[g] \in {"orphaned", "cleanup"} /\ refs[g] = 1 /\ frees[g] = 0
                     /\ pinned

IInv == Shape /\ WakersExact /\ GateHolds /\ Turns /\ Lives

(***************************************************************************)
(* What PushOrder, CancelNotLost and WakeLostOnlyBySwitch rest on: where a *)
(* task is, which calls are held, and what a park waits for.               *)
(***************************************************************************)
\* Call i of o's is a push.
IsPush(o, i) == i \in 1..Len(Program[o]) /\ Program[o][i].call = "push"

\* Pushed to a runner or refused; taken on by the queue; with a worker left behind.
Past  == entered \cup ToSet(refused) \cup ended
Known == ToSet(deferred) \cup Past
Left  == {t \in Tasks : \E g \in Generations :
                            worker[g] \in {"orphaned", "cleanup"} /\ held[g] = t}

\* A push that has taken effect.
Made(o, i) == i < at[o] \/ (i = at[o] /\ pc[o] \in {"idle", "leave1"})

Contents ==
    /\ impl \in {"none", "regular", "threaded"}
    /\ deferred \in Seq(Tasks) /\ cancels \in Seq(Tasks) /\ running \in Seq(Tasks)
    /\ fifo \in Seq(Tasks) /\ refused \in Seq(Tasks) /\ nodes \in Seq(Tasks)
    /\ entered \subseteq Tasks /\ snap \in Nat
    /\ at \in [Clients -> Nat] /\ held \in [Generations -> Tasks \cup {None}]

\* What each client's call is when it is where it is.
Where ==
    \A o \in Clients :
        /\ at[o] <= Len(Program[o])
        /\ pc[o] # "idle" => at[o] # 0
        /\ pc[o] = "leave" => Call(o).call # "push"
        /\ pc[o] = "hold" => Call(o).call = "push"
        /\ pc[o] = "defer" => Call(o).call # "wake"
        /\ pc[o] # "idle" /\ o \in after => Call(o).call = "cancel" /\ Call(o).task \in Known

\* A task that was pushed is in the running list, finished, or gone.
Placed ==
    /\ entered \subseteq ToSet(running) \cup finished \cup retiring \cup ended \cup Left
    /\ ToSet(running) \subseteq entered
    /\ finished \cup retiring \subseteq entered \cap done
    /\ (finished \cup retiring) \cap ToSet(running) = {} /\ finished \cap retiring = {}
    /\ ToSet(refused) \subseteq cancelled
    /\ \A g \in Generations :
          /\ worker[g] \in {"handler", "settle"} => held[g] \in ToSet(running) \ parked
          /\ worker[g] \in {"orphaned", "cleanup"} => held[g] \in entered \ ToSet(running)
    /\ parked \subseteq ToSet(running)

\* The held pushes, newest first; those the gather has pushed are the last ones.
Drained == Len(deferred) - (snap - Len(fifo))

HeldInOrder ==
    /\ mpc # "drain" => fifo = <<>> /\ snap = 0
    /\ Len(fifo) <= snap /\ snap <= Len(deferred)
    /\ IsInjective(deferred)
    /\ \A k \in 1..Len(fifo) : fifo[k] = deferred[Drained - k + 1]
    /\ \A k \in 1..Len(deferred) : deferred[k] \in Past <=> k > Drained
    /\ \A o \in Clients : \A i, j \in 1..Len(Program[o]) : \A a, b \in 1..Len(deferred) :
          /\ IsPush(o, i) /\ deferred[a] = Program[o][i].task
          /\ IsPush(o, j) /\ deferred[b] = Program[o][j].task
          /\ i < j
          => b < a

\* A push takes effect once; before one does, the earlier ones of its thread have.
PushedOnce ==
    /\ pushed \subseteq Known /\ asked \subseteq Known
    /\ \A o \in Clients : \A i \in 1..Len(Program[o]) :
          IsPush(o, i) => (Program[o][i].task \in Known <=> Made(o, i))
    /\ \A o \in Clients : \A i, j \in 1..Len(Program[o]) :
          /\ IsPush(o, i) /\ IsPush(o, j) /\ i < j
          /\ \/ Program[o][j].task \in entered
             \/ pc[o] = "direct" /\ at[o] = j
          => Program[o][i].task \in Past

\* A cancel that reached the runner found its task, unless it was past cancelling;
\* the taken ones are made before more are taken.
CancelsKept ==
    /\ \A o \in Clients : o \in after =>
          /\ pc[o] = "direct" => Call(o).task \in Past
          /\ pc[o] = "leave1" => Call(o).task \in cancelled \cup done \cup ended \cup Left
    /\ asked \subseteq cancelled \cup done \cup ended \cup ToSet(cancels) \cup ToSet(nodes)
                          \cup Left
    /\ mpc \notin {"deinit cancels", "gather cancels"} => nodes = <<>>

\* A wake of t's is on its way to the runner; a worker is about to park t.
Waking(t) ==
    \E o \in Clients : /\ pc[o] \in {"look", "count", "relook", "inside", "direct"}
                       /\ Call(o) = [call |-> "wake", task |-> t]

AboutToPark(t) ==
    \E g \in Generations :
        worker[g] = "settle" /\ held[g] = t /\ t \in park \ (woken \cup done)

Excused == leftParked \cup keptParked

ParksEnd ==
    /\ park \subseteq entered
    /\ \A t \in park \cap ToSet(running) :
          \E g \in Generations : worker[g] = "settle" /\ held[g] = t
    /\ impl # "threaded" => parked \subseteq Excused
    /\ impl = "threaded" /\ ~switching =>
          \A t \in ready : Waking(t) \/ t \in Excused \/ (t \notin parked /\ ~AboutToPark(t))

LInv == Contents /\ Where /\ Placed /\ HeldInOrder /\ PushedOnce /\ CancelsKept /\ ParksEnd
=============================================================================
