----------------------------- MODULE TaskQueue ------------------------------
(***************************************************************************)
(* queues/task_queue.c, the threaded runner: one worker that runs every    *)
(* task, extra workers for the tasks marked parallel, and the checking     *)
(* thread (Main), which runs the tasks bound to it and retires finished    *)
(* ones.  Other threads push tasks, publish what a parked one waits for    *)
(* and wake it, and cancel.                                                *)
(*                                                                         *)
(* A critical section is one step.  The one exception is the move of a     *)
(* finished task, which holds both locks while it changes two counters     *)
(* that a gather reads without either.  Times are abstracted to their      *)
(* order: a task is due "now" (when is 0), its time is "past" or it is     *)
(* "later"; two times that are not 0 may compare either way.               *)
(*                                                                         *)
(* Which runner is current, and the pushes and cancels held while it       *)
(* changes, are in TaskSwitch.                                             *)
(***************************************************************************)
EXTENDS Integers, Sequences, FiniteSets, SequencesExt

CONSTANTS
    Tasks,
    Setups,       \* the setups considered: each task's kinds, and the budget
    Worker,       \* the one worker
    Extras,       \* the extra workers a parallel push asks for
    Main,         \* the checking thread
    Others,       \* threads that push, publish, wake and cancel
    MaxDepth,     \* bound: checks inside one another, from handlers and callbacks
    None

Workers == {Worker} \cup Extras
Threads == Workers \cup Others \cup {Main}

\* What a pusher makes of its task: the flags MAIN_THREAD and PARALLEL, the type
\* BLOCKING, a time to start at, a handler that parks until what it waits for is
\* there.
Kinds == {"main", "parallel", "blocking", "scheduled", "waiting"}

ASSUME TaskQueueAssumption ==
    /\ Setups \subseteq [kinds : [Tasks -> SUBSET Kinds], budget : BOOLEAN]
    /\ MaxDepth \in Nat \ {0}
    /\ None \notin Tasks \cup Threads
    /\ Worker \notin Extras
    /\ Workers \cap Others = {} /\ Main \notin Workers \cup Others

VARIABLES
    setup,                         \* one of Setups; it never changes
    running, finished, retiring,   \* the three lists
    runningCount, finishedCount,   \* tasks_running_count, tasks_finished_count
    when,                          \* each task's time: "now", "past", "later"
    parked, park, woken, busy,     \* tasks with that field set
    cancelled, done,               \* RETRO_TASK_FLG_CANCELLED, _FINISHED
    lock,                          \* who holds both locks between two steps
    extrasStarted,                 \* parallel_started
    pc, task,                      \* where each thread but Main is, and with what
    stack,                         \* Main's calls, the innermost first
    inGather, inRunMain,           \* the two guards against nested checks
    ready,                         \* what a waiting task waits for is there
    pushed, called, freed,         \* history: pushed, callback over, freed
    asked                          \* history: what was pushed when Main began to wait

lists   == <<running, finished, retiring>>
counts  == <<runningCount, finishedCount>>
fields  == <<when, parked, park, woken, busy>>
flags   == <<cancelled, done>>
main    == <<stack, inGather, inRunMain>>
history == <<pushed, called, freed, asked>>
\* All but setup.
vars == <<lists, counts, fields, flags, lock, extrasStarted, pc, task, main,
          ready, history>>

Of(kind) == {t \in Tasks : kind \in setup.kinds[t]}
MainTasks      == Of("main")
ParallelTasks  == Of("parallel") \ MainTasks
BlockingTasks  == Of("blocking")
ScheduledTasks == Of("scheduled")
WaitingTasks   == Of("waiting")

\* task_queue_set_budget bounds what one check does.
Budget == setup.budget

Frame(at, t, n) == [at |-> at, task |-> t, n |-> n]

Init ==
    /\ setup \in Setups
    /\ running = <<>> /\ finished = <<>> /\ retiring = <<>>
    /\ runningCount = 0 /\ finishedCount = 0
    /\ when = [t \in Tasks |-> IF t \in ScheduledTasks THEN "later" ELSE "now"]
    /\ parked = {} /\ park = {} /\ woken = {} /\ busy = {}
    /\ cancelled = {} /\ done = {}
    /\ lock = None
    /\ extrasStarted = FALSE
    /\ pc = [h \in Workers \cup Others |->
                IF h = Worker THEN "loop" ELSE IF h \in Extras THEN "off" ELSE "idle"]
    /\ task = [h \in Workers \cup Others |-> None]
    /\ stack = <<Frame("idle", None, 0)>>
    /\ inGather = FALSE /\ inRunMain = FALSE
    /\ ready = {}
    /\ pushed = {} /\ called = {} /\ freed = {} /\ asked = {}

(***************************************************************************)
(* The lists.                                                              *)
(***************************************************************************)
Rank(w) == CASE w = "now" -> 0 [] w = "past" -> 1 [] w = "later" -> 2

\* task_queue_put: behind the tasks of the same time or an earlier one, the times
\* being w.  Only zero is a time two tasks certainly share.
Put(s, t, w) ==
    {InsertAt(s, i, t) : i \in {i \in 1..(Len(s) + 1) :
        /\ \A j \in 1..(i - 1) : Rank(w[s[j]]) <= Rank(w[t])
        /\ \A j \in i..Len(s) :
              Rank(w[s[j]]) > Rank(w[t]) \/ (w[t] # "now" /\ w[s[j]] = w[t])}}

\* A list to a list, one task at a time, as the gather moves the finished ones.
PutAll(from, to) ==
    LET moved[n \in 0..Len(from)] ==
            IF n = 0 THEN {to} ELSE UNION {Put(s, from[n], when) : s \in moved[n - 1]}
    IN  moved[Len(from)]

\* Under running_lock: take t out and put it back at its new time.
Requeue(t, w) ==
    /\ when' = [when EXCEPT ![t] = w]
    /\ running' \in Put(RemoveFirst(running, t), t, when')

\* Broadcast on worker_cond, by a thread that leaves the program counters at q.
Broadcast(q) ==
    [h \in DOMAIN q |-> IF q[h] \in {"asleep", "timed"} THEN "loop" ELSE q[h]]

Unlocked == lock = None

Goto(h, from, to) ==
    /\ pc[h] = from
    /\ pc' = [pc EXCEPT ![h] = to]

\* Main is in its innermost call, or in a client's code at the bottom of it.
At(place) == stack[1].at = place
MainGoto(to) == stack' = <<to>> \o Tail(stack)
MainReturn == stack' = Tail(stack)

-----------------------------------------------------------------------------
(***************************************************************************)
(* Mutations: the mistakes the properties below are there to catch.        *)
(***************************************************************************)
\* A pass that asks for a park gets it although a wake came in meanwhile.
SettleUnfinished_ParksWoken(t, q) ==
    /\ Unlocked
    /\ t \notin done
    /\ busy' = busy \ {t}
    /\ IF t \in park
       THEN Requeue(t, "later") /\ parked' = parked \cup {t}
       ELSE running' \in Put(RemoveFirst(running, t), t, when) /\ UNCHANGED <<when, parked>>
    /\ pc' = Broadcast(q)
    /\ park' = park \ {t}
    /\ woken' = woken \ {t}
    /\ UNCHANGED <<finished, retiring, counts, flags, lock, extrasStarted, ready, history>>

\* A push tells the workers of its task only if it starts some.
PushRunning_Silent(t, q) ==
    /\ Unlocked
    /\ running' \in Put(running, t, when)
    /\ runningCount' = runningCount + 1
    /\ pushed' = pushed \cup {t}
    /\ IF t \in ParallelTasks /\ ~extrasStarted
       THEN extrasStarted' = TRUE /\ pc' = [h \in DOMAIN q |-> IF h \in Extras THEN "loop" ELSE q[h]]
       ELSE UNCHANGED extrasStarted /\ pc' = q
    /\ UNCHANGED <<finished, retiring, finishedCount, fields, flags, lock, ready,
                   called, freed, asked>>

\* A worker takes a task that another one has in its handler.
MayTake_Busy(w, t) ==
    /\ t \notin MainTasks
    /\ w \in Extras => t \in ParallelTasks

\* A task is taken off the retiring list before its callback.
RetireNext_Prunes ==
    /\ Unlocked
    /\ At("retire")
    /\ retiring # <<>>
    /\ MainGoto(Frame("callback", Head(retiring), stack[1].n))
    /\ retiring' = Tail(retiring)
    /\ UNCHANGED <<running, finished, counts, fields, flags, lock, extrasStarted, pc,
                   task, ready, inGather, inRunMain, history>>

\* What the budget leaves is not marked for the next check.
RetireBudget_NoMark ==
    /\ Budget
    /\ At("retire") /\ stack[1].n > 0
    /\ MainReturn
    /\ inGather' = FALSE
    /\ UNCHANGED <<lists, counts, fields, flags, lock, extrasStarted, pc, task,
                   inRunMain, ready, history>>

\* A wait does not count a parked task.
HasDue_NotParked == \E t \in ToSet(running) : when[t] = "now"

-----------------------------------------------------------------------------
(***************************************************************************)
(* Pushing, from another thread, or on Main between checks or in the       *)
(* callback of a task it retires.                                          *)
(***************************************************************************)
\* task_queue_push_now refuses a blocking task if it sees one running.
BlockingSeen == \E t \in ToSet(running) : t \in BlockingTasks

\* retro_task_threaded_push_running; the first parallel push starts the extra
\* workers, as many as the system has threads for.
PushRunning(t, q) ==
    /\ Unlocked
    /\ running' \in Put(running, t, when)
    /\ runningCount' = runningCount + 1
    /\ pushed' = pushed \cup {t}
    /\ IF t \in ParallelTasks /\ ~extrasStarted
       THEN /\ extrasStarted' = TRUE
            /\ \E S \in SUBSET Extras :
                  pc' = Broadcast([h \in DOMAIN q |-> IF h \in S THEN "loop" ELSE q[h]])
       ELSE UNCHANGED extrasStarted /\ pc' = Broadcast(q)
    /\ UNCHANGED <<finished, retiring, finishedCount, fields, flags, lock, ready,
                   called, freed, asked>>

\* Tasks nobody has pushed or is about to.
Unpushed == Tasks \ (pushed \cup {task[h] : h \in Others} \cup {stack[1].task})

Push(o) ==
    \E t \in Unpushed \ BlockingTasks :
        /\ pc[o] = "idle"
        /\ PushRunning(t, pc)
        /\ UNCHANGED <<task, main>>

\* The scan for a blocking task is made under the lock; the push comes after.
\* One that is refused changes nothing: "user must try again later".
ScanBlocking(o) ==
    \E t \in Unpushed \cap BlockingTasks :
        /\ Unlocked
        /\ ~BlockingSeen
        /\ Goto(o, "idle", "push")
        /\ task' = [task EXCEPT ![o] = t]
        /\ UNCHANGED <<lists, counts, fields, flags, lock, extrasStarted, main,
                       ready, history>>

PushBlocking(o) ==
    /\ pc[o] = "push"
    /\ PushRunning(task[o], [pc EXCEPT ![o] = "idle"])
    /\ task' = [task EXCEPT ![o] = None]
    /\ UNCHANGED main

\* The same on Main.
MayPush == stack[1].at \in {"idle", "callback"}

MainPush ==
    \E t \in Unpushed \ BlockingTasks :
        /\ MayPush
        /\ PushRunning(t, pc)
        /\ UNCHANGED <<task, main>>

MainScanBlocking ==
    \E t \in Unpushed \cap BlockingTasks :
        /\ Unlocked /\ MayPush
        /\ ~BlockingSeen
        /\ stack' = <<Frame("push", t, 0)>> \o stack
        /\ UNCHANGED <<lists, counts, fields, flags, lock, extrasStarted, pc, task,
                       inGather, inRunMain, ready, history>>

MainPushBlocking ==
    /\ At("push")
    /\ PushRunning(stack[1].task, pc)
    /\ MainReturn
    /\ UNCHANGED <<task, inGather, inRunMain>>

(***************************************************************************)
(* Waking and cancelling.                                                  *)
(***************************************************************************)
\* retro_task_threaded_wake_locked
WakeLocked(t, q) ==
    /\ woken' = woken \cup {t}
    /\ IF when[t] # "now" THEN Requeue(t, "now") /\ parked' = parked \ {t}
                          ELSE UNCHANGED <<when, running, parked>>
    /\ pc' = Broadcast(q)
    /\ UNCHANGED <<park, busy>>

\* "A waker publishes whatever the handler checks first and wakes after."
Publish(o) ==
    \E t \in WaitingTasks \cap pushed :
        /\ t \notin ready
        /\ Goto(o, "idle", "wake")
        /\ ready' = ready \cup {t}
        /\ task' = [task EXCEPT ![o] = t]
        /\ UNCHANGED <<lists, counts, fields, flags, lock, extrasStarted, main, history>>

\* task_queue_wake: nothing, for a task that is no longer running.
Wake(o) ==
    LET t == task[o]
        q == [pc EXCEPT ![o] = "idle"]
    IN  /\ Unlocked
        /\ pc[o] = "wake"
        /\ IF t \in ToSet(running) THEN WakeLocked(t, q)
                                   ELSE pc' = q /\ UNCHANGED <<running, fields>>
        /\ task' = [task EXCEPT ![o] = None]
        /\ UNCHANGED <<finished, retiring, counts, flags, lock, extrasStarted, main,
                       ready, history>>

\* task_queue_cancel_task and task_queue_cancel_ident.
Cancel ==
    \E t \in ToSet(running) \ cancelled :
        /\ Unlocked
        /\ cancelled' = cancelled \cup {t}
        /\ WakeLocked(t, pc)
        /\ UNCHANGED <<finished, retiring, counts, done, lock, extrasStarted, task,
                       main, ready, history>>

\* task_queue_reset, on Main: all of them, and all due now, in the order they had.
Reset ==
    /\ Unlocked /\ MayPush
    /\ running # <<>> /\ ~(ToSet(running) \subseteq cancelled)
    /\ cancelled' = cancelled \cup ToSet(running)
    /\ woken' = woken \cup ToSet(running)
    /\ when' = [t \in Tasks |-> IF t \in ToSet(running) THEN "now" ELSE when[t]]
    /\ parked' = parked \ ToSet(running)
    /\ pc' = Broadcast(pc)
    /\ UNCHANGED <<lists, counts, park, busy, done, lock, extrasStarted, task, main,
                   ready, history>>

\* Time passes: the next time in the list comes.
Expire ==
    LET i == SelectInSeq(running, LAMBDA t : when[t] = "later")
    IN  /\ i # 0
        /\ when' = [when EXCEPT ![running[i]] = "past"]
        /\ UNCHANGED <<lists, counts, parked, park, woken, busy, flags, lock,
                       extrasStarted, pc, task, main, ready, history>>

(***************************************************************************)
(* Running a handler, on a worker or on Main.                              *)
(***************************************************************************)
\* retro_task_threaded_unpark_locked
UnparkLocked(t) ==
    /\ IF t \in parked THEN Requeue(t, "now") ELSE UNCHANGED <<when, running>>
    /\ parked' = parked \ {t}
    /\ woken' = woken \ {t}

\* What the client's handler does in one pass: a task that waits parks until
\* what it waits for is there; any other finishes, at once or in a later pass.
\* A cancelled task finishes.
Handler(t) ==
    \/ /\ t \in ready \cup cancelled \cup (Tasks \ WaitingTasks)
       /\ done' = done \cup {t}
       /\ UNCHANGED park
    \/ /\ t \in WaitingTasks \ (ready \cup cancelled)
       /\ park' = park \cup {t}
       /\ UNCHANGED done
    \/ /\ t \notin WaitingTasks \cup cancelled
       /\ UNCHANGED <<park, done>>

\* retro_task_threaded_settle, the pass not having finished the task: it is
\* parked, unless a wake came in meanwhile, or goes behind the others due now.
SettleUnfinished(t, q) ==
    /\ Unlocked
    /\ t \notin done
    /\ busy' = busy \ {t}
    /\ IF t \in park \ woken
       THEN Requeue(t, "later") /\ parked' = parked \cup {t} /\ pc' = q
       ELSE /\ UNCHANGED <<when, parked>>
            /\ IF t = Last(running)
               THEN UNCHANGED running /\ pc' = q
               ELSE running' \in Put(RemoveFirst(running, t), t, when) /\ pc' = Broadcast(q)
    /\ park' = park \ {t}
    /\ woken' = woken \ {t}
    /\ UNCHANGED <<finished, retiring, counts, flags, lock, extrasStarted, ready, history>>

\* A finished task changes lists under both locks; it is counted as finished ...
SettleMove(h, t) ==
    /\ Unlocked
    /\ t \in done
    /\ lock' = h
    /\ busy' = busy \ {t}
    /\ running' = RemoveFirst(running, t)
    /\ finished' \in Put(finished, t, when)
    /\ finishedCount' = finishedCount + 1
    /\ UNCHANGED <<retiring, runningCount, when, parked, park, woken, flags,
                   extrasStarted, pc, task, main, ready, history>>

\* ... before it stops counting as running.
SettleCount(h) ==
    /\ lock = h
    /\ lock' = None
    /\ runningCount' = runningCount - 1
    /\ UNCHANGED <<lists, finishedCount, fields, flags, extrasStarted, ready, history>>

(***************************************************************************)
(* A worker.                                                               *)
(***************************************************************************)
MayTake(w, t) ==
    /\ t \notin MainTasks \cup busy
    /\ w \in Extras => t \in ParallelTasks

\* threaded_worker takes the first task that is for it, sleeps until that one's
\* time, or sleeps until there is one.
Pick(w) ==
    LET i == SelectInSeq(running, LAMBDA t : MayTake(w, t))
        t == running[i]
    IN  /\ Unlocked
        /\ pc[w] = "loop"
        /\ IF i = 0 THEN Goto(w, "loop", "asleep") /\ UNCHANGED <<running, fields, task>>
           ELSE IF when[t] = "later"
           THEN Goto(w, "loop", "timed") /\ UNCHANGED <<running, fields, task>>
           ELSE /\ Goto(w, "loop", "handler")
                /\ task' = [task EXCEPT ![w] = t]
                /\ busy' = busy \cup {t}
                /\ UnparkLocked(t)
                /\ UNCHANGED park
        /\ UNCHANGED <<finished, retiring, counts, flags, lock, extrasStarted, main,
                       ready, history>>

\* A wake-up without a broadcast: the time a worker waits for, or no reason.
WakeUp(w, place) ==
    /\ Goto(w, place, "loop")
    /\ UNCHANGED <<lists, counts, fields, flags, lock, extrasStarted, task, main,
                   ready, history>>

WorkerHandler(w) ==
    /\ Goto(w, "handler", "settle")
    /\ Handler(task[w])
    /\ UNCHANGED <<lists, counts, when, parked, woken, busy, cancelled, lock,
                   extrasStarted, task, main, ready, history>>

WorkerYields(w) ==
    /\ pc[w] = "settle"
    /\ SettleUnfinished(task[w], [pc EXCEPT ![w] = "loop"])
    /\ task' = [task EXCEPT ![w] = None]
    /\ UNCHANGED main

WorkerMoves(w) ==
    /\ pc[w] = "settle"
    /\ SettleMove(w, task[w])

WorkerCounts(w) ==
    /\ SettleCount(w)
    /\ Goto(w, "settle", "loop")
    /\ task' = [task EXCEPT ![w] = None]
    /\ UNCHANGED main

(***************************************************************************)
(* retro_task_threaded_gather, on Main: from task_queue_check, from        *)
(* task_queue_wait, and again from a handler or callback it is running.    *)
(***************************************************************************)
MainOnly == UNCHANGED <<lists, counts, fields, flags, lock, extrasStarted, pc, task,
                        ready>>

Check ==
    /\ stack[1].at \in {"idle", "handler", "callback"}
    /\ Len(stack) <= MaxDepth
    /\ stack' = <<Frame("look", None, 0)>> \o stack
    /\ MainOnly /\ UNCHANGED <<inGather, inRunMain, history>>

\* The early return: two loads, without a lock.
LookRunning ==
    /\ At("look")
    /\ MainGoto(Frame(IF runningCount = 0 THEN "look2" ELSE "pass", None, 0))
    /\ MainOnly /\ UNCHANGED <<inGather, inRunMain, history>>

LookFinished ==
    /\ At("look2")
    /\ IF finishedCount = 0 THEN MainReturn ELSE MainGoto(Frame("pass", None, 0))
    /\ MainOnly /\ UNCHANGED <<inGather, inRunMain, history>>

\* One pass under the lock counts the tasks of Main's that are due; the reports
\* it notes down are made after it.  A run_main further up the stack runs them.
DueMain(t) == t \in MainTasks /\ when[t] # "later"

Pass ==
    LET due == Cardinality({t \in ToSet(running) : DueMain(t)})
    IN  /\ Unlocked
        /\ At("pass")
        /\ IF due > 0 /\ ~inRunMain
           THEN MainGoto(Frame("runmain", None, due)) /\ inRunMain' = TRUE
           ELSE MainGoto(Frame("detach", None, 0)) /\ UNCHANGED inRunMain
        /\ MainOnly /\ UNCHANGED <<inGather, history>>

\* retro_task_threaded_run_main takes the first of them, as often as it counted.
PickMain ==
    LET i == SelectInSeq(running, DueMain)
    IN  /\ Unlocked
        /\ At("runmain")
        /\ i # 0 /\ stack[1].n > 0
        /\ MainGoto(Frame("handler", running[i], stack[1].n - 1))
        /\ UnparkLocked(running[i])
        /\ UNCHANGED <<finished, retiring, counts, park, busy, flags, lock,
                       extrasStarted, pc, task, inGather, inRunMain, ready, history>>

\* It stops when it has run them, finds none, or has spent its budget.
RunMainOver ==
    /\ Unlocked
    /\ At("runmain")
    /\ stack[1].n = 0 \/ (Budget /\ stack[1].task # None) \/ ~\E t \in ToSet(running) : DueMain(t)
    /\ MainGoto(Frame("detach", None, 0))
    /\ inRunMain' = FALSE
    /\ MainOnly /\ UNCHANGED <<inGather, history>>

MainHandler ==
    /\ At("handler")
    /\ Handler(stack[1].task)
    /\ MainGoto([stack[1] EXCEPT !.at = "settle"])
    /\ UNCHANGED <<lists, counts, when, parked, woken, busy, cancelled, lock,
                   extrasStarted, pc, task, inGather, inRunMain, ready, history>>

MainSettled == MainGoto([stack[1] EXCEPT !.at = "runmain"])

MainYields ==
    /\ At("settle")
    /\ SettleUnfinished(stack[1].task, pc)
    /\ MainSettled
    /\ UNCHANGED <<task, inGather, inRunMain>>

MainMoves ==
    /\ At("settle")
    /\ SettleMove(Main, stack[1].task)

MainCounts ==
    /\ At("settle")
    /\ SettleCount(Main)
    /\ MainSettled
    /\ UNCHANGED <<pc, task, inGather, inRunMain>>

\* Every finished task moves to the retiring list; nothing, in a nested call.
Detach ==
    /\ Unlocked
    /\ At("detach")
    /\ IF inGather THEN MainReturn /\ UNCHANGED <<finished, retiring, finishedCount, inGather>>
       ELSE /\ MainGoto(Frame("retire", None, 0))
            /\ inGather' = TRUE
            /\ retiring' \in PutAll(finished, retiring)
            /\ finished' = <<>>
            /\ finishedCount' = 0
    /\ UNCHANGED <<running, runningCount, fields, flags, lock, extrasStarted, pc,
                   task, inRunMain, ready, history>>

\* The callback runs with the task still on the list and no lock held.
RetireNext ==
    /\ Unlocked
    /\ At("retire")
    /\ retiring # <<>>
    /\ MainGoto(Frame("callback", Head(retiring), stack[1].n))
    /\ MainOnly /\ UNCHANGED <<inGather, inRunMain, history>>

\* Then the task is pruned from the list, and only then cleaned up and freed.
Prune ==
    /\ Unlocked
    /\ At("callback")
    /\ called' = called \cup {stack[1].task}
    /\ retiring' = RemoveFirst(retiring, stack[1].task)
    /\ MainGoto([stack[1] EXCEPT !.at = "free"])
    /\ UNCHANGED <<running, finished, counts, fields, flags, lock, extrasStarted, pc,
                   task, inGather, inRunMain, ready, pushed, freed, asked>>

Free ==
    /\ At("free")
    /\ freed' = freed \cup {stack[1].task}
    /\ MainGoto(Frame("retire", None, 1))
    /\ MainOnly /\ UNCHANGED <<inGather, inRunMain, pushed, called, asked>>

RetireOver ==
    /\ Unlocked
    /\ At("retire")
    /\ retiring = <<>>
    /\ MainReturn
    /\ inGather' = FALSE
    /\ MainOnly /\ UNCHANGED <<inRunMain, history>>

\* Past the budget, once one was retired: what is left must not be skipped by
\* the early return of the next check.
RetireBudget ==
    /\ Budget
    /\ At("retire") /\ stack[1].n > 0
    /\ MainReturn
    /\ inGather' = FALSE
    /\ finishedCount' = 1
    /\ UNCHANGED <<lists, runningCount, fields, flags, lock, extrasStarted, pc, task,
                   inRunMain, ready, history>>

(***************************************************************************)
(* retro_task_threaded_wait, without a condition of the caller's: gather,  *)
(* and again while a task is due, parked, or finished and due.             *)
(***************************************************************************)
Wait ==
    /\ At("idle")
    /\ stack' = <<Frame("look", None, 0), Frame("wait", None, 0)>>
    /\ asked' = pushed
    /\ MainOnly /\ UNCHANGED <<inGather, inRunMain, pushed, called, freed>>

HasDue == \E t \in ToSet(running) : when[t] = "now" \/ t \in parked

WaitRunning ==
    /\ Unlocked
    /\ At("wait")
    /\ MainGoto(Frame(IF HasDue THEN "sleep" ELSE "wait2", None, 0))
    /\ MainOnly /\ UNCHANGED <<inGather, inRunMain, history>>

WaitFinished ==
    /\ Unlocked
    /\ At("wait2")
    /\ MainGoto(Frame(IF finished # <<>> /\ when[Head(finished)] = "now"
                      THEN "sleep" ELSE "waited", None, 0))
    /\ MainOnly /\ UNCHANGED <<inGather, inRunMain, history>>

\* Main sleeps a millisecond at most, less if a task finishes; then once more.
WaitAgain ==
    /\ At("sleep")
    /\ stack' = <<Frame("look", None, 0), Frame("wait", None, 0)>>
    /\ MainOnly /\ UNCHANGED <<inGather, inRunMain, history>>

WaitReturns ==
    /\ At("waited")
    /\ MainGoto(Frame("idle", None, 0))
    /\ asked' = {}
    /\ MainOnly /\ UNCHANGED <<inGather, inRunMain, pushed, called, freed>>

WorkerStep(w) ==
    Pick(w) \/ WorkerHandler(w) \/ WorkerYields(w) \/ WorkerMoves(w) \/ WorkerCounts(w)
    \/ WakeUp(w, "timed")

OtherStep(o) == PushBlocking(o) \/ Publish(o) \/ Wake(o)

GatherStep ==
    \/ LookRunning \/ LookFinished \/ Pass
    \/ PickMain \/ RunMainOver \/ MainHandler \/ MainYields \/ MainMoves \/ MainCounts
    \/ Detach \/ RetireNext \/ Prune \/ Free \/ RetireOver \/ RetireBudget

WaitStep == WaitRunning \/ WaitFinished \/ WaitAgain \/ WaitReturns

MainStep == GatherStep \/ WaitStep \/ MainPushBlocking \/ (At("idle") /\ Check)

Step ==
    \/ \E w \in Workers : WorkerStep(w) \/ WakeUp(w, "asleep")
    \/ \E o \in Others : OtherStep(o) \/ Push(o) \/ ScanBlocking(o)
    \/ MainStep \/ Check \/ Wait \/ MainPush \/ MainScanBlocking \/ Reset
    \/ Cancel \/ Expire

Next == Step /\ UNCHANGED setup

\* A pass that finishes a task which could have gone on.
FinishingPass ==
    \/ MainHandler /\ stack[1].task \in done' \ WaitingTasks
    \/ \E w \in Workers : WorkerHandler(w) /\ task[w] \in done' \ WaitingTasks

(***************************************************************************)
(* Every thread keeps going, the checking thread checks again and again, a *)
(* handler or callback that checks the queue returns in the end, one that  *)
(* is called again and again finishes its task, what a task waits for is   *)
(* there in the end, and time passes.  Nobody has to push, wait, cancel or *)
(* reset.                                                                  *)
(***************************************************************************)
Fairness ==
    /\ \A w \in Workers : WF_vars(WorkerStep(w))
    /\ \A o \in Others : WF_vars(OtherStep(o))
    /\ WF_vars(MainStep) /\ SF_vars(MainHandler \/ Prune)
    /\ SF_vars(FinishingPass)
    /\ WF_vars(Expire)

Spec == Init /\ [][Next]_<<setup, vars>> /\ Fairness

-----------------------------------------------------------------------------

Places == {"idle", "look", "look2", "pass", "runmain", "handler", "settle", "detach",
           "retire", "callback", "free", "push", "wait", "wait2", "sleep", "waited"}

TypeOK ==
    /\ setup \in Setups
    /\ \A s \in {running, finished, retiring} : s \in Seq(Tasks)
    /\ runningCount \in Nat /\ finishedCount \in Nat
    /\ when \in [Tasks -> {"now", "past", "later"}]
    /\ parked \cup busy \subseteq ToSet(running)
    /\ lock \in Threads \cup {None}
    /\ \A i \in 1..Len(stack) : stack[i].at \in Places

Listed(t) == t \in ToSet(running) \cup ToSet(finished) \cup ToSet(retiring)

\* "A task is findable until it has been fully retired", its callback included,
\* and never after its state is freed: what task_queue_find sees under the two
\* locks is in exactly one list from its push to the end of its callback.
FindTruthful ==
    /\ TypeOK
    /\ Unlocked =>
        /\ \A t \in pushed \ called : Listed(t)
        /\ \A t \in called : ~Listed(t)
        /\ Len(running) + Len(finished) + Len(retiring)
              = Cardinality({t \in Tasks : Listed(t)})

\* "Both are never zero while one is in flight": a gather that returns early,
\* having read the one count and then the other, leaves nothing to retire behind.
NothingMissed ==
    At("look2") /\ finishedCount = 0 =>
        finished = <<>> /\ (retiring = <<>> \/ inGather)

\* No wake is lost to a handler that is about to park: with what it waits for
\* there and its waker done, a task is not left to its horizon.
NoLostWake ==
    \A t \in ready :
        (\A o \in Others : ~(pc[o] = "wake" /\ task[o] = t)) => t \notin parked

\* No handler is run twice at once, on two workers or in a nested check.
OneHandler ==
    /\ \A w, x \in Workers : w # x /\ task[w] # None => task[w] # task[x]
    /\ \A i, j \in 1..Len(stack) :
          i # j /\ stack[i].at \in {"handler", "settle", "callback", "free"}
                /\ stack[j].at \in {"handler", "settle", "callback", "free"}
              => stack[i].task # stack[j].task

\* When task_queue_wait returns, no task pushed before it was called is overlooked,
\* but for those pushed for a later time: each has been retired, or is among those
\* that the budget of a gather left to be retired.
WaitOverlooksNone ==
    At("waited") =>
        asked \ ScheduledTasks \subseteq freed \cup (IF Budget THEN ToSet(retiring) ELSE {})

\* Every task pushed is run and retired.  (No task leaves either set.)
EveryTaskRetires == <>[](pushed \subseteq freed)

(***************************************************************************)
(* What the invariants rest on, in TaskQueue_proof.                        *)
(***************************************************************************)
WorkerPlaces == {"off", "loop", "asleep", "timed", "handler", "settle"}
OtherPlaces  == {"idle", "push", "wake"}
Holding      == {"handler", "settle"}

Types ==
    /\ setup \in Setups
    /\ running \in Seq(Tasks) /\ finished \in Seq(Tasks) /\ retiring \in Seq(Tasks)
    /\ when \in [Tasks -> {"now", "past", "later"}]
    /\ extrasStarted \in BOOLEAN /\ inGather \in BOOLEAN /\ inRunMain \in BOOLEAN
    /\ pc \in [Workers \cup Others -> WorkerPlaces \cup OtherPlaces]
    /\ task \in [Workers \cup Others -> Tasks \cup {None}]
    /\ pushed \subseteq Tasks
    /\ stack \in Seq([at : Places, task : Tasks \cup {None}, n : Nat])

\* A call of Main's that is not its innermost is one that runs a client's code or
\* waits; the guards say whether one of the stack is running tasks or retiring.
Base     == {"idle", "wait", "wait2", "sleep", "waited"}
RunMain  == {"runmain", "handler", "settle"}
Retiring == {"retire", "callback", "free"}

Calls ==
    /\ stack # <<>>
    /\ \A i \in 1..Len(stack) : stack[i].at \in Base <=> i = Len(stack)
    /\ \A i \in 2..Len(stack) : stack[i].at \in {"idle", "wait", "handler", "callback"}
    /\ \A i, j \in 1..Len(stack) :
          \/ stack[i].at \in RunMain /\ stack[j].at \in RunMain
          \/ stack[i].at \in Retiring /\ stack[j].at \in Retiring
          => i = j
    /\ inRunMain <=> \E i \in 1..Len(stack) : stack[i].at \in RunMain
    /\ inGather  <=> \E i \in 1..Len(stack) : stack[i].at \in Retiring

\* From its push to the end of its callback a task is in one list, and once.
Lists ==
    /\ IsInjective(running) /\ IsInjective(finished) /\ IsInjective(retiring)
    /\ ToSet(running) \cap ToSet(finished) = {}
    /\ ToSet(running) \cap ToSet(retiring) = {}
    /\ ToSet(finished) \cap ToSet(retiring) = {}
    /\ ToSet(running) \cup ToSet(finished) \cup ToSet(retiring) = pushed \ called
    /\ called \subseteq pushed /\ freed \subseteq called

\* Thread h has t, which it took from the running list: t is there still, or h
\* has just moved it and holds the locks.
Has(h, t) ==
    \/ t \in ToSet(running) /\ lock # h
    \/ t \in ToSet(finished) /\ lock = h

WorkersHold ==
    /\ \A w \in Workers :
          /\ pc[w] \in WorkerPlaces
          /\ task[w] # None <=> pc[w] \in Holding
          /\ task[w] # None => /\ task[w] \notin MainTasks
                               /\ Has(w, task[w])
                               /\ lock # w => task[w] \in busy
          /\ lock = w => pc[w] = "settle"
    /\ \A w, x \in Workers : w # x /\ task[w] # None => task[w] # task[x]
    /\ busy \subseteq ToSet(running)
    /\ ~extrasStarted => \A x \in Extras : pc[x] = "off"

MainHolds ==
    /\ \A i \in 1..Len(stack) :
          /\ stack[i].at \in Holding =>
                stack[i].task \in MainTasks /\ Has(Main, stack[i].task)
          /\ stack[i].at = "callback" => stack[i].task \in ToSet(retiring)
    /\ At("free") => stack[1].task \in called
    /\ called \ freed \subseteq IF At("free") THEN {stack[1].task} ELSE {}
    /\ lock = Main => At("settle")
    /\ lock \in Workers \cup {Main, None}

\* A task about to be pushed is about to be pushed by one thread.
Pushers ==
    /\ \A o \in Others :
          /\ pc[o] \in OtherPlaces
          /\ pc[o] # "idle" => task[o] \in Tasks
          /\ pc[o] = "push" => task[o] \notin pushed
          /\ pc[o] = "wake" => task[o] \in pushed
          /\ At("push") /\ pc[o] = "push" => task[o] # stack[1].task
    /\ \A o, p \in Others :
          o # p /\ pc[o] = "push" /\ pc[p] = "push" => task[o] # task[p]
    /\ At("push") => stack[1].task \in Tasks \ pushed

\* A thread is at the end of a handler of t's.
Settling(t) ==
    \/ \E w \in Workers : pc[w] = "settle" /\ task[w] = t
    \/ At("settle") /\ stack[1].task = t

\* A parked task waits for its time and is in no handler; a task with no time to
\* start at is due unless it is parked.
Parking ==
    /\ parked \subseteq ToSet(running)
    /\ \A t \in parked :
          /\ when[t] # "now"
          /\ \A w \in Workers : task[w] # t
          /\ \A i \in 1..Len(stack) : stack[i].at \in Holding => stack[i].task # t
    /\ \A t \in Tasks \ ScheduledTasks : t \in parked \/ when[t] = "now"

\* What a pass of a handler leaves is read when that pass is settled.
Passes ==
    /\ park \subseteq Tasks \ done /\ done \subseteq pushed
    /\ \A t \in park : Settling(t)
    /\ \A t \in ToSet(running) \cap done : Settling(t)
    /\ ToSet(finished) \cup ToSet(retiring) \cup called \subseteq done

\* A wake that is over found the task parked, or is there for the park to see.
Wakes ==
    \A t \in ready :
        \/ \E o \in Others : pc[o] = "wake" /\ task[o] = t
        \/ t \notin parked /\ (t \in park => t \in woken)

Counts ==
    /\ runningCount = Len(running) + (IF lock = None THEN 0 ELSE 1)
    /\ finishedCount \in Nat
    /\ finished # <<>> => finishedCount # 0
    /\ retiring # <<>> /\ ~inGather => Budget /\ finishedCount # 0

\* The finished list is in the order of its times: if its first is not due, none is.
InOrder ==
    \A i, j \in 1..Len(finished) :
        i < j => Rank(when[finished[i]]) <= Rank(when[finished[j]])

Waits ==
    /\ InOrder
    /\ asked \subseteq pushed
    /\ At("wait2") \/ At("waited") => (asked \ ScheduledTasks) \cap ToSet(running) = {}
    /\ At("waited") => (asked \ ScheduledTasks) \cap ToSet(finished) = {}

IInv ==
    /\ Types /\ Calls /\ Lists /\ WorkersHold /\ MainHolds
    /\ Pushers /\ Parking /\ Passes /\ Wakes /\ Counts /\ Waits

\* "Only one blocking task can exist in the queue at a time."
OneBlocking == Cardinality(ToSet(running) \cap BlockingTasks) <= 1

\* "A budget slows a blocking wait but never changes what it waits for": when
\* task_queue_wait returns, every task pushed before it was called has been retired,
\* but for those pushed for a later time.
WaitMeansRetired == At("waited") => asked \ ScheduledTasks \subseteq freed
=============================================================================
