------------------------------- MODULE TPool --------------------------------
(***************************************************************************)
(* rthreads/tpool.c, the build with lock-free atomics: a pool of threads   *)
(* fed through a ring of slots that posters and takers claim with a        *)
(* compare-and-swap, with a list under a mutex behind it for the jobs that *)
(* do not fit.  A worker with nothing to do says so (parked), looks once   *)
(* more, and sleeps on an eventcount of its own; a poster wakes one.       *)
(*                                                                         *)
(* A step is one access to shared memory that another thread can tell      *)
(* apart.  The load of a position, the load of its slot's seq and the      *)
(* compare-and-swap are one step: the seq of a position nobody claimed     *)
(* only changes by somebody claiming it.  A critical section of the mutex  *)
(* is one step.  An eventcount with one waiter is what EventCountSpec      *)
(* leaves of it: whether a notify came since its prepare_wait.             *)
(***************************************************************************)
EXTENDS Integers, Sequences, FiniteSets

CONSTANTS
    NumThreads,    \* thread_num
    QueueSize,     \* TPOOL_QUEUE_SIZE
    Wrap,          \* 2^w, the range of the positions
    Posters,       \* threads that post
    Clients,       \* threads that call tpool_help and tpool_wait
    JobsEach,      \* bound: how many jobs each poster posts
    OverSpare,     \* TPOOL_OVER_SPARE
    MayFail,       \* whether malloc or the creation of a thread may fail
    MayDestroy,    \* whether tpool_destroy is called
    Destroyer,     \* the thread that calls it
    None           \* no job

Workers == 1..NumThreads
Takers  == Workers \cup Clients \cup {Destroyer}
Threads == Takers \cup Posters
Slots   == 0..(QueueSize - 1)
Jobs    == UNION {{p} \X (1..JobsEach[p]) : p \in Posters}

ASSUME TPoolAssumption ==
    /\ NumThreads \in Nat \ {0}
    /\ QueueSize \in Nat \ {0, 1} /\ JobsEach \in [Posters -> Nat] /\ OverSpare \in Nat
    /\ Wrap \in Nat /\ Wrap % QueueSize = 0 /\ Wrap >= 2 * QueueSize
    /\ MayFail \in BOOLEAN /\ MayDestroy \in BOOLEAN
    /\ IsFiniteSet(Posters) /\ IsFiniteSet(Clients)
    \* a thread that plays two parts is two threads here
    /\ Posters \cap Takers = {} /\ Workers \cap Clients = {}
    /\ Destroyer \notin Workers \cup Clients
    /\ None \notin Jobs

VARIABLES
    enq, deq,         \* the next position to fill and to empty
    seq, slot,        \* each slot's turn and its job
    over,             \* the overflow list; its length is the count `over'
    spare,            \* over_spare: taken nodes kept for reuse
    queued,           \* count.n.queued
    outstanding,      \* count.n.outstanding
    stop,             \* tells the threads to exit
    parked,           \* each worker's mark
    wake,             \* a notify came since the worker's prepare_wait
    idle,             \* the same for each client in tpool_wait
    pc,               \* where each thread is
    job,              \* the job in each thread's hands
    pos,              \* the position it claimed, or the thread it looks at
    next,             \* the number of each poster's next job
    started, done,    \* history: jobs a thread began, and finished
    dropped,          \* history: jobs refused, or discarded by tpool_destroy
    asked             \* history: jobs posted when each client called tpool_wait

ring    == <<enq, deq, seq, slot>>
counts  == <<queued, outstanding>>
signals == <<parked, wake, idle>>
history == <<started, done, dropped, asked>>
list    == <<over, spare>>
vars == <<ring, list, counts, stop, signals, pc, job, pos, next, history>>

\* (int)((unsigned)a - b)
Dif(a, b) == LET d == (a - b + Wrap) % Wrap IN IF d < Wrap \div 2 THEN d ELSE d - Wrap
Plus(a, n) == (a + n) % Wrap

\* What is where a position points.
SeqAt(p) == seq[p % QueueSize]

Goto(t, from, to) ==
    /\ pc[t] = from
    /\ pc' = [pc EXCEPT ![t] = to]

\* A step that only changes where the thread is.
Move(t, from, to) ==
    /\ Goto(t, from, to)
    /\ UNCHANGED <<ring, list, counts, stop, signals, job, pos, next, history>>

\* Where a thread goes once it is done with a job, or found none.
Home(t) == IF t \in Workers \cup {Destroyer} THEN "take" ELSE "idle"

Init ==
    /\ enq = 0 /\ deq = 0
    /\ seq = [i \in Slots |-> i]
    /\ slot = [i \in Slots |-> None]
    /\ over = <<>> /\ spare = 0
    /\ queued = 0 /\ outstanding = 0
    /\ stop = FALSE
    /\ parked = [w \in Workers |-> 0]
    /\ wake = [w \in Workers |-> FALSE]
    /\ idle = [c \in Clients |-> FALSE]
    /\ \E made \in SUBSET Workers :
          /\ made # {} /\ (MayFail \/ made = Workers)
          /\ pc = [t \in Threads |-> IF t \in made THEN "take"
                                    ELSE IF t \in Workers THEN "exited" ELSE "idle"]
    /\ job = [t \in Threads |-> None]
    /\ pos = [t \in Threads |-> 0]
    /\ next = [p \in Posters |-> 1]
    /\ started = {} /\ done = {} /\ dropped = {}
    /\ asked = [c \in Clients |-> {}]

-----------------------------------------------------------------------------
(***************************************************************************)
(* Mutations: the mistakes the properties below are there to catch.        *)
(***************************************************************************)
\* The worker does not look at its mark again before it sleeps: a wake that came
\* before its wait was open is lost.
LookMark_Skipped(w) == Move(w, "mark?", "stop?")

\* A taker reads the head's position but does not claim it.
TakeRing_NoClaim(t) ==
    /\ \/ Dif(SeqAt(deq), Plus(deq, 1)) < 0 /\ Goto(t, "take", "takeover") /\ UNCHANGED pos
       \/ Dif(SeqAt(deq), Plus(deq, 1)) = 0
          /\ Goto(t, "take", "empty") /\ pos' = [pos EXCEPT ![t] = deq]
    /\ UNCHANGED <<ring, list, counts, stop, signals, job, next, history>>

\* The worker does not look at the count of queued jobs once it is marked.
LookQueued_Skipped(w) == Move(w, "queued?", "mark?")

\* A job refused for want of memory stays counted.
AllocFails_KeepsCount(p) ==
    /\ MayFail
    /\ Goto(p, "alloc", "idle")
    /\ job' = [job EXCEPT ![p] = None]
    /\ next' = [next EXCEPT ![p] = @ + 1]
    /\ dropped' = dropped \cup {job[p]}
    /\ UNCHANGED <<ring, list, counts, stop, signals, pos, started, done, asked>>

\* tpool_wait looks at what is queued and not at what is in progress.
WaitTest_Queued(c) == Move(c, "wait", IF queued <= 0 THEN "waited" ELSE "iprepare")

\* The thread that retires the last job wakes nobody.
Retire_Silent(t) ==
    /\ Goto(t, "retire", Home(t))
    /\ outstanding' = outstanding - 1
    /\ job' = [job EXCEPT ![t] = None]
    /\ pos' = [pos EXCEPT ![t] = 0]
    /\ UNCHANGED <<ring, list, queued, stop, signals, next, history>>

\* tpool_destroy returns without joining the threads.
Join_Skipped == Move(Destroyer, "join", "destroyed")

\* tpool_destroy does not wake the threads it will join.
StopAll_Silent ==
    /\ Goto(Destroyer, "none", "join")
    /\ stop' = TRUE
    /\ UNCHANGED <<ring, list, counts, signals, job, pos, next, history>>

-----------------------------------------------------------------------------
(***************************************************************************)
(* Posting.                                                                *)
(***************************************************************************)
\* tpool_add_work counts the job as outstanding before it can be taken.
AddWork(p) ==
    /\ pc[Destroyer] = "idle" /\ next[p] <= JobsEach[p]
    /\ Goto(p, "idle", "post")
    /\ outstanding' = outstanding + 1
    /\ job' = [job EXCEPT ![p] = <<p, next[p]>>]
    /\ UNCHANGED <<ring, list, queued, stop, signals, pos, next, history>>

\* tpool_post: the ring, unless jobs wait behind it.
Post(p) == Move(p, "post", IF over = <<>> THEN "put" ELSE "over")

\* tpool_queue_put claims a position, or finds the ring full.
Put(p) ==
    /\ \/ /\ Dif(SeqAt(enq), enq) < 0
          /\ Goto(p, "put", "over")
          /\ UNCHANGED <<enq, pos>>
       \/ /\ Dif(SeqAt(enq), enq) = 0
          /\ Goto(p, "put", "fill")
          /\ pos' = [pos EXCEPT ![p] = enq]
          /\ enq' = Plus(enq, 1)
    /\ UNCHANGED <<deq, seq, slot, list, counts, stop, signals, job, next, history>>

\* The job goes into the claimed slot, then the slot's turn passes on.
Fill(p) ==
    /\ Goto(p, "fill", "count")
    /\ slot' = [slot EXCEPT ![pos[p] % QueueSize] = job[p]]
    /\ seq' = [seq EXCEPT ![pos[p] % QueueSize] = Plus(pos[p], 1)]
    /\ UNCHANGED <<enq, deq, list, counts, stop, signals, job, pos, next, history>>

\* The overflow, under the mutex, with a node kept from an earlier job ...
Overflow(p) ==
    /\ IF spare > 0
       THEN /\ Goto(p, "over", "count")
            /\ over' = Append(over, job[p])
            /\ spare' = spare - 1
       ELSE Goto(p, "over", "alloc") /\ UNCHANGED list
    /\ UNCHANGED <<ring, counts, stop, signals, job, pos, next, history>>

\* ... or one allocated with the mutex let go.
Alloc(p) ==
    /\ Goto(p, "alloc", "count")
    /\ over' = Append(over, job[p])
    /\ UNCHANGED <<ring, spare, counts, stop, signals, job, pos, next, history>>

\* The caller is told false, and gives the job up.
Refused(p) ==
    /\ next' = [next EXCEPT ![p] = @ + 1]
    /\ dropped' = dropped \cup {job[p]}

\* No memory for it: tpool_add_work takes the count back.
AllocFails(p) ==
    /\ MayFail
    /\ Goto(p, "alloc", "retire")
    /\ Refused(p)
    /\ UNCHANGED <<ring, list, counts, stop, signals, job, pos, started, done, asked>>

Count(p) ==
    /\ Goto(p, "count", "wake")
    /\ queued' = queued + 1
    /\ pos' = [pos EXCEPT ![p] = 1]
    /\ UNCHANGED <<ring, list, outstanding, stop, signals, job, next, history>>

\* tpool_wake_one: the first thread that said it was parking.
WakeOne(p) ==
    /\ pc[p] = "wake" /\ pos[p] \in Workers
    /\ IF parked[pos[p]] = 1
       THEN /\ parked' = [parked EXCEPT ![pos[p]] = 0]
            /\ pc' = [pc EXCEPT ![p] = "notify"]
            /\ UNCHANGED pos
       ELSE /\ pos' = [pos EXCEPT ![p] = @ + 1]
            /\ UNCHANGED <<parked, pc>>
    /\ UNCHANGED <<ring, list, counts, stop, wake, idle, job, next, history>>

Posted(p) ==
    /\ next' = [next EXCEPT ![p] = @ + 1]
    /\ job' = [job EXCEPT ![p] = None]
    /\ pos' = [pos EXCEPT ![p] = 0]

NotifyWorker(p) ==
    /\ Goto(p, "notify", "idle")
    /\ wake' = [wake EXCEPT ![pos[p]] = TRUE]
    /\ Posted(p)
    /\ UNCHANGED <<ring, list, counts, stop, parked, idle, history>>

\* Nobody is parked: all are on their way to look.
NobodyParked(p) ==
    /\ pos[p] \notin Workers
    /\ Goto(p, "wake", "idle")
    /\ Posted(p)
    /\ UNCHANGED <<ring, list, counts, stop, signals, history>>

\* tpool_try_add_work: one attempt at the ring ...
TryAddWork(p) ==
    /\ pc[Destroyer] = "idle" /\ next[p] <= JobsEach[p]
    /\ ~stop /\ over = <<>> /\ SeqAt(enq) = enq
    /\ Goto(p, "idle", "try")
    /\ pos' = [pos EXCEPT ![p] = enq]
    /\ job' = [job EXCEPT ![p] = <<p, next[p]>>]
    /\ outstanding' = outstanding + 1
    /\ UNCHANGED <<ring, list, queued, stop, signals, next, history>>

\* ... which another poster may win.
TryClaim(p) ==
    /\ IF enq = pos[p]
       THEN Goto(p, "try", "fill") /\ enq' = Plus(enq, 1) /\ UNCHANGED <<next, dropped>>
       ELSE Goto(p, "try", "retire") /\ Refused(p) /\ UNCHANGED enq
    /\ UNCHANGED <<deq, seq, slot, list, counts, stop, signals, job, pos,
                   started, done, asked>>

(***************************************************************************)
(* Taking and running.                                                     *)
(***************************************************************************)
\* tpool_queue_take: nothing at the head of the ring, or a position claimed.
TakeRing(t) ==
    /\ \/ /\ Dif(SeqAt(deq), Plus(deq, 1)) < 0
          /\ Goto(t, "take", "takeover")
          /\ UNCHANGED <<deq, pos>>
       \/ /\ Dif(SeqAt(deq), Plus(deq, 1)) = 0
          /\ Goto(t, "take", "empty")
          /\ pos' = [pos EXCEPT ![t] = deq]
          /\ deq' = Plus(deq, 1)
    /\ UNCHANGED <<enq, seq, slot, list, counts, stop, signals, job, next, history>>

\* The job is read, then the slot is given back for the next round.
Empty(t) ==
    /\ Goto(t, "empty", "uncount")
    /\ job' = [job EXCEPT ![t] = slot[pos[t] % QueueSize]]
    /\ seq' = [seq EXCEPT ![pos[t] % QueueSize] = Plus(pos[t], QueueSize)]
    /\ pos' = [pos EXCEPT ![t] = 0]
    /\ UNCHANGED <<enq, deq, slot, list, counts, stop, signals, next, history>>

\* tpool_take, when the ring had nothing: the overflow.
TakeOver(t) ==
    /\ IF over = <<>>
       THEN Goto(t, "takeover", "none") /\ UNCHANGED <<list, job>>
       ELSE /\ Goto(t, "takeover", "uncount")
            /\ job' = [job EXCEPT ![t] = Head(over)]
            /\ over' = Tail(over)
            /\ spare' = IF spare < OverSpare THEN spare + 1 ELSE spare
    /\ UNCHANGED <<ring, counts, stop, signals, pos, next, history>>

\* Taken: no longer queued.  The worker and tpool_help call its function.
Uncount(t) ==
    /\ t # Destroyer
    /\ Goto(t, "uncount", "running")
    /\ queued' = queued - 1
    /\ started' = started \cup {job[t]}
    /\ UNCHANGED <<ring, list, outstanding, stop, signals, job, pos, next,
                   done, dropped, asked>>

Finish(t) ==
    /\ Goto(t, "running", "retire")
    /\ done' = done \cup {job[t]}
    /\ UNCHANGED <<ring, list, counts, stop, signals, job, pos, next,
                   started, dropped, asked>>

\* tpool_retire: who lowers the count to zero wakes tpool_wait.
Retire(t) ==
    /\ Goto(t, "retire", IF outstanding = 1 THEN "notifyidle" ELSE Home(t))
    /\ outstanding' = outstanding - 1
    /\ job' = [job EXCEPT ![t] = None]
    /\ pos' = [pos EXCEPT ![t] = 0]
    /\ UNCHANGED <<ring, list, queued, stop, signals, next, history>>

NotifyIdle(t) ==
    /\ Goto(t, "notifyidle", Home(t))
    /\ idle' = [c \in Clients |-> TRUE]
    /\ UNCHANGED <<ring, list, counts, stop, parked, wake, job, pos, next, history>>

(***************************************************************************)
(* A worker with nothing to take.                                          *)
(***************************************************************************)
CheckStop(w) == Move(w, "none", IF stop THEN "exited" ELSE "mark")

\* "Say so, then look once more before sleeping."
Mark(w) ==
    /\ Goto(w, "mark", "prepare")
    /\ parked' = [parked EXCEPT ![w] = @ + 1]
    /\ UNCHANGED <<ring, list, counts, stop, wake, idle, job, pos, next, history>>

Prepare(w) ==
    /\ Goto(w, "prepare", "queued?")
    /\ wake' = [wake EXCEPT ![w] = FALSE]
    /\ UNCHANGED <<ring, list, counts, stop, parked, idle, job, pos, next, history>>

LookQueued(w) == Move(w, "queued?", IF queued > 0 THEN "unmark" ELSE "mark?")

\* The mark cleared is all that may be left of a wake-up.
LookMark(w) == Move(w, "mark?", IF parked[w] = 0 THEN "unmark" ELSE "stop?")

LookStop(w) == Move(w, "stop?", IF stop THEN "unmark" ELSE "commit")

\* commit_wait: it sleeps unless a notify came since prepare_wait.
Commit(w) == Move(w, "commit", IF wake[w] THEN "unmark" ELSE "asleep")

WakeUp(w) ==
    /\ wake[w]
    /\ Move(w, "asleep", "unmark")

\* The wait is over, or was cancelled: the mark goes if nobody took it.
Unmark(w) ==
    /\ Goto(w, "unmark", "take")
    /\ parked' = [parked EXCEPT ![w] = IF @ = 1 THEN 0 ELSE @]
    /\ UNCHANGED <<ring, list, counts, stop, wake, idle, job, pos, next, history>>

(***************************************************************************)
(* tpool_help and tpool_wait.                                              *)
(***************************************************************************)
Help(c) ==
    /\ pc[Destroyer] = "idle"
    /\ queued # 0 /\ ~stop
    /\ Move(c, "idle", "take")

HelpFindsNone(c) == Move(c, "none", "idle")

\* Jobs whose tpool_add_work has returned, or is about to with false.
PostedJobs == {j \in Jobs : j[2] < next[j[1]]}

Wait(c) ==
    /\ pc[Destroyer] = "idle" /\ ~stop
    /\ Goto(c, "idle", "wait")
    /\ asked' = [asked EXCEPT ![c] = PostedJobs]
    /\ UNCHANGED <<ring, list, counts, stop, signals, job, pos, next,
                   started, done, dropped>>

WaitTest(c) == Move(c, "wait", IF outstanding = 0 THEN "waited" ELSE "iprepare")

WaitPrepare(c) ==
    /\ Goto(c, "iprepare", "itest")
    /\ idle' = [idle EXCEPT ![c] = FALSE]
    /\ UNCHANGED <<ring, list, counts, stop, parked, wake, job, pos, next, history>>

WaitTestAgain(c) == Move(c, "itest", IF outstanding = 0 THEN "waited" ELSE "icommit")

WaitCommit(c) == Move(c, "icommit", IF idle[c] THEN "wait" ELSE "iasleep")

WaitWakeUp(c) ==
    /\ idle[c]
    /\ Move(c, "iasleep", "wait")

WaitReturn(c) ==
    /\ Goto(c, "waited", "idle")
    /\ asked' = [asked EXCEPT ![c] = {}]
    /\ UNCHANGED <<ring, list, counts, stop, signals, job, pos, next,
                   started, done, dropped>>

\* An eventcount may wake for no reason.
Spurious(t) ==
    /\ \/ t \in Workers /\ Goto(t, "asleep", "unmark")
       \/ t \in Clients /\ Goto(t, "iasleep", "wait")
    /\ UNCHANGED <<ring, list, counts, stop, signals, job, pos, next, history>>

(***************************************************************************)
(* tpool_destroy, with nobody else inside the pool and nobody to come.     *)
(***************************************************************************)
Destroy ==
    /\ MayDestroy
    /\ \A t \in Posters \cup Clients : pc[t] = "idle"
    /\ Move(Destroyer, "idle", "take")

\* Nobody is left to read `outstanding': lowering it is part of the step.
Drop ==
    /\ Goto(Destroyer, "uncount", "take")
    /\ queued' = queued - 1
    /\ outstanding' = outstanding - 1
    /\ dropped' = dropped \cup {job[Destroyer]}
    /\ job' = [job EXCEPT ![Destroyer] = None]
    /\ UNCHANGED <<ring, list, stop, signals, pos, next, started, done, asked>>

StopAll ==
    /\ Goto(Destroyer, "none", "notifyall")
    /\ stop' = TRUE
    /\ pos' = [pos EXCEPT ![Destroyer] = 1]
    /\ UNCHANGED <<ring, list, counts, signals, job, next, history>>

NotifyNext ==
    /\ pc[Destroyer] = "notifyall" /\ pos[Destroyer] \in Workers
    /\ wake' = [wake EXCEPT ![pos[Destroyer]] = TRUE]
    /\ pos' = [pos EXCEPT ![Destroyer] = @ + 1]
    /\ UNCHANGED <<ring, list, counts, stop, parked, idle, pc, job, next, history>>

NotifiedAll ==
    /\ pos[Destroyer] \notin Workers
    /\ Goto(Destroyer, "notifyall", "join")
    /\ idle' = [c \in Clients |-> TRUE]
    /\ UNCHANGED <<ring, list, counts, stop, parked, wake, job, pos, next, history>>

Join ==
    /\ \A w \in Workers : pc[w] = "exited"
    /\ Move(Destroyer, "join", "destroyed")

PosterStep(p) ==
    \/ Post(p) \/ Put(p) \/ Fill(p) \/ Overflow(p) \/ Alloc(p) \/ Count(p)
    \/ WakeOne(p) \/ NotifyWorker(p) \/ NobodyParked(p) \/ TryClaim(p)
    \/ Retire(p) \/ NotifyIdle(p)

TakerStep(t) ==
    TakeRing(t) \/ Empty(t) \/ TakeOver(t) \/ Uncount(t) \/ Finish(t)
    \/ Retire(t) \/ NotifyIdle(t)

WorkerStep(w) ==
    \/ TakerStep(w)
    \/ CheckStop(w) \/ Mark(w) \/ Prepare(w) \/ LookQueued(w) \/ LookMark(w)
    \/ LookStop(w) \/ Commit(w) \/ WakeUp(w) \/ Unmark(w)

ClientStep(c) ==
    \/ TakerStep(c) \/ HelpFindsNone(c)
    \/ WaitTest(c) \/ WaitPrepare(c) \/ WaitTestAgain(c) \/ WaitCommit(c)
    \/ WaitWakeUp(c) \/ WaitReturn(c)

DestroyerStep ==
    \/ TakeRing(Destroyer) \/ Empty(Destroyer) \/ TakeOver(Destroyer)
    \/ Drop \/ StopAll \/ NotifyNext \/ NotifiedAll \/ Join

Next ==
    \/ \E p \in Posters : AddWork(p) \/ TryAddWork(p) \/ AllocFails(p) \/ PosterStep(p)
    \/ \E w \in Workers : WorkerStep(w) \/ Spurious(w)
    \/ \E c \in Clients : Help(c) \/ Wait(c) \/ ClientStep(c) \/ Spurious(c)
    \/ Destroy \/ DestroyerStep

\* Every thread that is inside a call or is a worker gets to run; a job that was
\* begun ends.  Nobody has to post, help, wait or destroy.
Fairness ==
    /\ \A p \in Posters : WF_vars(PosterStep(p))
    /\ \A w \in Workers : WF_vars(WorkerStep(w))
    /\ \A c \in Clients : WF_vars(ClientStep(c))
    /\ WF_vars(DestroyerStep)

Spec == Init /\ [][Next]_vars /\ Fairness

-----------------------------------------------------------------------------

TypeOK ==
    /\ enq \in 0..(Wrap - 1) /\ deq \in 0..(Wrap - 1)
    /\ seq \in [Slots -> 0..(Wrap - 1)]
    /\ slot \in [Slots -> Jobs \cup {None}]
    /\ over \in Seq(Jobs)
    /\ queued \in Int /\ outstanding \in Nat
    /\ stop \in BOOLEAN
    /\ parked \in [Workers -> {0, 1}]
    /\ wake \in [Workers -> BOOLEAN]
    /\ job \in [Threads -> Jobs \cup {None}]

\* A job in the ring: filled, and not yet claimed by a taker.
InRing == {slot[i] : i \in {i \in Slots :
              \E p \in 0..(Wrap - 1) :
                 p % QueueSize = i /\ seq[i] = Plus(p, 1) /\ Dif(p, deq) >= 0}}

InOverflow == {over[i] : i \in DOMAIN over}

\* Jobs waiting for a taker.
Waiting == InRing \cup InOverflow

\* Both counts are exact once the steps under way are allowed for: a poster has
\* counted its job outstanding before anyone can take it, a taker takes it off
\* `queued' after.  `queued' alone may go below zero for a moment.
InHand(S) == {t \in Threads : pc[t] \in S /\ job[t] # None}

CountsExact ==
    /\ TypeOK
    /\ outstanding =
          Cardinality(Waiting)
            + Cardinality({t \in Takers : pc[t] = "empty"})
            + Cardinality(InHand({"uncount", "running", "retire"}) \cap Takers)
            + Cardinality(InHand({"post", "put", "fill", "over", "alloc", "try", "retire"})
                            \cap Posters)
    /\ queued =
          Cardinality(Waiting)
            + Cardinality({t \in Takers : pc[t] \in {"empty", "uncount"}})
            - Cardinality({p \in Posters : pc[p] = "count"})

\* No job is run twice, nor run and dropped: nobody else holds or finds a job
\* that a thread has in hand.
ExactlyOnce ==
    /\ \A t, u \in Takers : t # u /\ job[t] # None => job[t] # job[u]
    /\ \A t \in Takers : pc[t] = "uncount" => job[t] \notin started \cup dropped
    /\ Waiting \cap (started \cup dropped) = {}

\* A worker that will look for a job before it sleeps: it is up, or a wake is
\* on its way to it.
WillLook(w) == pc[w] \notin {"asleep", "exited"} \/ (pc[w] = "asleep" /\ wake[w])

\* tpool_wake_one: the poster "bumps queued and then reads parked", the worker
\* the other way round, "so they cannot both miss the other": with no poster
\* inside the pool, a job that waits has a worker that will look for it.
NoLostWakeup ==
    Waiting # {} /\ (\A p \in Posters : pc[p] = "idle")
        => \E w \in Workers : WillLook(w)

\* "Wait for all work in the pool to be completed": when tpool_wait returns,
\* every job accepted before it was called has run to its end.
WaitMeansDone == \A c \in Clients : pc[c] = "waited" => asked[c] \subseteq done \cup dropped

\* tpool_destroy "will block for work that is processing to complete", and what
\* it returns from has nothing left in it.
DestroyedMeansGone ==
    pc[Destroyer] = "destroyed" =>
        /\ started = done
        /\ Waiting = {} /\ queued = 0 /\ outstanding = 0

\* Every job posted runs, unless it was refused or tpool_destroy drops it.
\* (No job leaves any of the three sets.)
EveryJobRuns == <>[](PostedJobs \subseteq done \cup dropped)

\* tpool_wait returns, unless posters keep the pool busy; they run out here.
WaitReturns == \A c \in Clients : pc[c] = "wait" ~> pc[c] = "waited"

\* tpool_destroy returns.
DestroyReturns == pc[Destroyer] = "take" ~> pc[Destroyer] = "destroyed"

(***************************************************************************)
(* What they rest on, in TPool_proof.                                      *)
(***************************************************************************)
\* An assumption of the proofs: no tpool_try_add_work is under way while as many
\* jobs are posted as there are positions (2^32), and so finds its position again.
TryIsBrief ==
    \A p \in Posters :
        pc[p] = "try" /\ pc'[p] = "try" /\ enq' # enq => enq' # pos[p]

\* A poster has its job in hand; has handed it over; has it counted outstanding.
Posting     == {"post", "put", "fill", "over", "alloc", "try"}
HandedOver  == {"count", "wake", "notify"}
Outstanding == Posting \cup {"retire"}

\* A taker has a job in hand; has one, in hand or in a slot.
Taken  == {"uncount", "running", "retire"}
Taking == Taken \cup {"empty"}

PosterPlaces    == Posting \cup HandedOver \cup {"idle", "retire", "notifyidle"}
TakerPlaces     == Taking \cup {"take", "takeover", "none", "notifyidle"}
WorkerPlaces    == TakerPlaces \cup {"mark", "prepare", "queued?", "mark?", "stop?", "commit",
                                     "asleep", "unmark", "exited"}
ClientPlaces    == TakerPlaces \cup {"idle", "wait", "iprepare", "itest", "icommit", "iasleep",
                                     "waited"}
DestroyerPlaces == {"idle", "take", "empty", "takeover", "uncount", "none", "notifyall",
                    "join", "destroyed"}

Shape ==
    /\ seq \in [Slots -> 0..(Wrap - 1)] /\ slot \in [Slots -> Jobs \cup {None}]
    /\ over \in Seq(Jobs) /\ stop \in BOOLEAN
    /\ parked \in [Workers -> {0, 1}] /\ wake \in [Workers -> BOOLEAN]
    /\ pc \in [Threads -> PosterPlaces \cup WorkerPlaces \cup ClientPlaces \cup DestroyerPlaces]
    /\ \A p \in Posters : pc[p] \in PosterPlaces
    /\ \A w \in Workers : pc[w] \in WorkerPlaces
    /\ \A c \in Clients : pc[c] \in ClientPlaces
    /\ pc[Destroyer] \in DestroyerPlaces
    /\ job \in [Threads -> Jobs \cup {None}] /\ pos \in [Threads -> Nat]
    /\ next \in [Posters -> Nat \ {0}]

\* The job of each thread.
Own ==
    /\ \A p \in Posters :
          /\ pc[p] \in Posting \cup HandedOver => job[p] = <<p, next[p]>> /\ next[p] <= JobsEach[p]
          /\ pc[p] = "retire" => job[p] # None
    /\ \A t \in Takers : job[t] # None <=> pc[t] \in Taken

\* The slot and the turn of a position that does not wrap.
SlotOf(x) == x % QueueSize
Turn(x)   == x % Wrap

\* The last QueueSize positions before E are those of the slots.  From D on they
\* are claimed by a poster, or filled; before D claimed by a taker, or given back.
RingAt(E, D) ==
    /\ QueueSize <= D /\ D <= E /\ E <= D + QueueSize
    /\ enq = Turn(E) /\ deq = Turn(D)
    /\ \A x \in (E - QueueSize)..(E - 1) :
          \/ /\ x >= D /\ seq[SlotOf(x)] = Turn(x)
             /\ \E p \in Posters : pc[p] = "fill" /\ pos[p] = Turn(x)
          \/ x >= D /\ seq[SlotOf(x)] = Turn(x + 1)
          \/ /\ x < D /\ seq[SlotOf(x)] = Turn(x + 1)
             /\ \E t \in Takers : pc[t] = "empty" /\ pos[t] = Turn(x)
          \/ x < D /\ seq[SlotOf(x)] = Turn(x + QueueSize)
    /\ \A p \in Posters : pc[p] = "fill" =>
          \E x \in D..(E - 1) : pos[p] = Turn(x) /\ seq[SlotOf(x)] = Turn(x)
    /\ \A t \in Takers : pc[t] = "empty" =>
          \E x \in (E - QueueSize)..(D - 1) : pos[t] = Turn(x) /\ seq[SlotOf(x)] = Turn(x + 1)
    /\ \A t, u \in Threads :
          t # u /\ pc[t] = pc[u] /\ pc[t] \in {"fill", "empty"} => pos[t] # pos[u]

Ring == \E E \in Nat : \E D \in Nat : RingAt(E, D)

\* A try that would win found its slot given back, and it still is.
Tries == \A p \in Posters : pc[p] = "try" /\ pos[p] = enq => SeqAt(enq) = enq

\* Slots with a job, and those of them a taker is emptying.
Full     == {i \in Slots : seq[i] % QueueSize # i}
Emptying == {pos[t] % QueueSize : t \in {t \in Takers : pc[t] = "empty"}}

\* Jobs that have left their poster.
Out == {j \in Jobs : \/ j[2] < next[j[1]]
                     \/ j[2] = next[j[1]] /\ pc[j[1]] \in HandedOver}

\* A job is in one place.
Apart ==
    /\ \A i \in Full :
          /\ slot[i] \in Out \ InOverflow
          /\ \A k \in Full : k # i => slot[k] # slot[i]
          /\ \A t \in Takers : job[t] # slot[i]
    /\ InOverflow \subseteq Out
    /\ \A i, k \in 1..Len(over) : over[i] = over[k] => i = k
    /\ \A t \in Takers : job[t] # None =>
          /\ job[t] \in Out \ InOverflow
          /\ \A u \in Takers : u # t => job[u] # job[t]

\* What became of each job that left its poster: none is lost.
Fates ==
    /\ done \subseteq started /\ started \cup dropped \subseteq Out
    /\ \A i \in Full : slot[i] \notin started \cup dropped
    /\ InOverflow \cap (started \cup dropped) = {}
    /\ \A t \in Takers :
          /\ pc[t] = "uncount" => job[t] \notin started \cup dropped
          /\ pc[t] = "running" => job[t] \in started \ done
    /\ \A j \in started \ done : \E t \in Takers : pc[t] = "running" /\ job[t] = j
    /\ \A j \in Out :
          \/ j \in started \cup dropped \cup InOverflow
          \/ \E i \in Full : slot[i] = j
          \/ \E t \in Takers : pc[t] = "uncount" /\ job[t] = j

\* Threads of S that are at one of places.
Those(S, places) == {t \in S : pc[t] \in places}

Counts ==
    /\ IsFiniteSet(Waiting)
    /\ outstanding = Cardinality(Waiting) + Cardinality(Those(Takers, Taking))
                       + Cardinality(Those(Posters, Outstanding))
    /\ queued = Cardinality(Waiting) + Cardinality(Those(Takers, {"empty", "uncount"}))
                  - Cardinality(Those(Posters, {"count"}))

\* A worker that has passed its look at the mark has it, or will be woken.
Marks ==
    /\ \A w \in Workers :
          /\ pc[w] \in TakerPlaces \cup {"mark", "exited"} => parked[w] = 0
          /\ pc[w] \in {"stop?", "commit", "asleep"} /\ parked[w] = 0 =>
                wake[w] \/ \E p \in Posters : pc[p] = "notify" /\ pos[p] = w
    /\ \A p \in Posters : /\ pc[p] = "wake" => pos[p] >= 1
                          /\ pc[p] = "notify" => pos[p] \in Workers

\* A worker that will look into the pool before it sleeps, whatever comes.
Going(w) ==
    /\ pc[w] # "exited"
    /\ pc[w] \in {"mark?", "stop?", "commit", "asleep"} => parked[w] = 0 \/ wake[w]

\* With something queued somebody looks, or a poster is on its way to a mark.
Awake ==
    ~stop =>
        /\ \E w \in Workers : pc[w] # "exited"
        /\ queued > 0 =>
              \/ \E w \in Workers : Going(w)
              \/ \E p \in Posters : pc[p] = "wake" /\ \E w \in Workers : w >= pos[p] /\ parked[w] = 1

\* tpool_destroy is alone with the workers, and empties the pool before it stops them.
Shut ==
    /\ pc[Destroyer] # "idle" => \A t \in Posters \cup Clients : pc[t] = "idle"
    /\ stop <=> pc[Destroyer] \in {"notifyall", "join", "destroyed"}
    /\ pc[Destroyer] \in {"takeover", "none", "notifyall", "join", "destroyed"} => Full \ Emptying = {}
    /\ pc[Destroyer] \in {"none", "notifyall", "join", "destroyed"} => over = <<>>
    /\ pc[Destroyer] = "destroyed" => \A w \in Workers : pc[w] = "exited"

\* What a client waits for was posted, and is over when tpool_wait says so.
Waits ==
    /\ asked \in [Clients -> SUBSET Jobs]
    /\ \A c \in Clients :
          /\ asked[c] \subseteq PostedJobs
          /\ pc[c] = "waited" => asked[c] \subseteq done \cup dropped

IInv == Shape /\ Own /\ Ring /\ Tries /\ Apart /\ Fates /\ Counts /\ Marks /\ Awake /\ Shut /\ Waits
=============================================================================
