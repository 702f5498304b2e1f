--------------------------- MODULE AsymEventCount ---------------------------
(***************************************************************************)
(* rthreads/retro_asym_eventcount.c: an eventcount whose single notifier   *)
(* pays no fence.  Its stores sit in a store buffer and reach memory in    *)
(* order and at leisure, after loads that follow them in the program; a    *)
(* waiter that has registered calls retro_procbarrier, which returns once  *)
(* every other running thread has been through a full fence.  Where the    *)
(* platform has no such barrier the object runs the symmetric pair of      *)
(* retro_eventcount, for its whole life.                                   *)
(*                                                                         *)
(* With it the client of the header: the notifier publishes an item, with  *)
(* a plain store, and notifies; the waiters take items, and when there are *)
(* none open a window, look again, and cancel or commit.                   *)
(***************************************************************************)
EXTENDS Integers, Sequences, FiniteSets

CONSTANTS
    Waiters,      \* threads that consume and wait
    MaxItems      \* bound: items published over the run

ASSUME AsymEventCountAssumption ==
    /\ MaxItems \in Nat
    /\ IsFiniteSet(Waiters)

VARIABLES
    asymmetric,   \* ec->asymmetric, decided at init
    epoch,        \* ec->epoch, in memory
    waiters,      \* ec->waiters, in memory
    items,        \* the client's condition, in memory: items not yet taken
    buffer,       \* the notifier's store buffer, oldest store first
    published,    \* items the notifier has published so far
    npc,          \* where the notifier is
    wpc,          \* where each waiter is
    key           \* what each waiter's prepare_wait returned

vars == <<asymmetric, epoch, waiters, items, buffer, published, npc, wpc, key>>

Init ==
    /\ asymmetric \in BOOLEAN
    /\ epoch = 0 /\ waiters = 0 /\ items = 0
    /\ buffer = <<>>
    /\ published = 0
    /\ npc = "idle"
    /\ wpc = [w \in Waiters |-> "out"]
    /\ key = [w \in Waiters |-> 0]

NGoto(from, to) == npc = from /\ npc' = to

WGoto(w, from, to) ==
    /\ wpc[w] = from
    /\ wpc' = [wpc EXCEPT ![w] = to]

\* Waiters inside a prepare/commit window, as the counter has them.
Registered == {w \in Waiters : wpc[w] # "out"}

-----------------------------------------------------------------------------
(***************************************************************************)
(* Mutations: the mistakes the properties below are there to catch.        *)
(***************************************************************************)
\* prepare_wait does without the process-wide barrier: a fence of its own does
\* not reach the notifier's store buffer.
Barrier_OwnFence(w) ==
    /\ WGoto(w, "barrier", "read")
    /\ UNCHANGED <<asymmetric, epoch, waiters, items, buffer, published, npc, key>>

\* commit_wait sleeps on the condition variable without a second look at the
\* epoch under the lock.
Commit_NoRecheck(w) ==
    /\ WGoto(w, "commit", "asleep")
    /\ UNCHANGED <<asymmetric, epoch, waiters, items, buffer, published, npc, key>>

-----------------------------------------------------------------------------
(***************************************************************************)
(* The notifier.                                                           *)
(***************************************************************************)
\* The client's plain store, then the call.
Publish ==
    /\ published < MaxItems
    /\ NGoto("idle", "bump")
    /\ published' = published + 1
    /\ buffer' = Append(buffer, "item")
    /\ UNCHANGED <<asymmetric, epoch, waiters, items, wpc, key>>

\* The release store of the epoch is one more store in the buffer ...
Bump ==
    /\ asymmetric
    /\ NGoto("bump", "look")
    /\ buffer' = Append(buffer, "epoch")
    /\ UNCHANGED <<asymmetric, epoch, waiters, items, published, wpc, key>>

\* ... and the symmetric pair's read-modify-write empties it first.
BumpSeqCst ==
    /\ ~asymmetric /\ buffer = <<>>
    /\ NGoto("bump", "look")
    /\ epoch' = epoch + 1
    /\ UNCHANGED <<asymmetric, waiters, items, buffer, published, wpc, key>>

\* The load of the waiter count may come before the stores ahead of it.
Look ==
    /\ NGoto("look", IF waiters = 0 THEN "idle" ELSE "wake")
    /\ UNCHANGED <<asymmetric, epoch, waiters, items, buffer, published, wpc, key>>

\* The broadcast; whoever has the lock next sees what was stored before it.
Broadcast ==
    /\ buffer = <<>>
    /\ NGoto("wake", "idle")
    /\ wpc' = [w \in Waiters |-> IF wpc[w] = "asleep" THEN "woken" ELSE wpc[w]]
    /\ UNCHANGED <<asymmetric, epoch, waiters, items, buffer, published, key>>

\* The processor writes its oldest store to memory.
Drain ==
    /\ buffer # <<>>
    /\ buffer' = Tail(buffer)
    /\ IF Head(buffer) = "item" THEN items' = items + 1 /\ UNCHANGED epoch
                                ELSE epoch' = epoch + 1 /\ UNCHANGED items
    /\ UNCHANGED <<asymmetric, waiters, published, npc, wpc, key>>

(***************************************************************************)
(* The waiters.                                                            *)
(***************************************************************************)
\* The client has work: it takes it and does not wait.
Take(w) ==
    /\ wpc[w] = "out"
    /\ items > 0
    /\ items' = items - 1
    /\ UNCHANGED <<asymmetric, epoch, waiters, buffer, published, npc, wpc, key>>

\* prepare_wait registers ...
Register(w) ==
    /\ items = 0
    /\ WGoto(w, "out", IF asymmetric THEN "barrier" ELSE "read")
    /\ waiters' = waiters + 1
    /\ UNCHANGED <<asymmetric, epoch, items, buffer, published, npc, key>>

\* ... waits for the barrier: at some moment before it returns the notifier's
\* buffer is empty ...
Barrier(w) ==
    /\ buffer = <<>>
    /\ WGoto(w, "barrier", "read")
    /\ UNCHANGED <<asymmetric, epoch, waiters, items, buffer, published, npc, key>>

\* ... and reads the epoch.
ReadEpoch(w) ==
    /\ WGoto(w, "read", "test")
    /\ key' = [key EXCEPT ![w] = epoch]
    /\ UNCHANGED <<asymmetric, epoch, waiters, items, buffer, published, npc>>

\* The client looks at its condition again.
Test(w) ==
    /\ WGoto(w, "test", IF items > 0 THEN "cancel" ELSE "commit")
    /\ UNCHANGED <<asymmetric, epoch, waiters, items, buffer, published, npc, key>>

CancelWait(w) ==
    /\ WGoto(w, "cancel", "out")
    /\ waiters' = waiters - 1
    /\ UNCHANGED <<asymmetric, epoch, items, buffer, published, npc, key>>

\* commit_wait and its timed form: under the lock, sleep if the epoch is still
\* the one named.
Commit(w) ==
    /\ WGoto(w, "commit", IF epoch = key[w] THEN "asleep" ELSE "leave")
    /\ UNCHANGED <<asymmetric, epoch, waiters, items, buffer, published, npc, key>>

\* A wake-up nobody sent, or the bound of the timed form.
WakeSpurious(w) ==
    /\ WGoto(w, "asleep", "woken")
    /\ UNCHANGED <<asymmetric, epoch, waiters, items, buffer, published, npc, key>>

\* With the lock back commit_wait looks again, and may sleep again ...
Recheck(w) ==
    /\ WGoto(w, "woken", IF epoch = key[w] THEN "asleep" ELSE "leave")
    /\ UNCHANGED <<asymmetric, epoch, waiters, items, buffer, published, npc, key>>

\* ... while the timed form leaves whatever woke it.
GiveUp(w) ==
    /\ WGoto(w, "woken", "leave")
    /\ UNCHANGED <<asymmetric, epoch, waiters, items, buffer, published, npc, key>>

\* Still under the lock.
Leave(w) ==
    /\ WGoto(w, "leave", "out")
    /\ waiters' = waiters - 1
    /\ UNCHANGED <<asymmetric, epoch, items, buffer, published, npc, key>>

NotifyStep == Bump \/ BumpSeqCst \/ Look \/ Broadcast

WaiterStep(w) ==
    \/ Take(w) \/ Register(w) \/ Barrier(w) \/ ReadEpoch(w) \/ Test(w)
    \/ CancelWait(w) \/ Commit(w) \/ Recheck(w) \/ Leave(w)

Next ==
    \/ Publish \/ NotifyStep \/ Drain
    \/ \E w \in Waiters : WaiterStep(w) \/ WakeSpurious(w) \/ GiveUp(w)

(***************************************************************************)
(* A notify that was begun is finished, a store reaches memory, a barrier  *)
(* finds its moment, and a waiter keeps going unless it sleeps.  Nobody    *)
(* has to publish and nothing has to time out.                             *)
(***************************************************************************)
Fairness ==
    /\ WF_vars(NotifyStep) /\ WF_vars(Drain)
    /\ \A w \in Waiters : SF_vars(WaiterStep(w))

SafetySpec == Init /\ [][Next]_vars

Spec == SafetySpec /\ Fairness

-----------------------------------------------------------------------------

TypeOK ==
    /\ asymmetric \in BOOLEAN
    /\ epoch \in Nat /\ waiters \in Nat /\ items \in Nat
    /\ buffer \in Seq({"item", "epoch"})
    /\ published \in 0..MaxItems
    /\ npc \in {"idle", "bump", "look", "wake"}
    /\ wpc \in [Waiters -> {"out", "barrier", "read", "test", "cancel", "commit",
                            "asleep", "woken", "leave"}]
    /\ key \in [Waiters -> Nat]

\* The waiter count is exact, so a notifier never walks past a registered one.
CountExact == waiters = Cardinality(Registered)

\* "The lost-wakeup window is closed from the cold side": with the notify
\* finished no consumer is left asleep while there is an item to take, nor while
\* one is on its way to memory.
NoSleepOnWork ==
    npc = "idle" /\ (items > 0 \/ buffer # <<>>)
        => \A w \in Waiters : wpc[w] # "asleep"

\* Waiters whose registration the notifier is bound to see: they are past the
\* barrier.
Past == {w \in Waiters : wpc[w] \notin {"out", "barrier"}}

\* What the store buffer may hold beside such a waiter: the stores of the one
\* notify under way.  In the symmetric pair, whoever waits, nothing past the bump.
Shape ==
    Past # {} \/ ~asymmetric =>
        /\ npc = "idle" => buffer = <<>>
        /\ npc = "bump" => buffer \in {<<>>, <<"item">>}
        /\ npc \in {"look", "wake"} =>
              buffer \in IF asymmetric THEN {<<>>, <<"epoch">>, <<"item", "epoch">>} ELSE {<<>>}

KeyInPast == \A w \in Waiters : key[w] <= epoch

\* A waiter that has found nothing and still has the current epoch has missed at
\* most an item whose epoch is still to come.
SawNothing ==
    \A w \in Waiters :
        wpc[w] \in {"commit", "asleep", "woken"} /\ key[w] = epoch /\ items > 0
            => npc = "bump" \/ buffer \in {<<"epoch">>, <<"item", "epoch">>}

\* One that sleeps on an old epoch is about to be woken.
WakeComing ==
    \A w \in Waiters :
        wpc[w] = "asleep" /\ key[w] # epoch => npc \in {"look", "wake"}

\* The inductive strengthening of NoSleepOnWork.
IInv == TypeOK /\ CountExact /\ Shape /\ KeyInPast /\ SawNothing /\ WakeComing

AbstractPlace(w) ==
    CASE wpc[w] \in {"out", "barrier", "read"} -> "out"
      [] wpc[w] \in {"test", "cancel", "commit"} -> "ready"
      [] wpc[w] = "asleep" -> IF key[w] = epoch THEN "parked" ELSE "woken"
      [] wpc[w] = "woken" -> IF key[w] = epoch THEN "parked" ELSE "woken"
      [] wpc[w] = "leave" -> "woken"

AbstractState == [w \in Waiters |-> AbstractPlace(w)]

Abstract == INSTANCE EventCountSpec WITH state <- AbstractState

\* "Same shape and same contract as retro_eventcount": it keeps the promise the
\* other eventcount does, safety and liveness both.
Implements == Abstract!Spec
=============================================================================
