--------------------------- MODULE EventCountSpec ---------------------------
(***************************************************************************)
(* What include/rthreads/retro_eventcount.h promises of an eventcount,     *)
(* whichever backend sleeps.  A waiter opens a window with prepare_wait,   *)
(* which names the current epoch, and closes it with cancel_wait or        *)
(* commit_wait.  A notify "releases every thread currently waiting, and    *)
(* causes any prepare_wait that has already run to return without          *)
(* blocking": it is one atomic step here.  commit_wait may return for no   *)
(* reason at all.                                                          *)
(***************************************************************************)
EXTENDS Naturals

CONSTANT Waiters

VARIABLES
    epoch,    \* the number of notifies
    key,      \* the epoch each waiter's last prepare_wait named
    state     \* "out", "ready" (window open), "parked" or "woken"

vars == <<epoch, key, state>>

Init ==
    /\ epoch = 0
    /\ key = [w \in Waiters |-> 0]
    /\ state = [w \in Waiters |-> "out"]

Become(w, from, to) ==
    /\ state[w] = from
    /\ state' = [state EXCEPT ![w] = to]

PrepareWait(w) ==
    /\ Become(w, "out", "ready")
    /\ key' = [key EXCEPT ![w] = epoch]
    /\ UNCHANGED epoch

CancelWait(w) ==
    /\ Become(w, "ready", "out")
    /\ UNCHANGED <<epoch, key>>

\* commit_wait blocks only while no notify came since prepare_wait ...
Park(w) ==
    /\ key[w] = epoch
    /\ Become(w, "ready", "parked")
    /\ UNCHANGED <<epoch, key>>

\* ... and need not block at all.
DontPark(w) ==
    /\ Become(w, "ready", "woken")
    /\ UNCHANGED <<epoch, key>>

\* A timeout, a signal, or the tail of an earlier notify, which may reach
\* several waiters that parked after it.
Spurious(W) ==
    /\ \A w \in W : state[w] = "parked"
    /\ state' = [w \in Waiters |-> IF w \in W THEN "woken" ELSE state[w]]
    /\ UNCHANGED <<epoch, key>>

\* commit_wait returns.
Return(w) ==
    /\ Become(w, "woken", "out")
    /\ UNCHANGED <<epoch, key>>

Notify ==
    /\ epoch' = epoch + 1
    /\ state' = [w \in Waiters |->
                    IF state[w] = "parked" THEN "woken" ELSE state[w]]
    /\ UNCHANGED key

Next ==
    \/ Notify
    \/ \E w \in Waiters :
          \/ PrepareWait(w) \/ CancelWait(w)
          \/ Park(w) \/ DontPark(w) \/ Return(w)
    \/ \E W \in SUBSET Waiters : Spurious(W)

\* A waiter that a notify released does return.
Fairness == \A w \in Waiters : WF_vars(Return(w))

SafetySpec == Init /\ [][Next]_vars

Spec == SafetySpec /\ Fairness
=============================================================================
