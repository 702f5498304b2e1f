---------------------------- MODULE MCTaskSwitch ----------------------------
(***************************************************************************)
(* The calls TaskSwitch is checked with.                                   *)
(***************************************************************************)
EXTENDS TaskSwitch

CONSTANTS a, b, p, q

On(call, t) == [call |-> call, task |-> t]

\* One thread pushes two tasks and cancels the first, which parks; another wakes it.
Calling ==
    [o \in {p, q} |->
        IF o = p THEN <<On("push", a), On("push", b), On("cancel", a)>>
                 ELSE <<On("wake", a)>>]

\* One thread pushes two tasks.
Pushing == [o \in {p} |-> <<On("push", a), On("push", b)>>]
=============================================================================
