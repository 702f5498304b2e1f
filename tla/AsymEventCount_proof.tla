------------------------ MODULE AsymEventCount_proof ------------------------
(***************************************************************************)
(* The asymmetric eventcount for any number of waiters: no consumer is     *)
(* left asleep beside an item, although the notifier pays no fence.        *)
(*                                                                         *)
(* NoSleepOnWork needs to know what may still sit in the store buffer.     *)
(* Once a waiter is past the barrier it holds the stores of one notify at  *)
(* most (Shape): an earlier one was emptied out by the barrier, and a      *)
(* later one reads a waiter count that is not zero (CountExact) and does   *)
(* not return before its stores are out.  So what a waiter missed is the   *)
(* item of a notify still under way (SawNothing), and that one wakes it    *)
(* (WakeComing).                                                           *)
(***************************************************************************)
EXTENDS AsymEventCount, FiniteSetTheorems, SequenceTheorems, TLAPS

\* The registered threads are among the finitely many waiters.
LEMMA RegisteredFinite == IsFiniteSet(Registered)
BY AsymEventCountAssumption, FS_Subset DEF Registered

\* A step that leaves every waiter in or out of its window keeps the count.
LEMMA CountSame ==
    ASSUME CountExact, waiters' = waiters, Registered' = Registered
    PROVE  CountExact'
BY DEF CountExact

\* prepare_wait's increment keeps the count exact.
LEMMA CountUp ==
    ASSUME CountExact, NEW w, w \notin Registered,
           waiters' = waiters + 1, Registered' = Registered \cup {w}
    PROVE  CountExact'
BY RegisteredFinite, FS_AddElement, FS_CardinalityType DEF CountExact

\* So does the decrement of the one that leaves.
LEMMA CountDown ==
    ASSUME CountExact, NEW w \in Registered,
           waiters' = waiters - 1, Registered' = Registered \ {w}
    PROVE  CountExact' /\ waiters' \in Nat
BY RegisteredFinite, FS_RemoveElement, FS_CardinalityType DEF CountExact

\* With a waiter past its barrier the notifier finds the count positive.
LEMMA CountSeen ==
    ASSUME CountExact, waiters = 0
    PROVE  Past = {}
<1>1. Registered = {}
  BY RegisteredFinite, FS_EmptySet DEF CountExact
<1> QED
  BY <1>1 DEF Registered, Past

\* The buffers of one notify, and what a store and a drain make of them.
LEMMA Buffers ==
    /\ Append(<<>>, "item") = <<"item">>
    /\ Append(<<>>, "epoch") = <<"epoch">>
    /\ Append(<<"item">>, "epoch") = <<"item", "epoch">>
    /\ Tail(<<"item">>) = <<>> /\ Head(<<"item">>) = "item"
    /\ Tail(<<"epoch">>) = <<>> /\ Head(<<"epoch">>) = "epoch"
    /\ Tail(<<"item", "epoch">>) = <<"epoch">> /\ Head(<<"item", "epoch">>) = "item"
    /\ <<>> # <<"item">> /\ <<>> # <<"epoch">> /\ <<>> # <<"item", "epoch">>
    /\ <<"item">> # <<"epoch">> /\ <<"item">> # <<"item", "epoch">>
    /\ <<"epoch">> # <<"item", "epoch">>
<1>1. Append(<<>>, "item") = <<"item">>
  OBVIOUS
<1>2. Append(<<>>, "epoch") = <<"epoch">>
  OBVIOUS
<1>3. Append(<<"item">>, "epoch") = <<"item", "epoch">>
  <2> DEFINE s == Append(<<"item">>, "epoch")
             t == <<"item", "epoch">>
             S == {"item", "epoch"}
  <2>1. s \in Seq(S) /\ Len(s) = 2 /\ s[1] = "item" /\ s[2] = "epoch"
    OBVIOUS
  <2>2. t \in Seq(S) /\ Len(t) = 2 /\ t[1] = "item" /\ t[2] = "epoch"
    OBVIOUS
  <2> HIDE DEF s, t, S
  <2>3. \A i \in 1..Len(s) : s[i] = t[i]
    BY <2>1, <2>2
  <2>4. s = t
    BY <2>1, <2>2, <2>3, SeqEqual
  <2> QED
    BY <2>4 DEF s, t
<1>4. Tail(<<"item">>) = <<>> /\ Head(<<"item">>) = "item"
  OBVIOUS
<1>5. Tail(<<"epoch">>) = <<>> /\ Head(<<"epoch">>) = "epoch"
  OBVIOUS
<1>6. Tail(<<"item", "epoch">>) = <<"epoch">> /\ Head(<<"item", "epoch">>) = "item"
  OBVIOUS
<1>7. <<>> # <<"item">> /\ <<>> # <<"epoch">> /\ <<>> # <<"item", "epoch">>
  OBVIOUS
<1>8. <<"item">> # <<"epoch">> /\ <<"item">> # <<"item", "epoch">>
  OBVIOUS
<1>9. <<"epoch">> # <<"item", "epoch">>
  OBVIOUS
<1> QED
  BY <1>1, <1>2, <1>3, <1>4, <1>5, <1>6, <1>7, <1>8, <1>9

\* retro_asym_eventcount_init leaves the invariant true.
LEMMA InitIInv == Init => IInv
<1> SUFFICES ASSUME Init PROVE IInv
  OBVIOUS
<1>1. CountExact
  <2>1. Registered = {}
    BY DEF Init, Registered
  <2> QED
    BY <2>1, FS_EmptySet DEF Init, CountExact
<1> QED
  BY <1>1, AsymEventCountAssumption
     DEF Init, IInv, TypeOK, Shape, KeyInPast, SawNothing, WakeComing

\* Steps of the notifier and of its store buffer.
LEMMA NotifierIInv ==
    ASSUME IInv, Publish \/ NotifyStep \/ Drain
    PROVE  IInv'
<1> USE AsymEventCountAssumption DEF IInv, NGoto
<1>1. CASE Publish
  <2>1. CountExact'
    BY <1>1, CountSame DEF Publish, Registered
  <2>2. TypeOK' /\ KeyInPast' /\ WakeComing'
    BY <1>1 DEF Publish, TypeOK, KeyInPast, WakeComing
  <2>3. SawNothing'
    BY <1>1 DEF Publish, TypeOK, SawNothing
  <2>4. Shape'
    BY <1>1, Buffers DEF Publish, TypeOK, Shape, Past
  <2> QED
    BY <2>1, <2>2, <2>3, <2>4
<1>2. CASE Bump
  <2>1. CountExact'
    BY <1>2, CountSame DEF Bump, Registered
  <2>2. TypeOK' /\ KeyInPast' /\ WakeComing'
    BY <1>2 DEF Bump, TypeOK, KeyInPast, WakeComing
  <2>3. Shape'
    BY <1>2, Buffers DEF Bump, TypeOK, Shape, Past
  <2>4. SawNothing'
    BY <1>2, Buffers DEF Bump, TypeOK, SawNothing, Shape, Past
  <2> QED
    BY <2>1, <2>2, <2>3, <2>4
<1>3. CASE BumpSeqCst
  <2>1. CountExact'
    BY <1>3, CountSame DEF BumpSeqCst, Registered
  <2>2. TypeOK' /\ KeyInPast' /\ WakeComing'
    BY <1>3 DEF BumpSeqCst, TypeOK, KeyInPast, WakeComing
  <2>3. Shape'
    BY <1>3 DEF BumpSeqCst, TypeOK, Shape, Past
  <2>4. SawNothing'
    BY <1>3 DEF BumpSeqCst, TypeOK, SawNothing, KeyInPast
  <2> QED
    BY <2>1, <2>2, <2>3, <2>4
<1>4. CASE Look
  <2>1. CountExact'
    BY <1>4, CountSame DEF Look, Registered
  <2>2. TypeOK' /\ KeyInPast'
    BY <1>4 DEF Look, TypeOK, KeyInPast
  <2>3. SawNothing'
    BY <1>4 DEF Look, TypeOK, SawNothing
  <2>4. Shape' /\ WakeComing'
    <3>1. CASE waiters = 0
      <4>1. Past = {}
        BY <3>1, CountSeen
      <4> QED
        BY <3>1, <4>1, <1>4 DEF Look, TypeOK, Shape, WakeComing, Past
    <3>2. CASE waiters # 0
      BY <3>2, <1>4 DEF Look, TypeOK, Shape, WakeComing, Past
    <3> QED
      BY <3>1, <3>2
  <2> QED
    BY <2>1, <2>2, <2>3, <2>4
<1>5. CASE Broadcast
  <2>1. CountExact'
    BY <1>5, CountSame DEF Broadcast, Registered, TypeOK
  <2>2. TypeOK' /\ KeyInPast' /\ WakeComing'
    BY <1>5 DEF Broadcast, TypeOK, KeyInPast, WakeComing
  <2>3. SawNothing'
    BY <1>5, Buffers DEF Broadcast, TypeOK, SawNothing
  <2>4. Shape'
    BY <1>5 DEF Broadcast, TypeOK, Shape, Past
  <2> QED
    BY <2>1, <2>2, <2>3, <2>4
<1>6. CASE Drain
  <2>1. CountExact'
    BY <1>6, CountSame DEF Drain, Registered
  <2>2. TypeOK' /\ KeyInPast'
    BY <1>6 DEF Drain, TypeOK, KeyInPast
  <2>3. Shape'
    BY <1>6, Buffers DEF Drain, TypeOK, Shape, Past
  <2>4. SawNothing' /\ WakeComing'
    <3> SUFFICES ASSUME NEW w \in Waiters, w \in Past
                 PROVE  /\ SawNothing!(w)'
                        /\ WakeComing!(w)'
      BY <1>6 DEF Drain, SawNothing, WakeComing, Past
    <3>1. \/ npc = "bump" /\ buffer = <<"item">>
          \/ npc \in {"look", "wake"} /\ buffer \in {<<"epoch">>, <<"item", "epoch">>}
      BY <1>6 DEF Drain, TypeOK, Shape
    <3>2. CASE Head(buffer) = "item"
      BY <1>6, <3>1, <3>2, Buffers DEF Drain, TypeOK, SawNothing, WakeComing
    <3>3. CASE Head(buffer) # "item"
      <4>1. epoch' = epoch + 1 /\ npc \in {"look", "wake"}
        BY <1>6, <3>1, <3>3, Buffers DEF Drain
      <4> QED
        BY <1>6, <4>1 DEF Drain, TypeOK, KeyInPast
    <3> QED
      BY <3>2, <3>3
  <2> QED
    BY <2>1, <2>2, <2>3, <2>4
<1> QED
  BY <1>1, <1>2, <1>3, <1>4, <1>5, <1>6 DEF NotifyStep

\* Steps of prepare_wait, cancel_wait and commit_wait, and of the client.
LEMMA WaiterIInv ==
    ASSUME IInv, NEW w \in Waiters, WaiterStep(w) \/ WakeSpurious(w) \/ GiveUp(w)
    PROVE  IInv'
<1> USE AsymEventCountAssumption DEF IInv, WGoto
<1>1. CASE Take(w)
  <2>1. CountExact'
    BY <1>1, CountSame DEF Take, Registered, TypeOK
  <2>2. TypeOK' /\ KeyInPast'
    BY <1>1 DEF Take, TypeOK, KeyInPast
  <2>3. Shape'
    BY <1>1 DEF Take, TypeOK, Shape, Past
  <2>4. SawNothing' /\ WakeComing'
    BY <1>1 DEF Take, TypeOK, SawNothing, WakeComing
  <2> QED
    BY <2>1, <2>2, <2>3, <2>4
<1>2. CASE Register(w)
  <2>0. w \notin Registered /\ Registered' = Registered \cup {w}
    BY <1>2 DEF Register, Registered, TypeOK
  <2>1. CountExact'
    BY <1>2, <2>0, CountUp DEF Register
  <2>2. TypeOK' /\ KeyInPast'
    BY <1>2 DEF Register, TypeOK, KeyInPast
  <2>3. Shape'
    BY <1>2 DEF Register, TypeOK, Shape, Past
  <2>4. SawNothing' /\ WakeComing'
    BY <1>2 DEF Register, TypeOK, SawNothing, WakeComing
  <2> QED
    BY <2>1, <2>2, <2>3, <2>4
<1>3. CASE Barrier(w)
  <2>1. CountExact'
    BY <1>3, CountSame DEF Barrier, Registered, TypeOK
  <2>2. TypeOK' /\ KeyInPast'
    BY <1>3 DEF Barrier, TypeOK, KeyInPast
  <2>3. Shape'
    BY <1>3 DEF Barrier, TypeOK, Shape, Past
  <2>4. SawNothing' /\ WakeComing'
    BY <1>3 DEF Barrier, TypeOK, SawNothing, WakeComing
  <2> QED
    BY <2>1, <2>2, <2>3, <2>4
<1>4. CASE ReadEpoch(w)
  <2>1. CountExact'
    BY <1>4, CountSame DEF ReadEpoch, Registered, TypeOK
  <2>2. TypeOK' /\ KeyInPast'
    BY <1>4 DEF ReadEpoch, TypeOK, KeyInPast
  <2>3. Shape'
    BY <1>4 DEF ReadEpoch, TypeOK, Shape, Past
  <2>4. SawNothing' /\ WakeComing'
    BY <1>4 DEF ReadEpoch, TypeOK, SawNothing, WakeComing
  <2> QED
    BY <2>1, <2>2, <2>3, <2>4
<1>5. CASE Test(w)
  <2>1. CountExact'
    BY <1>5, CountSame DEF Test, Registered, TypeOK
  <2>2. TypeOK' /\ KeyInPast'
    BY <1>5 DEF Test, TypeOK, KeyInPast
  <2>3. Shape'
    BY <1>5 DEF Test, TypeOK, Shape, Past
  <2>4. SawNothing' /\ WakeComing'
    BY <1>5 DEF Test, TypeOK, SawNothing, WakeComing
  <2> QED
    BY <2>1, <2>2, <2>3, <2>4
<1>6. CASE CancelWait(w)
  <2>0. w \in Registered /\ Registered' = Registered \ {w}
    BY <1>6 DEF CancelWait, Registered, TypeOK
  <2>1. CountExact' /\ waiters' \in Nat
    BY <1>6, <2>0, CountDown DEF CancelWait
  <2>2. TypeOK' /\ KeyInPast'
    BY <1>6, <2>1 DEF CancelWait, TypeOK, KeyInPast
  <2>3. Shape'
    BY <1>6 DEF CancelWait, TypeOK, Shape, Past
  <2>4. SawNothing' /\ WakeComing'
    BY <1>6 DEF CancelWait, TypeOK, SawNothing, WakeComing
  <2> QED
    BY <2>1, <2>2, <2>3, <2>4
<1>7. CASE Commit(w)
  <2>1. CountExact'
    BY <1>7, CountSame DEF Commit, Registered, TypeOK
  <2>2. TypeOK' /\ KeyInPast'
    BY <1>7 DEF Commit, TypeOK, KeyInPast
  <2>3. Shape'
    BY <1>7 DEF Commit, TypeOK, Shape, Past
  <2>4. SawNothing' /\ WakeComing'
    BY <1>7 DEF Commit, TypeOK, SawNothing, WakeComing
  <2> QED
    BY <2>1, <2>2, <2>3, <2>4
<1>8. CASE Recheck(w)
  <2>1. CountExact'
    BY <1>8, CountSame DEF Recheck, Registered, TypeOK
  <2>2. TypeOK' /\ KeyInPast'
    BY <1>8 DEF Recheck, TypeOK, KeyInPast
  <2>3. Shape'
    BY <1>8 DEF Recheck, TypeOK, Shape, Past
  <2>4. SawNothing' /\ WakeComing'
    BY <1>8 DEF Recheck, TypeOK, SawNothing, WakeComing
  <2> QED
    BY <2>1, <2>2, <2>3, <2>4
<1>9. CASE Leave(w)
  <2>0. w \in Registered /\ Registered' = Registered \ {w}
    BY <1>9 DEF Leave, Registered, TypeOK
  <2>1. CountExact' /\ waiters' \in Nat
    BY <1>9, <2>0, CountDown DEF Leave
  <2>2. TypeOK' /\ KeyInPast'
    BY <1>9, <2>1 DEF Leave, TypeOK, KeyInPast
  <2>3. Shape'
    BY <1>9 DEF Leave, TypeOK, Shape, Past
  <2>4. SawNothing' /\ WakeComing'
    BY <1>9 DEF Leave, TypeOK, SawNothing, WakeComing
  <2> QED
    BY <2>1, <2>2, <2>3, <2>4
<1>10. CASE WakeSpurious(w)
  <2>1. CountExact'
    BY <1>10, CountSame DEF WakeSpurious, Registered, TypeOK
  <2>2. TypeOK' /\ KeyInPast'
    BY <1>10 DEF WakeSpurious, TypeOK, KeyInPast
  <2>3. Shape'
    BY <1>10 DEF WakeSpurious, TypeOK, Shape, Past
  <2>4. SawNothing' /\ WakeComing'
    BY <1>10 DEF WakeSpurious, TypeOK, SawNothing, WakeComing
  <2> QED
    BY <2>1, <2>2, <2>3, <2>4
<1>11. CASE GiveUp(w)
  <2>1. CountExact'
    BY <1>11, CountSame DEF GiveUp, Registered, TypeOK
  <2>2. TypeOK' /\ KeyInPast'
    BY <1>11 DEF GiveUp, TypeOK, KeyInPast
  <2>3. Shape'
    BY <1>11 DEF GiveUp, TypeOK, Shape, Past
  <2>4. SawNothing' /\ WakeComing'
    BY <1>11 DEF GiveUp, TypeOK, SawNothing, WakeComing
  <2> QED
    BY <2>1, <2>2, <2>3, <2>4
<1> QED
  BY <1>1, <1>2, <1>3, <1>4, <1>5, <1>6, <1>7, <1>8, <1>9, <1>10, <1>11 DEF WaiterStep

\* Every step keeps the invariant.
LEMMA StepIInv == IInv /\ [Next]_vars => IInv'
<1> SUFFICES ASSUME IInv, [Next]_vars PROVE IInv'
  OBVIOUS
<1>1. CASE Next
  BY <1>1, NotifierIInv, WaiterIInv DEF Next
<1>2. CASE UNCHANGED vars
  BY <1>2 DEF vars, IInv, TypeOK, CountExact, Registered, Shape, Past, KeyInPast,
              SawNothing, WakeComing
<1> QED
  BY <1>1, <1>2

\* The invariant of the asymmetric eventcount, for any number of waiters.
THEOREM Invariance == SafetySpec => []IInv
BY InitIInv, StepIInv, PTL DEF SafetySpec

\* Every variable keeps its type; the waiter count never goes below zero.
THEOREM TypeCorrect == SafetySpec => []TypeOK
<1>1. IInv => TypeOK
  BY DEF IInv
<1> QED
  BY <1>1, Invariance, PTL

\* ec->waiters is the number of threads inside a prepare/commit window.
THEOREM CountIsExact == SafetySpec => []CountExact
<1>1. IInv => CountExact
  BY DEF IInv
<1> QED
  BY <1>1, Invariance, PTL

\* No consumer is left asleep while there is an item to take, in memory or in the
\* store buffer of a notifier that has returned.
THEOREM NobodySleepsOnWork == SafetySpec => []NoSleepOnWork
<1>1. IInv => NoSleepOnWork
  <2> SUFFICES ASSUME IInv, npc = "idle", items > 0 \/ buffer # <<>>,
                      NEW w \in Waiters, wpc[w] = "asleep"
               PROVE  FALSE
    BY DEF NoSleepOnWork
  <2>1. buffer = <<>>
    BY DEF IInv, Shape, Past
  <2>2. key[w] = epoch
    BY DEF IInv, WakeComing
  <2> QED
    BY <2>1, <2>2, Buffers DEF IInv, SawNothing
<1> QED
  BY <1>1, Invariance, PTL

\* The mapped state is a function on the waiters.
LEMMA MapFunction ==
    /\ AbstractState = [v \in Waiters |-> AbstractState[v]]
    /\ AbstractState' = [v \in Waiters |-> AbstractState'[v]]
BY DEF AbstractState

\* A step of one waiter that leaves the epoch alone changes its mapped state only.
LEMMA MapStep ==
    ASSUME TypeOK, NEW w \in Waiters, NEW to, wpc' = [wpc EXCEPT ![w] = to],
           UNCHANGED <<epoch, key>>
    PROVE  AbstractState' = [AbstractState EXCEPT ![w] = AbstractState'[w]]
<1>1. \A v \in Waiters : v # w => AbstractState'[v] = AbstractState[v]
  BY DEF TypeOK, AbstractState, AbstractPlace
<1> QED
  BY <1>1, MapFunction

\* The abstract notify happens when the new epoch reaches memory.
LEMMA EpochRefines ==
    ASSUME IInv, epoch' = epoch + 1, UNCHANGED <<key, wpc>>
    PROVE  Abstract!Next
<1>1. ASSUME NEW w \in Waiters
      PROVE  AbstractState'[w] = IF AbstractState[w] = "parked" THEN "woken"
                                                                ELSE AbstractState[w]
  <2>1. key[w] <= epoch /\ key[w] \in Nat /\ epoch \in Nat
    BY DEF IInv, KeyInPast, TypeOK
  <2> QED
    BY <2>1 DEF IInv, TypeOK, AbstractState, AbstractPlace
<1>2. Abstract!Notify
  BY <1>1, MapFunction DEF Abstract!Notify
<1> QED
  BY <1>2 DEF Abstract!Next

\* Steps of the notifier are that one or nothing.
LEMMA NotifierRefines ==
    ASSUME IInv, Publish \/ NotifyStep \/ Drain
    PROVE  Abstract!Next \/ UNCHANGED Abstract!vars
<1>1. CASE Publish \/ Bump \/ Look
  <2>1. UNCHANGED <<epoch, key, wpc>>
    BY <1>1 DEF Publish, Bump, Look
  <2> QED
    BY <2>1 DEF AbstractState, AbstractPlace, Abstract!vars
<1>2. CASE BumpSeqCst
  BY <1>2, EpochRefines DEF BumpSeqCst
<1>3. CASE Broadcast
  <2>1. \A w \in Waiters : AbstractState'[w] = AbstractState[w]
    BY <1>3 DEF Broadcast, IInv, TypeOK, AbstractState, AbstractPlace
  <2> QED
    BY <1>3, <2>1, MapFunction DEF Broadcast, Abstract!vars
<1>4. CASE Drain
  <2>1. CASE Head(buffer) = "item"
    BY <1>4, <2>1 DEF Drain, AbstractState, AbstractPlace, Abstract!vars
  <2>2. CASE Head(buffer) # "item"
    BY <1>4, <2>2, EpochRefines DEF Drain
  <2> QED
    BY <2>1, <2>2
<1> QED
  BY <1>1, <1>2, <1>3, <1>4 DEF NotifyStep

\* Steps of a waiter are the abstract step of the same name, or nothing.
LEMMA WaiterRefines ==
    ASSUME IInv, NEW w \in Waiters, WaiterStep(w) \/ WakeSpurious(w) \/ GiveUp(w)
    PROVE  Abstract!Next \/ UNCHANGED Abstract!vars
<1> USE DEF IInv, TypeOK, WGoto, AbstractState, AbstractPlace
<1>1. CASE Take(w)
  BY <1>1 DEF Take, Abstract!vars
<1>2. CASE Register(w) \/ Barrier(w)
  <2>0. AbstractState[w] = "out" /\ AbstractState'[w] = "out"
    BY <1>2 DEF Register, Barrier
  <2> QED
    BY <1>2, <2>0, MapStep, MapFunction DEF Register, Barrier, Abstract!vars
<1>3. CASE ReadEpoch(w)
  <2>1. Abstract!PrepareWait(w)
    BY <1>3 DEF ReadEpoch, Abstract!PrepareWait, Abstract!Become
  <2> QED
    BY <2>1 DEF Abstract!Next
<1>4. CASE Test(w)
  <2>0. AbstractState[w] = "ready" /\ AbstractState'[w] = "ready"
    BY <1>4 DEF Test
  <2> QED
    BY <1>4, <2>0, MapStep, MapFunction DEF Test, Abstract!vars
<1>5. CASE CancelWait(w)
  <2>0. AbstractState[w] = "ready" /\ AbstractState'[w] = "out"
    BY <1>5 DEF CancelWait
  <2>1. Abstract!CancelWait(w)
    BY <1>5, <2>0, MapStep DEF CancelWait, Abstract!CancelWait, Abstract!Become
  <2> QED
    BY <2>1 DEF Abstract!Next
<1>6. CASE Commit(w)
  <2>0. AbstractState[w] = "ready"
    BY <1>6 DEF Commit
  <2>1. CASE key[w] = epoch
    <3>1. AbstractState'[w] = "parked"
      BY <1>6, <2>1 DEF Commit
    <3>2. Abstract!Park(w)
      <4> HIDE DEF AbstractState
      <4> QED
        BY <1>6, <2>0, <2>1, <3>1, MapStep DEF Commit, Abstract!Park, Abstract!Become
    <3> QED
      BY <3>2 DEF Abstract!Next
  <2>2. CASE key[w] # epoch
    <3>1. AbstractState'[w] = "woken"
      BY <1>6, <2>2 DEF Commit
    <3>2. Abstract!DontPark(w)
      <4> HIDE DEF AbstractState
      <4> QED
        BY <1>6, <2>0, <3>1, MapStep DEF Commit, Abstract!DontPark, Abstract!Become
    <3> QED
      BY <3>2 DEF Abstract!Next
  <2> QED
    BY <2>1, <2>2
<1>7. CASE WakeSpurious(w) \/ Recheck(w)
  <2>0. AbstractState'[w] = AbstractState[w]
    BY <1>7 DEF WakeSpurious, Recheck
  <2> QED
    <3> HIDE DEF AbstractState
    <3> QED
      BY <1>7, <2>0, MapStep, MapFunction DEF WakeSpurious, Recheck, Abstract!vars
<1>8. CASE GiveUp(w)
  <2>1. CASE key[w] = epoch
    <3>0. AbstractState[w] = "parked" /\ AbstractState'[w] = "woken"
      BY <1>8, <2>1 DEF GiveUp
    <3>1. Abstract!Spurious({w})
      <4> HIDE DEF AbstractState
      <4> QED
        BY <1>8, <3>0, MapStep, MapFunction DEF GiveUp, Abstract!Spurious
    <3> QED
      BY <3>1 DEF Abstract!Next
  <2>2. CASE key[w] # epoch
    BY <1>8, <2>2 DEF GiveUp, Abstract!vars
  <2> QED
    BY <2>1, <2>2
<1>9. CASE Leave(w)
  <2>0. AbstractState[w] = "woken" /\ AbstractState'[w] = "out"
    BY <1>9 DEF Leave
  <2>1. Abstract!Return(w)
    BY <1>9, <2>0, MapStep DEF Leave, Abstract!Return, Abstract!Become
  <2> QED
    BY <2>1 DEF Abstract!Next
<1> QED
  BY <1>1, <1>2, <1>3, <1>4, <1>5, <1>6, <1>7, <1>8, <1>9 DEF WaiterStep

\* The asymmetric eventcount implements the safety of the same promise the
\* symmetric one does (EventCountSpec).
THEOREM Refinement == SafetySpec => Abstract!SafetySpec
<1>1. Init => Abstract!Init
  BY DEF Init, Abstract!Init, AbstractState, AbstractPlace
<1>2. IInv /\ [Next]_vars => [Abstract!Next]_(Abstract!vars)
  <2> SUFFICES ASSUME IInv, [Next]_vars
               PROVE  Abstract!Next \/ UNCHANGED Abstract!vars
    OBVIOUS
  <2>1. CASE Next
    BY <2>1, NotifierRefines, WaiterRefines DEF Next
  <2>2. CASE UNCHANGED vars
    BY <2>2 DEF vars, Abstract!vars, AbstractState, AbstractPlace
  <2> QED
    BY <2>1, <2>2
<1> QED
  BY <1>1, <1>2, Invariance, PTL DEF SafetySpec, Abstract!SafetySpec
=============================================================================
