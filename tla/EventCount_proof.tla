-------------------------- MODULE EventCount_proof --------------------------
(***************************************************************************)
(* The eventcount for any number of notifiers and waiters and on all four  *)
(* backends: no notify is slept through, no park leaves a block or a       *)
(* signal behind, and the backend implements the safety of EventCountSpec. *)
(*                                                                         *)
(* NoMissedNotify is not inductive by itself.  A notifier that reads zero  *)
(* waiters returns, so the count has to be exact (CountExact); a notifier  *)
(* that broadcasts must not do it between a waiter's re-check and its      *)
(* sleep (LockHeld); and a waiter that found nothing must have looked      *)
(* after naming its epoch (SawNothing, KeyInPast).  On the list a block is *)
(* in one hand at a time (OneHand) and never in none (SomeHand), and a     *)
(* waiter that goes to sleep after its second look will find the mark or   *)
(* be signalled (WillLearn).                                               *)
(***************************************************************************)
EXTENDS EventCount, FiniteSetTheorems, TLAPS

\* The registered threads are among the finitely many waiters.
LEMMA RegisteredFinite == IsFiniteSet(Registered)
BY EventCountAssumption, FS_Subset DEF Registered

\* fetch_add on ec->waiters keeps the count exact when one thread registers.
LEMMA CountUp ==
    ASSUME CountExact, NEW w, w \notin Registered,
           waiters' = waiters + 1, Registered' = Registered \cup {w}
    PROVE  CountExact'
BY RegisteredFinite, FS_AddElement, FS_CardinalityType DEF CountExact

\* fetch_sub on ec->waiters keeps the count exact when one thread leaves, and
\* the count was positive.
LEMMA CountDown ==
    ASSUME CountExact, NEW w \in Registered,
           waiters' = waiters - 1, Registered' = Registered \ {w}
    PROVE  CountExact' /\ waiters' \in Nat
BY RegisteredFinite, FS_RemoveElement, FS_CardinalityType DEF CountExact

\* A registered thread makes the count positive: notify does not return early.
LEMMA CountSeen ==
    ASSUME CountExact, NEW w \in Registered
    PROVE  waiters # 0
BY RegisteredFinite, FS_EmptySet DEF CountExact

\* retro_eventcount_init leaves the invariant true.
LEMMA InitIInv == Init => IInv
<1> SUFFICES ASSUME Init PROVE IInv
  OBVIOUS
<1>1. CountExact
  <2>1. Registered = {}
    BY DEF Init, Registered
  <2> QED
    BY <2>1, FS_EmptySet DEF Init, CountExact
<1> QED
  BY <1>1, EventCountAssumption
     DEF Init, IInv, TypeOK, LockHeld, KeyInPast, NoMissedNotify, SawNothing,
         ListExact, ListOnly, OneHand, SomeHand, WillLearn, Taken, Owed, Parking, Sleeping

\* A step that leaves every waiter in or out of its window keeps the count.
LEMMA CountSame ==
    ASSUME CountExact, waiters' = waiters, Registered' = Registered
    PROVE  CountExact'
BY DEF CountExact

\* A notifier's step that leaves the list, the blocks and the waiters' places alone
\* keeps what is known of the list, if it hides no notify from a waiter.
LEMMA NotifierQuiet ==
    ASSUME IInv, NEW n \in Notifiers, NEW to, npc' = [npc EXCEPT ![n] = to],
           npc[n] \notin {"walk", "signal"}, to \notin {"walk", "signal"},
           UNCHANGED <<backend, key, wpc, list>>,
           to \in {"look", "wake"} \/ Registered = {}
               \/ (UNCHANGED epoch /\ npc[n] \notin {"look", "wake"})
    PROVE  ListExact'
<1> USE DEF IInv, TypeOK, list, Parking, Sleeping
<1>1. ListOnly'
  BY DEF ListExact, ListOnly
<1>2. OneHand'
  BY DEF ListExact, OneHand, Taken, Owed
<1>3. SomeHand'
  BY DEF ListExact, SomeHand, Taken, Owed
<1>4. WillLearn'
  BY DEF ListExact, WillLearn, Taken, Waking, Registered
<1> QED
  BY <1>1, <1>2, <1>3, <1>4 DEF ListExact

\* A broadcast on the condition variable, or a futex wake, meets no list.
LEMMA WakeAllQuiet ==
    ASSUME IInv, backend # "list", WakeAll \/ UNCHANGED wpc, UNCHANGED <<backend, list>>,
           NEW n \in Notifiers, npc' = [npc EXCEPT ![n] = "idle"],
           npc[n] \notin {"walk", "signal"}
    PROVE  ListExact'
<1> USE DEF IInv, TypeOK, list, Parking, Sleeping, WakeAll, Woken, Mutexed
<1>1. ListOnly'
  BY DEF ListExact, ListOnly
<1>2. OneHand'
  BY EventCountAssumption DEF ListExact, ListOnly, OneHand, Taken, Owed
<1>3. SomeHand'
  BY DEF ListExact, ListOnly, SomeHand, Taken, Owed
<1>4. WillLearn'
  BY DEF ListExact, ListOnly, WillLearn
<1> QED
  BY <1>1, <1>2, <1>3, <1>4 DEF ListExact

\* A waiter's step away from the list, and a timeout on it, keeps what is known of
\* the list.
LEMMA WaiterQuiet ==
    ASSUME IInv, NEW w \in Waiters, NEW to, wpc' = [wpc EXCEPT ![w] = to],
           UNCHANGED <<backend, epoch, npc, list>>,
           \A v \in Waiters : v # w => key'[v] = key[v],
           \/ wpc[w] \notin Parking /\ (to \notin Parking \/ (to = "asleep" /\ backend # "list"))
           \/ wpc[w] = "asleep" /\ backend # "list" /\ to \notin Parking
           \/ wpc[w] = "asleep" /\ backend = "list" /\ to = "expired",
           to = "push" => backend = "list"
    PROVE  ListExact'
<1> USE DEF IInv, TypeOK, list, Parking, Sleeping
<1>1. ListOnly'
  BY DEF ListExact, ListOnly
<1>2. OneHand'
  BY EventCountAssumption DEF ListExact, ListOnly, OneHand, Taken, Owed
<1>3. SomeHand'
  BY DEF ListExact, SomeHand, Taken, Owed
<1>4. WillLearn'
  BY DEF ListExact, WillLearn, Taken, Waking
<1> QED
  BY <1>1, <1>2, <1>3, <1>4 DEF ListExact

\* Steps of retro_eventcount_notify up to the wake-up.
LEMMA NotifierIInv ==
    ASSUME IInv, NEW n \in Notifiers,
           Publish(n) \/ Bump(n) \/ Look(n) \/ Wake(n) \/ NotifyLocked(n)
    PROVE  IInv'
<1> USE EventCountAssumption DEF IInv, NGoto, list
<1>1. CASE Publish(n)
  <2>1. CountExact'
    BY <1>1, CountSame DEF Publish, Registered
  <2>2. TypeOK' /\ LockHeld' /\ KeyInPast'
    BY <1>1 DEF Publish, TypeOK, LockHeld, KeyInPast, Mutexed
  <2>3. NoMissedNotify'
    BY <1>1 DEF Publish, TypeOK, NoMissedNotify, Waking, Taken, Owed
  <2>4. SawNothing'
    BY <1>1 DEF Publish, TypeOK, SawNothing, Publishing
  <2>5. ListExact'
    BY <1>1, NotifierQuiet DEF Publish
  <2> QED
    BY <2>1, <2>2, <2>3, <2>4, <2>5
<1>2. CASE Bump(n)
  <2>1. CountExact'
    BY <1>2, CountSame DEF Bump, Registered
  <2>2. TypeOK' /\ LockHeld' /\ KeyInPast'
    BY <1>2 DEF Bump, TypeOK, LockHeld, KeyInPast, Mutexed
  <2>3. NoMissedNotify'
    BY <1>2 DEF Bump, TypeOK, NoMissedNotify, Waking
  <2>4. SawNothing'
    BY <1>2 DEF Bump, TypeOK, KeyInPast, SawNothing, Publishing
  <2>5. ListExact'
    BY <1>2, NotifierQuiet DEF Bump
  <2> QED
    BY <2>1, <2>2, <2>3, <2>4, <2>5
<1>3. CASE Look(n)
  <2>0. waiters = 0 => Registered = {}
    BY CountSeen
  <2>1. CountExact'
    BY <1>3, CountSame DEF Look, Registered
  <2>2. TypeOK' /\ LockHeld' /\ KeyInPast'
    BY <1>3 DEF Look, TypeOK, LockHeld, KeyInPast, Mutexed
  <2>3. NoMissedNotify'
    <3>1. CASE waiters = 0
      BY <3>1, <2>0, <1>3 DEF Look, Registered, NoMissedNotify
    <3>2. CASE waiters # 0
      BY <3>2, <1>3 DEF Look, TypeOK, NoMissedNotify, Waking
    <3> QED
      BY <3>1, <3>2
  <2>4. SawNothing'
    BY <1>3 DEF Look, TypeOK, SawNothing, Publishing
  <2>5. ListExact'
    BY <1>3, <2>0, NotifierQuiet DEF Look
  <2> QED
    BY <2>1, <2>2, <2>3, <2>4, <2>5
<1>4. CASE Wake(n)
  <2>1. CountExact'
    BY <1>4, CountSame DEF Wake, WakeAll, Woken, Registered, TypeOK
  <2>2. TypeOK' /\ LockHeld' /\ KeyInPast'
    BY <1>4 DEF Wake, WakeAll, Woken, Mutexed, TypeOK, LockHeld, KeyInPast
  <2>3. NoMissedNotify'
    BY <1>4 DEF Wake, WakeAll, Woken, Mutexed, TypeOK, NoMissedNotify, LockHeld
  <2>4. SawNothing'
    BY <1>4 DEF Wake, WakeAll, Woken, Mutexed, TypeOK, SawNothing, Publishing
  <2>5. ListExact'
    BY <1>4, WakeAllQuiet DEF Wake
  <2> QED
    BY <2>1, <2>2, <2>3, <2>4, <2>5
<1>5. CASE NotifyLocked(n)
  <2>0. UNCHANGED wpc \/ WakeAll
    BY <1>5 DEF NotifyLocked
  <2>1. CountExact'
    BY <1>5, <2>0, CountSame DEF NotifyLocked, WakeAll, Woken, Registered, TypeOK
  <2>2. TypeOK' /\ LockHeld' /\ KeyInPast'
    BY <1>5, <2>0 DEF NotifyLocked, WakeAll, Woken, Mutexed, TypeOK, LockHeld, KeyInPast
  <2>3. NoMissedNotify'
    <3>1. CASE waiters = 0
      <4>1. Registered = {}
        BY <3>1, CountSeen
      <4> QED
        BY <3>1, <4>1, <1>5 DEF NotifyLocked, Registered, NoMissedNotify
    <3>2. CASE waiters # 0
      BY <3>2, <1>5
         DEF NotifyLocked, WakeAll, Woken, Mutexed, TypeOK, NoMissedNotify,
             LockHeld
    <3> QED
      BY <3>1, <3>2
  <2>4. SawNothing'
    BY <1>5, <2>0
       DEF NotifyLocked, WakeAll, Woken, Mutexed, TypeOK, KeyInPast, SawNothing,
           Publishing
  <2>5. ListExact'
    BY <1>5, <2>0, WakeAllQuiet DEF NotifyLocked
  <2> QED
    BY <2>1, <2>2, <2>3, <2>4, <2>5
<1> QED
  BY <1>1, <1>2, <1>3, <1>4, <1>5

\* Steps of ec_wake_all: the blocks change hands one by one.
LEMMA WalkerIInv ==
    ASSUME IInv, NEW n \in Notifiers,
           TakeList(n) \/ WakeOne(n) \/ Signal(n) \/ WalkOver(n)
    PROVE  IInv'
<1> USE EventCountAssumption DEF IInv, NGoto, list
<1>1. CASE TakeList(n)
  <2>1. CountExact'
    BY <1>1, CountSame DEF TakeList, Registered
  <2>2. TypeOK' /\ LockHeld' /\ KeyInPast' /\ SawNothing'
    BY <1>1
       DEF TakeList, TypeOK, LockHeld, KeyInPast, SawNothing, Publishing, Mutexed,
           ListExact, ListOnly
  <2>3. NoMissedNotify'
    BY <1>1
       DEF TakeList, TypeOK, NoMissedNotify, Waking, Taken, Owed, ListExact,
           ListOnly, OneHand, SomeHand, Sleeping, Parking, Mutexed, LockHeld
  <2>4. ListOnly'
    BY <1>1 DEF TakeList, TypeOK, ListExact, ListOnly, Parking, Sleeping, OneHand
  <2>5. OneHand'
    BY <1>1
       DEF TakeList, TypeOK, ListExact, ListOnly, OneHand, Taken, Owed, Parking,
           Sleeping
  <2>6. SomeHand'
    BY <1>1
       DEF TakeList, TypeOK, ListExact, ListOnly, OneHand, SomeHand, Taken, Owed,
           Parking, Sleeping
  <2>7. WillLearn'
    BY <1>1
       DEF TakeList, TypeOK, ListExact, ListOnly, OneHand, SomeHand, WillLearn,
           Taken, Waking, Parking, Sleeping
  <2> QED
    BY <2>1, <2>2, <2>3, <2>4, <2>5, <2>6, <2>7 DEF ListExact
<1>2. CASE WakeOne(n)
  <2>1. CountExact'
    BY <1>2, CountSame DEF WakeOne, Registered
  <2>2. TypeOK' /\ LockHeld' /\ KeyInPast' /\ SawNothing'
    BY <1>2
       DEF WakeOne, TypeOK, LockHeld, KeyInPast, SawNothing, Publishing, Mutexed,
           ListExact, ListOnly
  <2>3. NoMissedNotify'
    BY <1>2
       DEF WakeOne, TypeOK, NoMissedNotify, Waking, Taken, Owed, ListExact,
           ListOnly, OneHand, SomeHand, Sleeping, Parking, Mutexed, LockHeld
  <2>4. ListOnly'
    BY <1>2 DEF WakeOne, TypeOK, ListExact, ListOnly, Parking, Sleeping, OneHand
  <2>5. OneHand'
    BY <1>2
       DEF WakeOne, TypeOK, ListExact, ListOnly, OneHand, Taken, Owed, Parking,
           Sleeping
  <2>6. SomeHand'
    BY <1>2
       DEF WakeOne, TypeOK, ListExact, ListOnly, OneHand, SomeHand, Taken, Owed,
           Parking, Sleeping
  <2>7. WillLearn'
    BY <1>2
       DEF WakeOne, TypeOK, ListExact, ListOnly, OneHand, SomeHand, WillLearn,
           Taken, Waking, Parking, Sleeping
  <2> QED
    BY <2>1, <2>2, <2>3, <2>4, <2>5, <2>6, <2>7 DEF ListExact
<1>3. CASE Signal(n)
  <2>1. CountExact'
    BY <1>3, CountSame DEF Signal, Registered
  <2>2. TypeOK' /\ LockHeld' /\ KeyInPast' /\ SawNothing'
    BY <1>3
       DEF Signal, TypeOK, LockHeld, KeyInPast, SawNothing, Publishing, Mutexed,
           ListExact, ListOnly
  <2>3. NoMissedNotify'
    BY <1>3
       DEF Signal, TypeOK, NoMissedNotify, Waking, Taken, Owed, ListExact, ListOnly,
           OneHand, SomeHand, Sleeping, Parking, Mutexed, LockHeld
  <2>4. ListOnly'
    BY <1>3 DEF Signal, TypeOK, ListExact, ListOnly, Parking, Sleeping, OneHand
  <2>5. OneHand'
    BY <1>3
       DEF Signal, TypeOK, ListExact, ListOnly, OneHand, Taken, Owed, Parking,
           Sleeping
  <2>6. SomeHand'
    BY <1>3
       DEF Signal, TypeOK, ListExact, ListOnly, OneHand, SomeHand, Taken, Owed,
           Parking, Sleeping
  <2>7. WillLearn'
    BY <1>3
       DEF Signal, TypeOK, ListExact, ListOnly, OneHand, SomeHand, WillLearn, Taken,
           Waking, Parking, Sleeping
  <2> QED
    BY <2>1, <2>2, <2>3, <2>4, <2>5, <2>6, <2>7 DEF ListExact
<1>4. CASE WalkOver(n)
  <2>1. CountExact'
    BY <1>4, CountSame DEF WalkOver, Registered
  <2>2. TypeOK' /\ LockHeld' /\ KeyInPast' /\ SawNothing'
    BY <1>4
       DEF WalkOver, TypeOK, LockHeld, KeyInPast, SawNothing, Publishing, Mutexed,
           ListExact, ListOnly
  <2>3. NoMissedNotify'
    BY <1>4
       DEF WalkOver, TypeOK, NoMissedNotify, Waking, Taken, Owed, ListExact,
           ListOnly, OneHand, SomeHand, Sleeping, Parking, Mutexed, LockHeld
  <2>4. ListOnly'
    BY <1>4 DEF WalkOver, TypeOK, ListExact, ListOnly, Parking, Sleeping, OneHand
  <2>5. OneHand'
    BY <1>4
       DEF WalkOver, TypeOK, ListExact, ListOnly, OneHand, Taken, Owed, Parking,
           Sleeping
  <2>6. SomeHand'
    BY <1>4
       DEF WalkOver, TypeOK, ListExact, ListOnly, OneHand, SomeHand, Taken, Owed,
           Parking, Sleeping
  <2>7. WillLearn'
    BY <1>4
       DEF WalkOver, TypeOK, ListExact, ListOnly, OneHand, SomeHand, WillLearn,
           Taken, Waking, Parking, Sleeping
  <2> QED
    BY <2>1, <2>2, <2>3, <2>4, <2>5, <2>6, <2>7 DEF ListExact
<1> QED
  BY <1>1, <1>2, <1>3, <1>4

\* Steps of retro_eventcount_prepare_wait, cancel_wait and commit_wait, and of
\* the client around them, away from the list.
LEMMA WaiterIInv ==
    ASSUME IInv, NEW w \in Waiters,
           \/ Take(w) \/ Register(w) \/ ReadEpoch(w) \/ PrepareLocked(w) \/ Test(w)
           \/ CancelWait(w) \/ Poll(w) \/ FutexWait(w) \/ Recheck(w) \/ CondWait(w)
           \/ WakeSpurious(w) \/ Relock(w) \/ Leave(w) \/ LookFirst(w) \/ NoSemaphore(w)
    PROVE  IInv'
<1> USE EventCountAssumption DEF IInv, WGoto, list
<1>1. CASE Take(w)
  <2>1. CountExact'
    BY <1>1, CountSame DEF Take, Registered, TypeOK
  <2>2. TypeOK' /\ LockHeld' /\ KeyInPast'
    BY <1>1, <2>1 DEF Take, Mutexed, TypeOK, LockHeld, KeyInPast
  <2>3. NoMissedNotify'
    BY <1>1 DEF Take, Mutexed, TypeOK, NoMissedNotify, Waking, Taken, Owed
  <2>4. SawNothing'
    BY <1>1 DEF Take, Mutexed, TypeOK, KeyInPast, SawNothing, Publishing
  <2>5. ListExact'
    BY <1>1, WaiterQuiet DEF Take, Mutexed, TypeOK, Parking, Sleeping
  <2> QED
    BY <2>1, <2>2, <2>3, <2>4, <2>5
<1>2. CASE Register(w)
  <2>0. w \notin Registered /\ Registered' = Registered \cup {w}
    BY <1>2 DEF Register, Registered, TypeOK
  <2>1. CountExact'
    BY <1>2, <2>0, CountUp DEF Register
  <2>2. TypeOK' /\ LockHeld' /\ KeyInPast'
    BY <1>2, <2>1 DEF Register, Mutexed, TypeOK, LockHeld, KeyInPast
  <2>3. NoMissedNotify'
    BY <1>2 DEF Register, Mutexed, TypeOK, NoMissedNotify, Waking, Taken, Owed
  <2>4. SawNothing'
    BY <1>2 DEF Register, Mutexed, TypeOK, KeyInPast, SawNothing, Publishing
  <2>5. ListExact'
    BY <1>2, WaiterQuiet DEF Register, Mutexed, TypeOK, Parking, Sleeping
  <2> QED
    BY <2>1, <2>2, <2>3, <2>4, <2>5
<1>3. CASE ReadEpoch(w)
  <2>1. CountExact'
    BY <1>3, CountSame DEF ReadEpoch, Registered, TypeOK
  <2>2. TypeOK' /\ LockHeld' /\ KeyInPast'
    BY <1>3, <2>1 DEF ReadEpoch, Mutexed, TypeOK, LockHeld, KeyInPast
  <2>3. NoMissedNotify'
    BY <1>3 DEF ReadEpoch, Mutexed, TypeOK, NoMissedNotify, Waking, Taken, Owed
  <2>4. SawNothing'
    BY <1>3 DEF ReadEpoch, Mutexed, TypeOK, KeyInPast, SawNothing, Publishing
  <2>5. ListExact'
    BY <1>3, WaiterQuiet DEF ReadEpoch, Mutexed, TypeOK, Parking, Sleeping
  <2> QED
    BY <2>1, <2>2, <2>3, <2>4, <2>5
<1>4. CASE PrepareLocked(w)
  <2>0. w \notin Registered /\ Registered' = Registered \cup {w}
    BY <1>4 DEF PrepareLocked, Registered, TypeOK
  <2>1. CountExact'
    BY <1>4, <2>0, CountUp DEF PrepareLocked
  <2>2. TypeOK' /\ LockHeld' /\ KeyInPast'
    BY <1>4, <2>1 DEF PrepareLocked, Mutexed, TypeOK, LockHeld, KeyInPast
  <2>3. NoMissedNotify'
    BY <1>4 DEF PrepareLocked, Mutexed, TypeOK, NoMissedNotify, Waking, Taken, Owed
  <2>4. SawNothing'
    BY <1>4 DEF PrepareLocked, Mutexed, TypeOK, KeyInPast, SawNothing, Publishing
  <2>5. ListExact'
    BY <1>4, WaiterQuiet DEF PrepareLocked, Mutexed, TypeOK, Parking, Sleeping
  <2> QED
    BY <2>1, <2>2, <2>3, <2>4, <2>5
<1>5. CASE Test(w)
  <2>1. CountExact'
    BY <1>5, CountSame DEF Test, Registered, TypeOK
  <2>2. TypeOK' /\ LockHeld' /\ KeyInPast'
    BY <1>5, <2>1 DEF Test, Mutexed, TypeOK, LockHeld, KeyInPast
  <2>3. NoMissedNotify'
    BY <1>5 DEF Test, Mutexed, TypeOK, NoMissedNotify, Waking, Taken, Owed
  <2>4. SawNothing'
    BY <1>5 DEF Test, Mutexed, TypeOK, KeyInPast, SawNothing, Publishing
  <2>5. ListExact'
    BY <1>5, WaiterQuiet DEF Test, Mutexed, TypeOK, Parking, Sleeping
  <2> QED
    BY <2>1, <2>2, <2>3, <2>4, <2>5
<1>6. CASE CancelWait(w)
  <2>0. w \in Registered /\ Registered' = Registered \ {w}
    BY <1>6 DEF CancelWait, Registered, TypeOK
  <2>1. CountExact' /\ waiters' \in Nat
    BY <1>6, <2>0, CountDown DEF CancelWait
  <2>2. TypeOK' /\ LockHeld' /\ KeyInPast'
    BY <1>6, <2>1 DEF CancelWait, Mutexed, TypeOK, LockHeld, KeyInPast
  <2>3. NoMissedNotify'
    BY <1>6 DEF CancelWait, Mutexed, TypeOK, NoMissedNotify, Waking, Taken, Owed
  <2>4. SawNothing'
    BY <1>6 DEF CancelWait, Mutexed, TypeOK, KeyInPast, SawNothing, Publishing
  <2>5. ListExact'
    BY <1>6, WaiterQuiet DEF CancelWait, Mutexed, TypeOK, Parking, Sleeping
  <2> QED
    BY <2>1, <2>2, <2>3, <2>4, <2>5
<1>7. CASE Poll(w)
  <2>0. w \in Registered /\ Registered' = Registered \ {w}
    BY <1>7 DEF Poll, Registered, TypeOK
  <2>1. CountExact' /\ waiters' \in Nat
    BY <1>7, <2>0, CountDown DEF Poll
  <2>2. TypeOK' /\ LockHeld' /\ KeyInPast'
    BY <1>7, <2>1 DEF Poll, Mutexed, TypeOK, LockHeld, KeyInPast
  <2>3. NoMissedNotify'
    BY <1>7 DEF Poll, Mutexed, TypeOK, NoMissedNotify, Waking, Taken, Owed
  <2>4. SawNothing'
    BY <1>7 DEF Poll, Mutexed, TypeOK, KeyInPast, SawNothing, Publishing
  <2>5. ListExact'
    BY <1>7, WaiterQuiet DEF Poll, Mutexed, TypeOK, Parking, Sleeping
  <2> QED
    BY <2>1, <2>2, <2>3, <2>4, <2>5
<1>8. CASE FutexWait(w)
  <2>1. CountExact'
    BY <1>8, CountSame DEF FutexWait, Registered, TypeOK
  <2>2. TypeOK' /\ LockHeld' /\ KeyInPast'
    BY <1>8, <2>1 DEF FutexWait, Mutexed, TypeOK, LockHeld, KeyInPast
  <2>3. NoMissedNotify'
    BY <1>8 DEF FutexWait, Mutexed, TypeOK, NoMissedNotify, Waking, Taken, Owed
  <2>4. SawNothing'
    BY <1>8 DEF FutexWait, Mutexed, TypeOK, KeyInPast, SawNothing, Publishing
  <2>5. ListExact'
    BY <1>8, WaiterQuiet DEF FutexWait, Mutexed, TypeOK, Parking, Sleeping
  <2> QED
    BY <2>1, <2>2, <2>3, <2>4, <2>5
<1>9. CASE Recheck(w)
  <2>1. CountExact'
    BY <1>9, CountSame DEF Recheck, Registered, TypeOK
  <2>2. TypeOK' /\ LockHeld' /\ KeyInPast'
    BY <1>9, <2>1 DEF Recheck, Mutexed, TypeOK, LockHeld, KeyInPast
  <2>3. NoMissedNotify'
    BY <1>9 DEF Recheck, Mutexed, TypeOK, NoMissedNotify, Waking, Taken, Owed
  <2>4. SawNothing'
    BY <1>9 DEF Recheck, Mutexed, TypeOK, KeyInPast, SawNothing, Publishing
  <2>5. ListExact'
    BY <1>9, WaiterQuiet DEF Recheck, Mutexed, TypeOK, Parking, Sleeping
  <2> QED
    BY <2>1, <2>2, <2>3, <2>4, <2>5
<1>10. CASE CondWait(w)
  <2>1. CountExact'
    BY <1>10, CountSame DEF CondWait, Registered, TypeOK
  <2>2. TypeOK' /\ LockHeld' /\ KeyInPast'
    BY <1>10, <2>1 DEF CondWait, Mutexed, TypeOK, LockHeld, KeyInPast
  <2>3. NoMissedNotify'
    BY <1>10 DEF CondWait, Mutexed, TypeOK, NoMissedNotify, Waking, Taken, Owed
  <2>4. SawNothing'
    BY <1>10 DEF CondWait, Mutexed, TypeOK, KeyInPast, SawNothing, Publishing
  <2>5. ListExact'
    BY <1>10, WaiterQuiet DEF CondWait, LockHeld, Mutexed, TypeOK, Parking, Sleeping
  <2> QED
    BY <2>1, <2>2, <2>3, <2>4, <2>5
<1>11. CASE WakeSpurious(w)
  <2>1. CountExact'
    BY <1>11, CountSame DEF WakeSpurious, Woken, Registered, TypeOK
  <2>2. TypeOK' /\ LockHeld' /\ KeyInPast'
    BY <1>11, <2>1 DEF WakeSpurious, Woken, Mutexed, TypeOK, LockHeld, KeyInPast
  <2>3. NoMissedNotify'
    BY <1>11
       DEF WakeSpurious, Woken, Mutexed, TypeOK, NoMissedNotify, Waking, Taken, Owed
  <2>4. SawNothing'
    BY <1>11 DEF WakeSpurious, Woken, Mutexed, TypeOK, KeyInPast, SawNothing, Publishing
  <2>5. ListExact'
    BY <1>11, WaiterQuiet DEF WakeSpurious, Woken, Mutexed, TypeOK, Parking, Sleeping
  <2> QED
    BY <2>1, <2>2, <2>3, <2>4, <2>5
<1>12. CASE Relock(w)
  <2>1. CountExact'
    BY <1>12, CountSame DEF Relock, Registered, TypeOK
  <2>2. TypeOK' /\ LockHeld' /\ KeyInPast'
    BY <1>12, <2>1 DEF Relock, Mutexed, TypeOK, LockHeld, KeyInPast
  <2>3. NoMissedNotify'
    BY <1>12 DEF Relock, Mutexed, TypeOK, NoMissedNotify, Waking, Taken, Owed
  <2>4. SawNothing'
    BY <1>12 DEF Relock, Mutexed, TypeOK, KeyInPast, SawNothing, Publishing
  <2>5. ListExact'
    BY <1>12, WaiterQuiet DEF Relock, Mutexed, TypeOK, Parking, Sleeping
  <2> QED
    BY <2>1, <2>2, <2>3, <2>4, <2>5
<1>13. CASE Leave(w)
  <2>0. w \in Registered /\ Registered' = Registered \ {w}
    BY <1>13 DEF Leave, Registered, TypeOK
  <2>1. CountExact' /\ waiters' \in Nat
    BY <1>13, <2>0, CountDown DEF Leave
  <2>2. TypeOK' /\ LockHeld' /\ KeyInPast'
    BY <1>13, <2>1 DEF Leave, Mutexed, TypeOK, LockHeld, KeyInPast
  <2>3. NoMissedNotify'
    BY <1>13 DEF Leave, Mutexed, TypeOK, NoMissedNotify, Waking, Taken, Owed
  <2>4. SawNothing'
    BY <1>13 DEF Leave, Mutexed, TypeOK, KeyInPast, SawNothing, Publishing
  <2>5. ListExact'
    BY <1>13, WaiterQuiet DEF Leave, Mutexed, TypeOK, Parking, Sleeping
  <2> QED
    BY <2>1, <2>2, <2>3, <2>4, <2>5
<1>14. CASE LookFirst(w)
  <2>1. CountExact'
    BY <1>14, CountSame DEF LookFirst, Registered, TypeOK
  <2>2. TypeOK' /\ LockHeld' /\ KeyInPast'
    BY <1>14, <2>1 DEF LookFirst, Mutexed, TypeOK, LockHeld, KeyInPast
  <2>3. NoMissedNotify'
    BY <1>14 DEF LookFirst, Mutexed, TypeOK, NoMissedNotify, Waking, Taken, Owed
  <2>4. SawNothing'
    BY <1>14 DEF LookFirst, Mutexed, TypeOK, KeyInPast, SawNothing, Publishing
  <2>5. ListExact'
    BY <1>14, WaiterQuiet DEF LookFirst, Mutexed, TypeOK, Parking, Sleeping
  <2> QED
    BY <2>1, <2>2, <2>3, <2>4, <2>5
<1>15. CASE NoSemaphore(w)
  <2>1. CountExact'
    BY <1>15, CountSame DEF NoSemaphore, Registered, TypeOK
  <2>2. TypeOK' /\ LockHeld' /\ KeyInPast'
    BY <1>15, <2>1 DEF NoSemaphore, Mutexed, TypeOK, LockHeld, KeyInPast, ListExact,
                          ListOnly
  <2>3. NoMissedNotify'
    BY <1>15 DEF NoSemaphore, Mutexed, TypeOK, NoMissedNotify, Waking, Taken, Owed
  <2>4. SawNothing'
    BY <1>15 DEF NoSemaphore, Mutexed, TypeOK, KeyInPast, SawNothing, Publishing
  <2>5. ListExact'
    BY <1>15, WaiterQuiet DEF NoSemaphore, Mutexed, TypeOK, Parking, Sleeping
  <2> QED
    BY <2>1, <2>2, <2>3, <2>4, <2>5
<1> QED
  BY <1>1, <1>2, <1>3, <1>4, <1>5, <1>6, <1>7, <1>8, <1>9, <1>10, <1>11, <1>12,
     <1>13, <1>14, <1>15

\* Steps of ec_sem_park and ec_win32_park from the push of the block on.
LEMMA ListIInv ==
    ASSUME IInv, NEW w \in Waiters,
           \/ PushBlock(w) \/ LookListed(w) \/ Linger(w) \/ Arm(w)
           \/ Unlink(w, "unlink", "linger") \/ Unlink(w, "expired", "consume")
           \/ Consume(w, "asleep") \/ Consume(w, "consume")
    PROVE  IInv'
<1> USE EventCountAssumption DEF IInv, WGoto, list, Parking, Sleeping
<1>1. CASE PushBlock(w)
  <2>1. CountExact'
    BY <1>1, CountSame DEF PushBlock, Registered, TypeOK
  <2>2. TypeOK' /\ LockHeld' /\ KeyInPast' /\ SawNothing'
    BY <1>1
       DEF PushBlock, Mutexed, TypeOK, LockHeld, KeyInPast, SawNothing, Publishing,
           ListExact, ListOnly
  <2>3. NoMissedNotify'
    BY <1>1
       DEF PushBlock, TypeOK, NoMissedNotify, Waking, Taken, Owed, ListExact,
           OneHand, WillLearn
  <2>4. ListOnly'
    BY <1>1 DEF PushBlock, TypeOK, ListExact, ListOnly
  <2>5. OneHand'
    BY <1>1 DEF PushBlock, TypeOK, ListExact, OneHand, SomeHand, Taken, Owed
  <2>6. SomeHand'
    BY <1>1 DEF PushBlock, TypeOK, ListExact, OneHand, SomeHand, Taken, Owed
  <2>7. WillLearn'
    BY <1>1 DEF PushBlock, TypeOK, ListExact, WillLearn, Taken, Waking
  <2> QED
    BY <2>1, <2>2, <2>3, <2>4, <2>5, <2>6, <2>7 DEF ListExact
<1>2. CASE LookListed(w)
  <2>1. CountExact'
    BY <1>2, CountSame DEF LookListed, Registered, TypeOK
  <2>2. TypeOK' /\ LockHeld' /\ KeyInPast' /\ SawNothing'
    BY <1>2
       DEF LookListed, Mutexed, TypeOK, LockHeld, KeyInPast, SawNothing, Publishing,
           ListExact, ListOnly
  <2>3. NoMissedNotify'
    BY <1>2
       DEF LookListed, TypeOK, NoMissedNotify, Waking, Taken, Owed, ListExact,
           OneHand, WillLearn
  <2>4. ListOnly'
    BY <1>2 DEF LookListed, TypeOK, ListExact, ListOnly
  <2>5. OneHand'
    BY <1>2 DEF LookListed, TypeOK, ListExact, OneHand, SomeHand, Taken, Owed
  <2>6. SomeHand'
    BY <1>2 DEF LookListed, TypeOK, ListExact, OneHand, SomeHand, Taken, Owed
  <2>7. WillLearn'
    BY <1>2 DEF LookListed, TypeOK, ListExact, WillLearn, Taken, Waking
  <2> QED
    BY <2>1, <2>2, <2>3, <2>4, <2>5, <2>6, <2>7 DEF ListExact
<1>3. CASE Linger(w)
  <2>1. CountExact'
    BY <1>3, CountSame DEF Linger, Registered, TypeOK
  <2>2. TypeOK' /\ LockHeld' /\ KeyInPast' /\ SawNothing'
    BY <1>3
       DEF Linger, Mutexed, TypeOK, LockHeld, KeyInPast, SawNothing, Publishing,
           ListExact, ListOnly
  <2>3. NoMissedNotify'
    BY <1>3
       DEF Linger, TypeOK, NoMissedNotify, Waking, Taken, Owed, ListExact, OneHand,
           WillLearn
  <2>4. ListOnly'
    BY <1>3 DEF Linger, TypeOK, ListExact, ListOnly
  <2>5. OneHand'
    BY <1>3 DEF Linger, TypeOK, ListExact, OneHand, SomeHand, Taken, Owed
  <2>6. SomeHand'
    BY <1>3 DEF Linger, TypeOK, ListExact, OneHand, SomeHand, Taken, Owed
  <2>7. WillLearn'
    BY <1>3 DEF Linger, TypeOK, ListExact, WillLearn, Taken, Waking
  <2> QED
    BY <2>1, <2>2, <2>3, <2>4, <2>5, <2>6, <2>7 DEF ListExact
<1>4. CASE Arm(w)
  <2>1. CountExact'
    BY <1>4, CountSame DEF Arm, Registered, TypeOK
  <2>2. TypeOK' /\ LockHeld' /\ KeyInPast' /\ SawNothing'
    BY <1>4
       DEF Arm, Mutexed, TypeOK, LockHeld, KeyInPast, SawNothing, Publishing,
           ListExact, ListOnly
  <2>3. NoMissedNotify'
    BY <1>4
       DEF Arm, TypeOK, NoMissedNotify, Waking, Taken, Owed, ListExact, OneHand,
           WillLearn
  <2>4. ListOnly'
    BY <1>4 DEF Arm, TypeOK, ListExact, ListOnly
  <2>5. OneHand'
    BY <1>4 DEF Arm, TypeOK, ListExact, OneHand, SomeHand, Taken, Owed
  <2>6. SomeHand'
    BY <1>4 DEF Arm, TypeOK, ListExact, OneHand, SomeHand, Taken, Owed
  <2>7. WillLearn'
    BY <1>4 DEF Arm, TypeOK, ListExact, WillLearn, Taken, Waking
  <2> QED
    BY <2>1, <2>2, <2>3, <2>4, <2>5, <2>6, <2>7 DEF ListExact
<1>5. CASE Unlink(w, "unlink", "linger")
  <2>1. CountExact'
    BY <1>5, CountSame DEF Unlink, Registered, TypeOK
  <2>2. TypeOK' /\ LockHeld' /\ KeyInPast' /\ SawNothing'
    BY <1>5
       DEF Unlink, Mutexed, TypeOK, LockHeld, KeyInPast, SawNothing, Publishing,
           ListExact, ListOnly
  <2>3. NoMissedNotify'
    BY <1>5
       DEF Unlink, TypeOK, NoMissedNotify, Waking, Taken, Owed, ListExact, OneHand,
           WillLearn
  <2>4. ListOnly'
    BY <1>5 DEF Unlink, TypeOK, ListExact, ListOnly
  <2>5. OneHand'
    BY <1>5 DEF Unlink, TypeOK, ListExact, OneHand, SomeHand, Taken, Owed
  <2>6. SomeHand'
    BY <1>5 DEF Unlink, TypeOK, ListExact, OneHand, SomeHand, Taken, Owed
  <2>7. WillLearn'
    BY <1>5 DEF Unlink, TypeOK, ListExact, WillLearn, Taken, Waking
  <2> QED
    BY <2>1, <2>2, <2>3, <2>4, <2>5, <2>6, <2>7 DEF ListExact
<1>6. CASE Unlink(w, "expired", "consume")
  <2>1. CountExact'
    BY <1>6, CountSame DEF Unlink, Registered, TypeOK
  <2>2. TypeOK' /\ LockHeld' /\ KeyInPast' /\ SawNothing'
    BY <1>6
       DEF Unlink, Mutexed, TypeOK, LockHeld, KeyInPast, SawNothing, Publishing,
           ListExact, ListOnly
  <2>3. NoMissedNotify'
    BY <1>6
       DEF Unlink, TypeOK, NoMissedNotify, Waking, Taken, Owed, ListExact, OneHand,
           WillLearn
  <2>4. ListOnly'
    BY <1>6 DEF Unlink, TypeOK, ListExact, ListOnly
  <2>5. OneHand'
    BY <1>6 DEF Unlink, TypeOK, ListExact, OneHand, SomeHand, Taken, Owed
  <2>6. SomeHand'
    BY <1>6 DEF Unlink, TypeOK, ListExact, ListOnly, OneHand, SomeHand, Taken, Owed
  <2>7. WillLearn'
    BY <1>6 DEF Unlink, TypeOK, ListExact, WillLearn, Taken, Waking
  <2> QED
    BY <2>1, <2>2, <2>3, <2>4, <2>5, <2>6, <2>7 DEF ListExact
<1>7. CASE Consume(w, "asleep")
  <2>1. CountExact'
    BY <1>7, CountSame DEF Consume, Registered, TypeOK
  <2>2. TypeOK' /\ LockHeld' /\ KeyInPast' /\ SawNothing'
    BY <1>7
       DEF Consume, Mutexed, TypeOK, LockHeld, KeyInPast, SawNothing, Publishing,
           ListExact, ListOnly
  <2>3. NoMissedNotify'
    BY <1>7
       DEF Consume, TypeOK, NoMissedNotify, Waking, Taken, Owed, ListExact, OneHand,
           WillLearn
  <2>4. ListOnly'
    BY <1>7 DEF Consume, TypeOK, ListExact, ListOnly
  <2>5. OneHand'
    BY <1>7 DEF Consume, TypeOK, ListExact, OneHand, SomeHand, Taken, Owed
  <2>6. SomeHand'
    BY <1>7 DEF Consume, TypeOK, ListExact, OneHand, SomeHand, Taken, Owed
  <2>7. WillLearn'
    BY <1>7 DEF Consume, TypeOK, ListExact, WillLearn, Taken, Waking
  <2> QED
    BY <2>1, <2>2, <2>3, <2>4, <2>5, <2>6, <2>7 DEF ListExact
<1>8. CASE Consume(w, "consume")
  <2>1. CountExact'
    BY <1>8, CountSame DEF Consume, Registered, TypeOK
  <2>2. TypeOK' /\ LockHeld' /\ KeyInPast' /\ SawNothing'
    BY <1>8
       DEF Consume, Mutexed, TypeOK, LockHeld, KeyInPast, SawNothing, Publishing,
           ListExact, ListOnly
  <2>3. NoMissedNotify'
    BY <1>8
       DEF Consume, TypeOK, NoMissedNotify, Waking, Taken, Owed, ListExact, OneHand,
           WillLearn
  <2>4. ListOnly'
    BY <1>8 DEF Consume, TypeOK, ListExact, ListOnly
  <2>5. OneHand'
    BY <1>8 DEF Consume, TypeOK, ListExact, OneHand, SomeHand, Taken, Owed
  <2>6. SomeHand'
    BY <1>8 DEF Consume, TypeOK, ListExact, OneHand, SomeHand, Taken, Owed
  <2>7. WillLearn'
    BY <1>8 DEF Consume, TypeOK, ListExact, WillLearn, Taken, Waking
  <2> QED
    BY <2>1, <2>2, <2>3, <2>4, <2>5, <2>6, <2>7 DEF ListExact
<1> QED
  BY <1>1, <1>2, <1>3, <1>4, <1>5, <1>6, <1>7, <1>8

\* The inductive invariant holds of every behaviour of notifiers and waiters.
THEOREM Invariance == SafetySpec => []IInv
<1>1. IInv /\ [Next]_vars => IInv'
  <2> SUFFICES ASSUME IInv, [Next]_vars PROVE IInv'
    OBVIOUS
  <2>1. CASE Next
    BY <2>1, NotifierIInv, WalkerIInv, WaiterIInv, ListIInv
       DEF Next, NotifyStep, WaiterStep, ListStep
  <2>2. CASE UNCHANGED vars
    BY <2>2 DEF vars, list, IInv, TypeOK, CountExact, Registered, LockHeld, KeyInPast,
                NoMissedNotify, SawNothing, Waking, Publishing, Mutexed, ListExact,
                ListOnly, OneHand, SomeHand, WillLearn, Taken, Owed
  <2> QED
    BY <2>1, <2>2
<1> QED
  BY <1>1, InitIInv, PTL DEF SafetySpec

\* ec->epoch, ec->waiters and the threads' places keep their types; the waiter
\* count never goes negative.
THEOREM TypeCorrect == SafetySpec => []TypeOK
<1>1. IInv => TypeOK
  BY DEF IInv
<1> QED
  BY <1>1, Invariance, PTL

\* ec->waiters is the number of threads in a window.
THEOREM WaitersExact == SafetySpec => []CountExact
<1>1. IInv => CountExact
  BY DEF IInv
<1> QED
  BY <1>1, Invariance, PTL

\* Nobody sleeps through retro_eventcount_notify.
THEOREM NotifyNotMissed == SafetySpec => []NoMissedNotify
<1>1. IInv => NoMissedNotify
  BY DEF IInv
<1> QED
  BY <1>1, Invariance, PTL

\* With every notify finished, no consumer sleeps while there is an item.
THEOREM WorkNotSleptOn == SafetySpec => []NoSleepOnWork
<1>1. IInv => NoSleepOnWork
  BY EventCountAssumption
     DEF IInv, TypeOK, NoMissedNotify, SawNothing, NoSleepOnWork, Waking, Publishing,
         ListExact, ListOnly, Taken, Owed
<1> QED
  BY <1>1, Invariance, PTL

\* A park ends with its block off every list and nothing counted on its semaphore.
THEOREM ParkLeavesNothing == SafetySpec => []NothingLeftOver
<1>1. IInv => NothingLeftOver
  BY DEF IInv, ListExact, OneHand, NothingLeftOver, Parking, Sleeping
<1> QED
  BY <1>1, Invariance, PTL

(***************************************************************************)
(* The refinement.  A notify takes effect at the bump of the epoch: the    *)
(* sleepers it will wake count as woken from then on.                      *)
(***************************************************************************)

\* The mapped state is a function on the waiters.
LEMMA MapFunction ==
    /\ AbstractState = [v \in Waiters |-> AbstractState[v]]
    /\ AbstractState' = [v \in Waiters |-> AbstractState'[v]]
BY DEF AbstractState

\* A step of one waiter that leaves the epoch alone and moves its mapped state as
\* the header allows is the abstract step of that move.
LEMMA MoveRefines ==
    ASSUME TypeOK, NEW w \in Waiters, NEW to, wpc' = [wpc EXCEPT ![w] = to],
           UNCHANGED <<epoch, key>>,
           \/ AbstractState'[w] = AbstractState[w]
           \/ AbstractState[w] = "ready" /\ AbstractState'[w] \in {"out", "woken"}
           \/ AbstractState[w] = "ready" /\ AbstractState'[w] = "parked" /\ key[w] = epoch
           \/ AbstractState[w] = "parked" /\ AbstractState'[w] = "woken"
           \/ AbstractState[w] = "woken" /\ AbstractState'[w] = "out"
    PROVE  Abstract!Next \/ UNCHANGED Abstract!vars
<1>1. \A v \in Waiters : v # w => AbstractState'[v] = AbstractState[v]
  BY DEF TypeOK, AbstractState, AbstractPlace
<1>2. AbstractState' = [AbstractState EXCEPT ![w] = AbstractState'[w]]
  BY <1>1, MapFunction
<1>3. CASE AbstractState'[w] = AbstractState[w]
  BY <1>2, <1>3, MapFunction DEF Abstract!vars
<1>4. CASE AbstractState[w] = "ready" /\ AbstractState'[w] = "out"
  BY <1>2, <1>4 DEF Abstract!Next, Abstract!CancelWait, Abstract!Become
<1>5. CASE AbstractState[w] = "ready" /\ AbstractState'[w] = "woken"
  BY <1>2, <1>5 DEF Abstract!Next, Abstract!DontPark, Abstract!Become
<1>6. CASE AbstractState[w] = "ready" /\ AbstractState'[w] = "parked" /\ key[w] = epoch
  BY <1>2, <1>6 DEF Abstract!Next, Abstract!Park, Abstract!Become
<1>7. CASE AbstractState[w] = "parked" /\ AbstractState'[w] = "woken"
  <2>1. Abstract!Spurious({w})
    BY <1>1, <1>7, MapFunction DEF Abstract!Spurious
  <2> QED
    BY <2>1 DEF Abstract!Next
<1>8. CASE AbstractState[w] = "woken" /\ AbstractState'[w] = "out"
  BY <1>2, <1>8 DEF Abstract!Next, Abstract!Return, Abstract!Become
<1> QED
  BY <1>3, <1>4, <1>5, <1>6, <1>7, <1>8

\* Steps of retro_eventcount_notify are the abstract Notify, a late wake of
\* waiters that parked since, or nothing.
LEMMA NotifierRefines ==
    ASSUME IInv, NEW n \in Notifiers, Publish(n) \/ NotifyStep(n)
    PROVE  Abstract!Next \/ UNCHANGED Abstract!vars
<1> USE EventCountAssumption DEF IInv, NGoto, Abstract!vars
<1>1. CASE \/ Publish(n) \/ Look(n)
           \/ TakeList(n) \/ WakeOne(n) \/ Signal(n) \/ WalkOver(n)
  <2>1. wpc' = wpc /\ key' = key /\ epoch' = epoch
    BY <1>1 DEF Publish, Look, TakeList, WakeOne, Signal, WalkOver
  <2> QED
    BY <2>1 DEF AbstractState, AbstractPlace
<1>2. CASE Bump(n)
  <2>1. Abstract!Notify
    BY <1>2 DEF Bump, Abstract!Notify, AbstractState, AbstractPlace, TypeOK, KeyInPast
  <2> QED
    BY <2>1 DEF Abstract!Next
<1>3. CASE Wake(n)
  <2> DEFINE W == {w \in Waiters : AbstractState[w] = "parked"}
  <2>1. \A w \in Waiters : AbstractState'[w] = IF w \in W THEN "woken" ELSE AbstractState[w]
    BY <1>3 DEF Wake, WakeAll, Woken, Mutexed, AbstractState, AbstractPlace, TypeOK
  <2>2. Abstract!Spurious(W)
    BY <1>3, <2>1, MapFunction DEF Wake, Abstract!Spurious
  <2> QED
    BY <2>2 DEF Abstract!Next
<1>4. CASE NotifyLocked(n)
  <2>1. waiters = 0 => Registered = {}
    BY CountSeen
  <2>2. ASSUME NEW w \in Waiters
        PROVE  AbstractState'[w] = IF AbstractState[w] = "parked" THEN "woken"
                                                                  ELSE AbstractState[w]
    <3>1. wpc[w] # "asleep" => wpc'[w] = wpc[w]
      BY <1>4 DEF NotifyLocked, WakeAll, TypeOK
    <3>2. wpc[w] = "asleep" => wpc'[w] = "woken"
      BY <1>4, <2>1 DEF NotifyLocked, WakeAll, Woken, Mutexed, TypeOK, Registered
    <3>3. key[w] <= epoch /\ key' = key /\ epoch' = epoch + 1
      BY <1>4 DEF NotifyLocked, KeyInPast
    <3> QED
      BY <3>1, <3>2, <3>3 DEF AbstractState, AbstractPlace, TypeOK
  <2>3. Abstract!Notify
    BY <1>4, <2>2, MapFunction DEF NotifyLocked, Abstract!Notify
  <2> QED
    BY <2>3 DEF Abstract!Next
<1> QED
  BY <1>1, <1>2, <1>3, <1>4 DEF NotifyStep

\* Steps of a waiter are an abstract step of the same waiter, or nothing.
LEMMA WaiterRefines ==
    ASSUME IInv, NEW w \in Waiters,
           WaiterStep(w) \/ Poll(w) \/ WakeSpurious(w) \/ NoSemaphore(w)
    PROVE  Abstract!Next \/ UNCHANGED Abstract!vars
<1> USE EventCountAssumption DEF IInv, TypeOK, WGoto, AbstractState, AbstractPlace
<1>1. CASE Take(w)
  BY <1>1 DEF Take, Abstract!vars
<1>2. CASE ReadEpoch(w) \/ PrepareLocked(w)
  <2>1. AbstractState[w] = "out" /\ AbstractState'[w] = "ready"
    BY <1>2 DEF ReadEpoch, PrepareLocked
  <2>2. \A v \in Waiters : v # w => AbstractState'[v] = AbstractState[v]
    BY <1>2 DEF ReadEpoch, PrepareLocked
  <2>3. key' = [key EXCEPT ![w] = epoch] /\ UNCHANGED epoch
    BY <1>2 DEF ReadEpoch, PrepareLocked
  <2>4. Abstract!PrepareWait(w)
    <3> HIDE DEF AbstractState
    <3> QED
      BY <2>1, <2>2, <2>3, MapFunction DEF Abstract!PrepareWait, Abstract!Become
  <2> QED
    BY <2>4 DEF Abstract!Next
<1>3. CASE Register(w) \/ Test(w) \/ CancelWait(w) \/ Poll(w)
  BY <1>3, MoveRefines
     DEF Register, Test, CancelWait, Poll
<1>4. CASE FutexWait(w) \/ Recheck(w) \/ CondWait(w)
  BY <1>4, MoveRefines
     DEF FutexWait, Recheck, CondWait
<1>5. CASE Relock(w) \/ Leave(w)
  BY <1>5, MoveRefines
     DEF Relock, Leave
<1>6. CASE WakeSpurious(w)
  BY <1>6, MoveRefines
     DEF WakeSpurious, Woken, Mutexed
<1>7. CASE LookFirst(w) \/ NoSemaphore(w) \/ PushBlock(w) \/ LookListed(w)
  BY <1>7, MoveRefines
     DEF LookFirst, NoSemaphore, PushBlock, LookListed
<1>8. CASE Linger(w) \/ Arm(w)
  BY <1>8, MoveRefines
     DEF Linger, Arm
<1>9. CASE Unlink(w, "unlink", "linger") \/ Unlink(w, "expired", "consume")
  BY <1>9, MoveRefines
     DEF Unlink
<1>10. CASE Consume(w, "asleep") \/ Consume(w, "consume")
  BY <1>10, MoveRefines
     DEF Consume
<1> QED
  BY <1>1, <1>2, <1>3, <1>4, <1>5, <1>6, <1>7, <1>8, <1>9, <1>10
     DEF WaiterStep, ListStep

\* Every backend implements the safety the header promises (EventCountSpec).
THEOREM Refinement == SafetySpec => Abstract!SafetySpec
<1>1. Init => Abstract!Init
  BY DEF Init, Abstract!Init, AbstractState, AbstractPlace
<1>2. IInv /\ [Next]_vars => [Abstract!Next]_(Abstract!vars)
  <2> SUFFICES ASSUME IInv, [Next]_vars
               PROVE  Abstract!Next \/ UNCHANGED Abstract!vars
    OBVIOUS
  <2>1. CASE Next
    BY <2>1, NotifierRefines, WaiterRefines DEF Next
  <2>2. CASE UNCHANGED vars
    BY <2>2 DEF vars, Abstract!vars, AbstractState, AbstractPlace
  <2> QED
    BY <2>1, <2>2
<1> QED
  BY <1>1, <1>2, Invariance, PTL DEF SafetySpec, Abstract!SafetySpec
=============================================================================
