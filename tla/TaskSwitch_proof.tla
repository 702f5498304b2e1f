-------------------------- MODULE TaskSwitch_proof --------------------------
(***************************************************************************)
(* The switch of a task queue's runner, for any number of clients, tasks   *)
(* and changes of mind: a client through the gate keeps the runner up, and *)
(* the primitives of a generation are freed once, by the last to use them. *)
(*                                                                         *)
(* Neither is inductive by itself.  Main reads a count, so the count has   *)
(* to be exact (WakersExact); a client's second look must see the gate     *)
(* closed whenever that count was read (GateHolds); a generation is        *)
(* numbered by its init, so an init must not reuse a number (Turns); and   *)
(* the references say who may still free it (Lives).  That is IInv.        *)
(*                                                                         *)
(* A call made while the gate is closed is held.  That it arrives, once    *)
(* and in the order of the calls, is about all the places it may be in:    *)
(* which lists a task can be found in (Placed), the held pushes that are   *)
(* still to be passed on (HeldInOrder), the one effect of each push        *)
(* (PushedOnce), a cancel on its way to its task (CancelsKept), and who    *)
(* will end a park (ParksEnd).  They are proved together, as LInv, beside  *)
(* IInv.  What the removal from a list (Without) leaves is shown at its    *)
(* least counterexample.                                                   *)
(***************************************************************************)
EXTENDS TaskSwitch, FiniteSetTheorems, SequenceTheorems, NaturalsInduction, TLAPS

\* What the invariant speaks of.
Relevant == <<want, flips, impl, switching, wakers, gen, refs, propertyLock, pinned,
              workerContinue, frees, worker, mpc, pc>>

\* All steps but those of the gate, the switch and the workers leave it alone.
LEMMA RelevantUnchanged ==
    ASSUME IInv, UNCHANGED Relevant
    PROVE  IInv'
BY DEF Relevant, IInv, Shape, WakersExact, Counted, GateHolds, Turns, StillToCome, Lives

\* The counted clients are among the finitely many.
LEMMA CountedFinite == IsFiniteSet(Counted)
BY TaskSwitchAssumption, FS_Subset DEF Counted

\* A client is counted on its way into the gate ...
LEMMA CountUp ==
    ASSUME WakersExact, NEW o, o \notin Counted,
           wakers' = wakers + 1, Counted' = Counted \cup {o}
    PROVE  WakersExact'
BY CountedFinite, FS_AddElement, FS_CardinalityType DEF WakersExact

\* ... until it leaves it.
LEMMA CountDown ==
    ASSUME WakersExact, NEW o \in Counted,
           wakers' = wakers - 1, Counted' = Counted \ {o}
    PROVE  WakersExact'
BY CountedFinite, FS_RemoveElement, FS_CardinalityType DEF WakersExact

\* A step that leaves every client in or out keeps the count.
LEMMA CountSame ==
    ASSUME WakersExact, wakers' = wakers, Counted' = Counted
    PROVE  WakersExact'
BY DEF WakersExact

\* task_queue_check finds a waker that is inside.
LEMMA CountSeen ==
    ASSUME WakersExact, wakers = 0
    PROVE  Counted = {}
BY CountedFinite, FS_EmptySet DEF WakersExact

\* The numbers of the generations suffice.
LEMMA GenerationsSuffice ==
    ASSUME Shape, NEW n \in Nat, 2 * n <= flips + 2, n >= 1
    PROVE  n \in Generations
BY TaskSwitchAssumption DEF Shape, Generations

\* A threaded runner has one of them.
LEMMA ThreadedGeneration ==
    ASSUME Shape, Turns, Lives, impl = "threaded"
    PROVE  gen \in Generations
<1>1. StillToCome \in {0, 1, 2}
  BY DEF StillToCome
<1>2. 2 * gen <= flips + StillToCome
  BY DEF Turns
<1>3. gen \in Nat /\ gen >= 1 /\ flips \in Nat
  BY TaskSwitchAssumption DEF Shape, Lives
<1>4. 2 * gen <= flips + 2
  BY <1>1, <1>2, <1>3
<1> QED
  BY <1>3, <1>4, GenerationsSuffice

\* task_queue_init leaves the invariant true.
LEMMA InitIInv == Init => IInv
<1> SUFFICES ASSUME Init PROVE IInv
  OBVIOUS
<1>1. Counted = {}
  BY DEF Init, Counted, Through
<1>2. WakersExact
  BY <1>1, FS_EmptySet DEF Init, WakersExact
<1>3. Shape
  <2>1. flips \in 0..MaxFlips /\ gen \in Nat
    BY TaskSwitchAssumption DEF Init
  <2>2. /\ want \in BOOLEAN /\ switching \in BOOLEAN /\ workerContinue \in BOOLEAN
        /\ propertyLock \in BOOLEAN /\ pinned \in BOOLEAN
    BY DEF Init
  <2>3. /\ refs \in [Generations -> Nat] /\ frees \in [Generations -> Nat]
        /\ worker \in [Generations -> {"off", "idle", "handler", "settle", "exited",
                                       "orphaned", "cleanup", "gone"}]
        /\ DOMAIN pc = Clients
    BY DEF Init
  <2> QED
    BY <2>1, <2>2, <2>3 DEF Shape
<1>4. GateHolds /\ Turns
  BY TaskSwitchAssumption DEF Init, GateHolds, Turns, StillToCome, Closing, Through
<1>5. Lives
  BY DEF Init, Lives, Generations
<1> QED
  BY <1>2, <1>3, <1>4, <1>5 DEF IInv

\* The clients' steps.
LEMMA ClientIInv ==
    ASSUME IInv, NEW o \in Clients, Begin(o) \/ ClientStep(o) \/ DeferFails(o)
    PROVE  IInv'
<1> USE DEF IInv, StillToCome, Through, ClientGoto, gate, lists, fields, life, workers, check, clients, begun, history, excuses
<1>1. CASE Begin(o)
  <2>1. WakersExact'
    BY <1>1, CountSame DEF Begin, Counted, Shape
  <2> QED
    BY <1>1, <2>1 DEF Begin, Shape, GateHolds, Turns, Lives
<1>2. CASE GateLook(o)
  <2>1. WakersExact'
    BY <1>2, CountSame DEF GateLook, TurnedAway, Counted, Shape
  <2> QED
    BY <1>2, <2>1 DEF GateLook, TurnedAway, Shape, GateHolds, Turns, Lives
<1>3. CASE Inside(o)
  <2>1. WakersExact'
    BY <1>3, CountSame DEF Inside, Counted, Shape
  <2> QED
    BY <1>3, <2>1 DEF Inside, Shape, GateHolds, Turns, Lives
<1>4. CASE Direct(o)
  <2>1. WakersExact'
    BY <1>4, CountSame DEF Direct, Counted, Shape
  <2> QED
    BY <1>4, <2>1 DEF Direct, Shape, GateHolds, Turns, Lives
<1>5. CASE Hold(o)
  <2>1. WakersExact'
    BY <1>5, CountSame DEF Hold, Counted, Shape
  <2> QED
    BY <1>5, <2>1 DEF Hold, Shape, GateHolds, Turns, Lives
<1>6. CASE Defer(o)
  <2>1. WakersExact'
    BY <1>6, CountSame DEF Defer, Counted, Shape
  <2> QED
    BY <1>6, <2>1 DEF Defer, Shape, GateHolds, Turns, Lives
<1>7. CASE DeferFails(o)
  <2>1. WakersExact'
    BY <1>7, CountSame DEF DeferFails, Counted, Shape
  <2> QED
    BY <1>7, <2>1 DEF DeferFails, Shape, GateHolds, Turns, Lives
<1>8. CASE GateCount(o)
  <2>1. WakersExact'
    <3>1. o \notin Counted /\ Counted' = Counted \cup {o}
      BY <1>8 DEF GateCount, Counted, Shape
    <3> QED
      BY <1>8, <3>1, CountUp DEF GateCount
  <2> QED
    BY <1>8, <2>1 DEF GateCount, Shape, GateHolds, Turns, Lives
<1>9. CASE GateRelook(o)
  <2>1. WakersExact'
    <3>1. CASE switching
      <4>1. o \in Counted /\ Counted' = Counted \ {o} /\ wakers' = wakers - 1
        BY <1>9, <3>1 DEF GateRelook, TurnedAway, Counted, Shape
      <4> QED
        BY <4>1, CountDown
    <3>2. CASE ~switching
      <4>1. Counted' = Counted /\ wakers' = wakers
        BY <1>9, <3>2 DEF GateRelook, Counted, Shape
      <4> QED
        BY <4>1, CountSame
    <3> QED
      BY <3>1, <3>2
  <2> QED
    BY <1>9, <2>1 DEF GateRelook, TurnedAway, Shape, GateHolds, Turns, Lives
<1>10. CASE Leave(o)
  <2>1. WakersExact'
    <3>1. o \in Counted /\ Counted' = Counted \ {o} /\ wakers' = wakers - 1
      BY <1>10 DEF Leave, Counted, Shape
    <3> QED
      BY <3>1, CountDown
  <2> QED
    BY <1>10, <2>1 DEF Leave, Returned, Shape, GateHolds, Turns, Lives
<1> QED
  BY <1>1, <1>2, <1>3, <1>4, <1>5, <1>6, <1>7, <1>8, <1>9, <1>10 DEF ClientStep

\* The workers' steps.
LEMMA WorkerIInv ==
    ASSUME IInv, NEW g \in Generations, WorkerStep(g)
    PROVE  IInv'
<1> USE DEF IInv, Unlocked, gate, lists, fields, life, workers, check, clients, begun, history, excuses
<1>1. WakersExact'
  BY CountSame DEF WorkerStep, WorkerExits, WorkerPicks, HandlerReturns, WorkerSettles,
                   OrphanReleases, Counted
<1>2. GateHolds' /\ Turns'
  <2>1. UNCHANGED <<want, flips, impl, switching, gen, workerContinue, mpc, pc>>
    BY DEF WorkerStep, WorkerExits, WorkerPicks, HandlerReturns, WorkerSettles,
           OrphanReleases
  <2> QED
    BY <2>1 DEF GateHolds, Turns, StillToCome
<1>3. CASE WorkerExits(g)
  BY <1>1, <1>2, <1>3 DEF WorkerExits, Shape, Turns, Lives
<1>4. CASE WorkerPicks(g)
  BY <1>1, <1>2, <1>4 DEF WorkerPicks, Shape, Turns, Lives
<1>5. CASE HandlerReturns(g)
  BY <1>1, <1>2, <1>5 DEF HandlerReturns, Shape, Turns, Lives
<1>6. CASE WorkerSettles(g)
  BY <1>1, <1>2, <1>6 DEF WorkerSettles, Shape, Turns, Lives
<1>7. CASE OrphanReleases(g)
  BY <1>1, <1>2, <1>7 DEF OrphanReleases, Shape, Turns, Lives
<1> QED
  BY <1>3, <1>4, <1>5, <1>6, <1>7 DEF WorkerStep

\* A change of mind counts once, and brings the next threaded init nearer by one at
\* most.
LEMMA FlipTurns ==
    ASSUME IInv, Flip
    PROVE  Turns'
<1>1. flips \in Nat /\ gen \in Nat
  BY TaskSwitchAssumption DEF IInv, Shape
<1>2. UNCHANGED <<impl, mpc, gen, workerContinue>>
  BY DEF Flip, check, life
<1>3. want' = ~want
  BY DEF Flip
<1>4. flips' = flips + 1
  BY DEF Flip
<1>5. StillToCome \in {0, 1, 2} /\ StillToCome' \in {0, 1, 2}
  BY Zenon DEF StillToCome
<1>6. StillToCome' = StillToCome \/ StillToCome' = 1 \/ StillToCome = 1
  BY <1>2, <1>3, Zenon DEF StillToCome
<1>7. 2 * gen <= flips + StillToCome
  BY DEF IInv, Turns
<1> DEFINE n == StillToCome
           m == StillToCome'
<1>8. 2 * gen <= flips + 1 + m
  <2>1. n \in {0, 1, 2} /\ m \in {0, 1, 2} /\ (m = n \/ m = 1 \/ n = 1)
    BY <1>5, <1>6
  <2>2. 2 * gen <= flips + n
    BY <1>7
  <2> HIDE DEF n, m
  <2> QED
    BY <1>1, <2>1, <2>2
<1>9. 2 * gen' <= flips' + StillToCome'
  BY <1>2, <1>4, <1>8
<1> QED
  BY <1>2, <1>9 DEF IInv, Turns

\* The steps of task_queue_check.
LEMMA MainIInv ==
    ASSUME IInv, MainStep \/ Flip
    PROVE  IInv'
<1>0. MaxFlips \in Nat
  BY TaskSwitchAssumption
<1> USE <1>0 DEF IInv, MainGoto, Closing, gate, lists, fields, life, workers, check, clients, begun, history, excuses
<1>1. CASE Flip
  <2>1. WakersExact'
    BY <1>1, CountSame DEF Flip, Counted
  <2>2. Turns'
    BY <1>1, FlipTurns
  <2>3. UNCHANGED <<impl, switching, wakers, gen, refs, propertyLock, pinned, workerContinue,
                    frees, worker, mpc, pc>>
    BY <1>1 DEF Flip
  <2>4. want' \in BOOLEAN /\ flips' \in 0..MaxFlips
    <3>1. want' \in BOOLEAN
      BY <1>1 DEF Flip
    <3>2. flips' \in 0..MaxFlips
      BY <1>1 DEF Flip, Shape
    <3> QED
      BY <3>1, <3>2
  <2>5. Shape'
    BY <2>3, <2>4 DEF Shape
  <2>6. GateHolds' /\ Lives'
    BY <2>3 DEF GateHolds, Lives
  <2> QED
    BY <2>1, <2>2, <2>5, <2>6
<1>2. CASE Check
  <2>1. WakersExact'
    BY <1>2, CountSame DEF Check, Counted
  <2> QED
    BY <1>2, <2>1 DEF Check, Shape, GateHolds, Turns, StillToCome, Lives
<1>3. CASE CountWakers
  <2>1. WakersExact'
    BY <1>3, CountSame DEF CountWakers, Counted
  <2>2. GateHolds'
    BY <1>3, CountSeen DEF CountWakers, Counted, GateHolds
  <2> QED
    BY <1>3, <2>1, <2>2 DEF CountWakers, Shape, Turns, StillToCome, Lives
<1>4. CASE TakeCancels("deinit", "deinit cancels", "stop")
  <2>1. WakersExact'
    BY <1>4, CountSame DEF TakeCancels, Counted
  <2> QED
    BY <1>4, <2>1 DEF TakeCancels, Shape, GateHolds, Turns, StillToCome, Lives
<1>5. CASE TakeCancels("take", "gather cancels", "run")
  <2>1. WakersExact'
    BY <1>5, CountSame DEF TakeCancels, Counted
  <2> QED
    BY <1>5, <2>1 DEF TakeCancels, Shape, GateHolds, Turns, StillToCome, Lives
<1>6. CASE ApplyCancel
  BY <1>6, RelevantUnchanged DEF ApplyCancel, Relevant
<1>7. CASE CancelsMade("deinit cancels", "stop")
  <2>1. WakersExact'
    BY <1>7, CountSame DEF CancelsMade, Counted
  <2> QED
    BY <1>7, <2>1 DEF CancelsMade, Shape, GateHolds, Turns, StillToCome, Lives
<1>8. CASE CancelsMade("gather cancels", "run")
  <2>1. WakersExact'
    BY <1>8, CountSame DEF CancelsMade, Counted
  <2> QED
    BY <1>8, <2>1 DEF CancelsMade, Shape, GateHolds, Turns, StillToCome, Lives
<1>9. CASE DeinitRegular
  <2>1. WakersExact'
    BY <1>9, CountSame DEF DeinitRegular, Counted
  <2> QED
    BY <1>9, <2>1 DEF DeinitRegular, Shape, GateHolds, Turns, StillToCome, Lives, Through
<1>10. CASE DeinitStops
  <2>1. WakersExact'
    BY <1>10, CountSame DEF DeinitStops, Counted
  <2> QED
    BY <1>10, <2>1 DEF DeinitStops, Shape, GateHolds, Turns, StillToCome, Lives
<1>11. CASE LeaveBehind
  <2>1. WakersExact'
    BY <1>11, CountSame DEF LeaveBehind, Counted
  <2>2. gen \in Generations /\ impl = "threaded"
    BY <1>11, ThreadedGeneration DEF LeaveBehind, Turns
  <2>3. Shape'
    BY <1>11, <2>2 DEF LeaveBehind, Shape, Lives
  <2>4. GateHolds'
    BY <1>11 DEF LeaveBehind, GateHolds, Through
  <2>5. Turns'
    BY <1>11, <2>2 DEF LeaveBehind, Shape, Turns, StillToCome
  <2>6. Lives'
    BY <1>11, <2>2 DEF LeaveBehind, Shape, Lives
  <2> QED
    BY <2>1, <2>3, <2>4, <2>5, <2>6
<1>12. CASE ReleaseLeft
  <2>1. WakersExact'
    BY <1>12, CountSame DEF ReleaseLeft, Counted
  <2>2. gen \in Generations /\ impl = "threaded"
    BY <1>12, ThreadedGeneration DEF ReleaseLeft, Turns
  <2>3. Shape'
    BY <1>12, <2>2 DEF ReleaseLeft, Shape, Lives
  <2>4. GateHolds'
    BY <1>12 DEF ReleaseLeft, GateHolds, Through
  <2>5. Turns'
    BY <1>12, <2>2 DEF ReleaseLeft, Shape, Turns, StillToCome
  <2>6. Lives'
    BY <1>12, <2>2 DEF ReleaseLeft, Shape, Lives
  <2> QED
    BY <2>1, <2>3, <2>4, <2>5, <2>6
<1>13. CASE JoinWorker
  <2>1. WakersExact'
    BY <1>13, CountSame DEF JoinWorker, Counted
  <2>2. gen \in Generations /\ impl = "threaded"
    BY <1>13, ThreadedGeneration DEF JoinWorker, Turns
  <2>3. Shape'
    <3>1. refs[gen] = 1 /\ frees[gen] = 0
      BY <1>13, <2>2 DEF JoinWorker, Lives
    <3>2. refs' \in [Generations -> Nat] /\ frees' \in [Generations -> Nat]
      BY <1>13, <2>2, <3>1 DEF JoinWorker, Shape
    <3>3. propertyLock' \in BOOLEAN
      BY <1>13 DEF JoinWorker, Shape
    <3> QED
      BY <1>13, <3>2, <3>3 DEF JoinWorker, Shape
  <2>4. GateHolds'
    BY <1>13 DEF JoinWorker, GateHolds, Through
  <2>5. Turns'
    BY <1>13, <2>2 DEF JoinWorker, Shape, Turns, StillToCome
  <2>6. Lives'
    <3> SUFFICES ASSUME NEW g \in Generations
                 PROVE  IF g > gen THEN worker'[g] = "off" /\ refs'[g] = 0 /\ frees'[g] = 0
                        ELSE \/ worker'[g] = "gone" /\ refs'[g] = 0 /\ frees'[g] = 1
                             \/ worker'[g] \in {"orphaned", "cleanup"} /\ refs'[g] = 1
                                   /\ frees'[g] = 0 /\ pinned
      BY <1>13 DEF JoinWorker, Lives
    <3>1. CASE g = gen
      BY <1>13, <2>2, <3>1 DEF JoinWorker, Shape, Lives
    <3>2. CASE g # gen
      BY <1>13, <2>2, <3>2 DEF JoinWorker, Shape, Lives
    <3> QED
      BY <3>1, <3>2
  <2> QED
    BY <2>1, <2>3, <2>4, <2>5, <2>6
<1>14. CASE InitRegular
  <2>1. WakersExact'
    BY <1>14, CountSame DEF InitRegular, Counted
  <2> QED
    BY <1>14, <2>1 DEF InitRegular, Shape, GateHolds, Turns, StillToCome, Lives, Through
<1>15. CASE InitThreaded
  <2>1. WakersExact'
    BY <1>15, CountSame DEF InitThreaded, Counted
  <2>2. GateHolds' /\ Turns'
    BY <1>15 DEF InitThreaded, Shape, GateHolds, Turns, StillToCome, Through
  <2>3. gen + 1 \in Generations
    BY <1>15, GenerationsSuffice DEF InitThreaded, Shape, Turns, StillToCome
  <2>4. Shape'
    <3>1. /\ refs' \in [Generations -> Nat] /\ gen' \in Nat
          /\ worker' \in [Generations -> {"off", "idle", "handler", "settle", "exited",
                                          "orphaned", "cleanup", "gone"}]
      BY <1>15, <2>3 DEF InitThreaded, Shape
    <3>2. propertyLock' \in BOOLEAN /\ switching' \in BOOLEAN /\ workerContinue' \in BOOLEAN
      BY <1>15 DEF InitThreaded
    <3> QED
      BY <1>15, <3>1, <3>2 DEF InitThreaded, Shape
  <2>5. Lives'
    <3>1. impl # "threaded" /\ mpc' # "release"
      BY <1>15 DEF InitThreaded, Turns, StillToCome
    <3>2. ASSUME NEW g \in Generations, g > gen + 1
          PROVE  worker'[g] = "off" /\ refs'[g] = 0 /\ frees'[g] = 0
      BY <1>15, <3>2 DEF InitThreaded, Shape, Lives, Generations
    <3>3. worker'[gen + 1] = "idle" /\ refs'[gen + 1] = 1 /\ frees'[gen + 1] = 0
      BY <1>15, <2>3 DEF InitThreaded, Shape, Lives
    <3>4. ASSUME NEW g \in Generations, g <= gen
          PROVE  \/ worker'[g] = "gone" /\ refs'[g] = 0 /\ frees'[g] = 1
                 \/ worker'[g] \in {"orphaned", "cleanup"} /\ refs'[g] = 1
                       /\ frees'[g] = 0 /\ pinned'
      BY <1>15, <3>1, <3>4 DEF InitThreaded, Shape, Lives, Generations
    <3>5. gen' = gen + 1 /\ gen' >= 1 /\ impl' = "threaded" /\ propertyLock'
      BY <1>15 DEF InitThreaded, Shape
    <3>6. \A g \in Generations : g > gen + 1 \/ g = gen + 1 \/ g <= gen
      BY DEF Shape, Generations
    <3>7. \A g \in Generations : g <= gen => ~(g > gen + 1) /\ g # gen + 1
      BY DEF Shape, Generations
    <3> QED
      BY <3>1, <3>2, <3>3, <3>4, <3>5, <3>6, <3>7 DEF Lives
  <2> QED
    BY <2>1, <2>2, <2>4, <2>5
<1>16. CASE InitFails
  <2>1. WakersExact'
    BY <1>16, CountSame DEF InitFails, Counted
  <2>2. Shape'
    BY <1>16 DEF InitFails, Shape
  <2>3. GateHolds'
    BY <1>16 DEF InitFails, GateHolds, Through
  <2>4. Turns'
    BY <1>16 DEF InitFails, Shape, Turns, StillToCome
  <2>5. Lives'
    BY <1>16 DEF InitFails, Shape, Turns, StillToCome, Lives
  <2> QED
    BY <2>1, <2>2, <2>3, <2>4, <2>5
<1>17. CASE SnapDeferred
  <2>1. WakersExact'
    BY <1>17, CountSame DEF SnapDeferred, Counted
  <2> QED
    BY <1>17, <2>1 DEF SnapDeferred, Shape, GateHolds, Turns, StillToCome, Lives
<1>18. CASE PushHeld
  BY <1>18, RelevantUnchanged DEF PushHeld, Relevant
<1>19. CASE CutHeld
  <2>1. WakersExact'
    BY <1>19, CountSame DEF CutHeld, Counted
  <2> QED
    BY <1>19, <2>1 DEF CutHeld, Shape, GateHolds, Turns, StillToCome, Lives
<1>20. CASE RetireRefused
  <2>1. WakersExact'
    BY <1>20, CountSame DEF RetireRefused, Counted
  <2> QED
    BY <1>20, <2>1 DEF RetireRefused, Shape, GateHolds, Turns, StillToCome, Lives
<1>21. CASE GatherThreaded
  <2>1. WakersExact'
    BY <1>21, CountSame DEF GatherThreaded, Counted
  <2> QED
    BY <1>21, <2>1 DEF GatherThreaded, Shape, GateHolds, Turns, StillToCome, Lives
<1>22. CASE GatherRegular
  <2>1. WakersExact'
    BY <1>22, CountSame DEF GatherRegular, Counted
  <2> QED
    BY <1>22, <2>1 DEF GatherRegular, Shape, GateHolds, Turns, StillToCome, Lives
<1> QED
  BY <1>1, <1>2, <1>3, <1>4, <1>5, <1>6, <1>7, <1>8, <1>9, <1>10, <1>11, <1>12, <1>13, <1>14, <1>15, <1>16, <1>17, <1>18, <1>19, <1>20, <1>21, <1>22 DEF MainStep

\* The invariant holds throughout, whatever the constants.
THEOREM Invariance == Spec => []IInv
<1>1. IInv /\ [Next]_vars => IInv'
  <2> SUFFICES ASSUME IInv, [Next]_vars PROVE IInv'
    OBVIOUS
  <2>1. CASE MainStep \/ Flip
    BY <2>1, MainIInv
  <2>2. CASE \E o \in Clients : Begin(o) \/ ClientStep(o) \/ DeferFails(o)
    BY <2>2, ClientIInv
  <2>3. CASE \E g \in Generations : WorkerStep(g)
    BY <2>3, WorkerIInv
  <2>4. CASE \E t \in Tasks : Horizon(t)
    BY <2>4, RelevantUnchanged DEF Horizon, Relevant, gate, life, workers, check, clients
  <2>5. CASE UNCHANGED vars
    BY <2>5, RelevantUnchanged DEF vars, Relevant, gate, life, workers, check, clients
  <2> QED
    BY <2>1, <2>2, <2>3, <2>4, <2>5 DEF Next
<1> QED
  BY <1>1, InitIInv, PTL DEF Spec

\* A thread other than the driving one that task_wake_gate_enter let in finds the
\* threaded runner up until it leaves: no deinit begins, its worker was not told to
\* stop and its primitives were not freed.
THEOREM GateKeepsRunnerUp == Spec => []RunnerStaysUp
<1>1. IInv => RunnerStaysUp
  <2> SUFFICES ASSUME IInv, NEW o \in Clients, pc[o] = "direct"
               PROVE  /\ impl = "threaded" /\ workerContinue /\ frees[gen] = 0
                      /\ mpc \notin {"deinit", "stop", "stopping", "release"}
    BY DEF RunnerStaysUp
  <2>1. impl = "threaded" /\ mpc \notin Closing
    BY DEF IInv, GateHolds, Through
  <2>2. workerContinue
    BY <2>1 DEF IInv, Turns, StillToCome, Closing
  <2>3. gen \in Generations
    BY <2>1, GenerationsSuffice DEF IInv, Shape, Turns, StillToCome, Lives
  <2>4. frees[gen] = 0
    BY <2>1, <2>3 DEF IInv, Shape, Lives
  <2> QED
    BY <2>1, <2>2, <2>4 DEF Closing
<1> QED
  BY <1>1, Invariance, PTL

\* A generation's primitives are freed once, after its worker's last use of them,
\* also when retro_task_threaded_deinit leaves that worker behind.
THEOREM GenerationFreedLast == Spec => []GenerationOutlives
<1>1. IInv => GenerationOutlives
  BY DEF IInv, Shape, Lives, GenerationOutlives, Generations
<1> QED
  BY <1>1, Invariance, PTL

(***************************************************************************)
(* The lists, as the sets of their entries.                                *)
(***************************************************************************)
\* A set of naturals that is not empty has a least member.
LEMMA LeastNat ==
    ASSUME NEW T \in SUBSET Nat, T # {}
    PROVE  /\ Min(T) \in T
           /\ \A y \in T : Min(T) <= y
<1>1. PICK x \in T : \A y \in T : ~ (<<y, x>> \in OpToRel(<, Nat))
  BY NatLessThanWellFounded, WFMin, Zenon
<1>2. ASSUME NEW y \in T PROVE x <= y
  <2>1. x \in Nat /\ y \in Nat
    OBVIOUS
  <2>2. ~ (y < x)
    BY <2>1, <1>1 DEF OpToRel
  <2> QED
    BY <2>1, <2>2, SMT
<1> QED
  BY <1>2, Zenon DEF Min

\* An entry of a sequence is the value at one of its positions.
LEMMA Occurs ==
    ASSUME NEW S, NEW s \in Seq(S), NEW x
    PROVE  x \in ToSet(s) <=> \E i \in 1..Len(s) : s[i] = x
BY DEF ToSet

\* The empty list has none.
LEMMA NoEntries == <<>> \in Seq(Tasks) /\ ToSet(<<>>) = {}
BY EmptySeq DEF ToSet

\* The end of a list takes one entry ...
LEMMA Appended ==
    ASSUME NEW s \in Seq(Tasks), NEW t \in Tasks
    PROVE  Append(s, t) \in Seq(Tasks) /\ ToSet(Append(s, t)) = ToSet(s) \cup {t}
<1>1. /\ Append(s, t) \in Seq(Tasks) /\ Len(Append(s, t)) = Len(s) + 1
      /\ \A i \in 1..Len(s) : Append(s, t)[i] = s[i]
      /\ Append(s, t)[Len(s) + 1] = t /\ Len(s) \in Nat
  BY AppendProperties, LenProperties
<1>2. ASSUME NEW x PROVE x \in ToSet(Append(s, t)) <=> x \in ToSet(s) \cup {t}
  <2> DEFINE r == Append(s, t)
  <2> HIDE DEF r
  <2>1. r \in Seq(Tasks) /\ Len(r) = Len(s) + 1 /\ r[Len(s) + 1] = t
        /\ \A i \in 1..Len(s) : r[i] = s[i]
    BY <1>1 DEF r
  <2>2. x \in ToSet(r) <=> \E i \in 1..Len(r) : r[i] = x
    BY <2>1, Occurs
  <2>3. x \in ToSet(s) <=> \E i \in 1..Len(s) : s[i] = x
    BY Occurs
  <2>4. (\E i \in 1..Len(r) : r[i] = x) <=> (x = t \/ \E i \in 1..Len(s) : s[i] = x)
    BY <1>1, <2>1
  <2> QED
    BY <2>2, <2>3, <2>4 DEF r
<1> QED
  BY <1>1, <1>2

\* ... and so does its head.
LEMMA Prepended ==
    ASSUME NEW s \in Seq(Tasks), NEW t \in Tasks, NEW r, r = <<t>> \o s
    PROVE  /\ r \in Seq(Tasks) /\ Len(r) = Len(s) + 1
           /\ r[1] = t /\ \A i \in 1..Len(s) : r[i + 1] = s[i]
           /\ ToSet(r) = ToSet(s) \cup {t}
<1>1. <<t>> \in Seq(Tasks) /\ Len(<<t>>) = 1 /\ <<t>>[1] = t /\ Len(s) \in Nat
  BY LenProperties
<1>2. /\ r \in Seq(Tasks) /\ Len(r) = 1 + Len(s)
      /\ \A i \in 1..(1 + Len(s)) : r[i] = IF i <= 1 THEN <<t>>[i] ELSE s[i - 1]
  BY <1>1, ConcatProperties
<1>3. r[1] = t /\ \A i \in 1..Len(s) : r[i + 1] = s[i]
  BY <1>1, <1>2
<1>4. ASSUME NEW x PROVE x \in ToSet(r) <=> x \in ToSet(s) \cup {t}
  <2>1. x \in ToSet(r) <=> \E i \in 1..Len(r) : r[i] = x
    BY <1>2, Occurs
  <2>2. x \in ToSet(s) <=> \E i \in 1..Len(s) : s[i] = x
    BY Occurs
  <2>3. (\E i \in 1..Len(r) : r[i] = x) <=> (x = t \/ \E i \in 1..Len(s) : s[i] = x)
    <3>1. ASSUME NEW i \in 1..Len(r), r[i] = x PROVE x = t \/ \E k \in 1..Len(s) : s[k] = x
      <4>1. CASE i = 1
        BY <1>3, <3>1, <4>1
      <4>2. CASE i # 1
        <5>1. i - 1 \in 1..Len(s) /\ (i - 1) + 1 = i
          BY <1>1, <1>2, <4>2
        <5>2. s[i - 1] = x
          BY <1>3, <3>1, <5>1
        <5> QED
          BY <5>1, <5>2
      <4> QED
        BY <4>1, <4>2
    <3>2. ASSUME NEW i \in 1..Len(s), s[i] = x PROVE \E k \in 1..Len(r) : r[k] = x
      <4>1. i + 1 \in 1..Len(r)
        BY <1>1, <1>2
      <4> QED
        BY <4>1, <1>3, <3>2
    <3>3. 1 \in 1..Len(r)
      BY <1>1, <1>2
    <3> QED
      BY <1>3, <3>1, <3>2, <3>3
  <2> QED
    BY <2>1, <2>2, <2>3
<1>5. ToSet(r) = ToSet(s) \cup {t}
  BY <1>4, Zenon
<1>6. r \in Seq(Tasks) /\ Len(r) = Len(s) + 1
  <2>1. Len(r) = 1 + Len(s) /\ Len(s) \in Nat
    BY <1>1, <1>2, Zenon
  <2>2. Len(r) = Len(s) + 1
    <3> DEFINE m == Len(r)
               n == Len(s)
    <3>1. m = 1 + n /\ n \in Nat
      BY <2>1
    <3> HIDE DEF m, n
    <3>2. m = n + 1
      BY <3>1
    <3> QED
      BY <3>2 DEF m, n
  <2> QED
    BY <1>2, <2>2, Zenon
<1> QED
  BY <1>3, <1>5, <1>6, Zenon

\* Taking its head leaves the rest.
LEMMA HeadTaken ==
    ASSUME NEW s \in Seq(Tasks), s # <<>>
    PROVE  /\ Head(s) \in Tasks /\ Tail(s) \in Seq(Tasks)
           /\ ToSet(s) = ToSet(Tail(s)) \cup {Head(s)}
<1>1. /\ Head(s) \in Tasks /\ Tail(s) \in Seq(Tasks) /\ Len(Tail(s)) = Len(s) - 1
      /\ \A i \in 1..Len(Tail(s)) : Tail(s)[i] = s[i + 1]
      /\ Len(s) \in Nat \ {0} /\ Head(s) = s[1]
  BY HeadTailProperties, EmptySeq
<1> DEFINE r == Tail(s)
           h == Head(s)
<1> HIDE DEF r, h
<1>2. /\ h \in Tasks /\ r \in Seq(Tasks) /\ Len(r) = Len(s) - 1 /\ h = s[1]
      /\ \A i \in 1..Len(r) : r[i] = s[i + 1]
  BY <1>1 DEF r, h
<1>3. ASSUME NEW x PROVE x \in ToSet(s) <=> x \in ToSet(r) \cup {h}
  <2>1. x \in ToSet(r) <=> \E i \in 1..Len(r) : r[i] = x
    BY <1>2, Occurs
  <2>2. x \in ToSet(s) <=> \E i \in 1..Len(s) : s[i] = x
    BY Occurs
  <2>3. ASSUME NEW i \in 1..Len(s), s[i] = x PROVE x = h \/ \E k \in 1..Len(r) : r[k] = x
    <3>1. CASE i = 1
      BY <1>2, <2>3, <3>1
    <3>2. CASE i # 1
      <4>1. i - 1 \in 1..Len(r) /\ (i - 1) + 1 = i
        BY <1>1, <1>2, <3>2
      <4>2. r[i - 1] = x
        BY <1>2, <2>3, <4>1
      <4> QED
        BY <4>1, <4>2
    <3> QED
      BY <3>1, <3>2
  <2>4. ASSUME NEW i \in 1..Len(r), r[i] = x PROVE \E k \in 1..Len(s) : s[k] = x
    <3>1. i + 1 \in 1..Len(s)
      BY <1>1, <1>2
    <3> QED
      BY <3>1, <1>2, <2>4
  <2>5. 1 \in 1..Len(s)
    BY <1>1
  <2> QED
    BY <1>2, <2>1, <2>2, <2>3, <2>4, <2>5
<1> QED
  BY <1>1, <1>3 DEF r, h

\* What Without computes: the entries that are not in the set.
LEMMA WithoutSet ==
    ASSUME NEW s \in Seq(Tasks), NEW S
    PROVE  Without(s, S) \in Seq(Tasks) /\ ToSet(Without(s, S)) = ToSet(s) \ S
<1> DEFINE N == Len(s)
           Add(r, n) == IF s[n] \in S THEN r ELSE Append(r, s[n])
           Body(g, n) == IF n = 0 THEN <<>> ELSE
                         IF s[n] \in S THEN g[n - 1] ELSE Append(g[n - 1], s[n])
           Built(g, k) == g = [n \in 0..k |-> Body(g, n)]
           kept == CHOOSE g : g = [n \in 0..N |-> Body(g, n)]
<1>0. N \in Nat
  BY LenProperties
<1>1. Without(s, S) = kept[N]
  BY Zenon DEF Without
<1>b. \A g, n : n # 0 => Body(g, n) = Add(g[n - 1], n)
  OBVIOUS
<1>2. \A k \in 0..N : \E g : Built(g, k)
  <2> DEFINE T == {k \in 0..N : ~ \E g : Built(g, k)}
             k == Min(T)
  <2> SUFFICES ASSUME T # {} PROVE FALSE
    OBVIOUS
  <2>1. k \in T /\ \A j \in T : k <= j
    <3>1. T \in SUBSET Nat
      OBVIOUS
    <3> HIDE DEF T
    <3> QED
      BY <3>1, LeastNat
  <2> HIDE DEF k
  <2>2. k \in 0..N /\ ~ \E g : Built(g, k)
    BY <2>1
  <2>3. CASE k = 0
    <3> DEFINE g == [n \in 0..k |-> <<>>]
    <3>1. g = [n \in 0..k |-> Body(g, n)]
      BY <2>3
    <3> QED
      BY <2>2, <3>1
  <2>4. CASE k # 0
    <3>1. k - 1 \in 0..N /\ k - 1 \notin T
      <4> HIDE DEF N, T
      <4> QED BY <1>0, <2>1, <2>2, <2>4
    <3>2. PICK g : Built(g, k - 1)
      BY <3>1
    <3>3. \A n \in 0..(k - 1) : g[n] = Body(g, n)
      <4> HIDE DEF Body
      <4> QED BY <3>2
    <3> DEFINE h == [n \in 0..k |-> IF n = k THEN Add(g[k - 1], k) ELSE g[n]]
    <3> HIDE DEF Add
    <3>4. ASSUME NEW n \in 0..k PROVE h[n] = Body(h, n)
      <4>1. CASE n = 0
        BY <4>1, <2>2, <2>4, <3>3
      <4>2. CASE n # 0
        <5>1. n - 1 \in 0..(k - 1) /\ h[n - 1] = g[n - 1]
          BY <4>2, <2>2
        <5>0. Body(h, n) = Add(h[n - 1], n) /\ Body(g, n) = Add(g[n - 1], n)
          <6> HIDE DEF h, Body
          <6> QED BY <1>b, <4>2
        <5>2. CASE n = k
          <6>1. h[n] = Add(g[n - 1], n)
            BY <5>2
          <6> HIDE DEF h, Body
          <6> QED
            BY <5>0, <5>1, <6>1
        <5>3. CASE n # k
          <6>1. n \in 0..(k - 1) /\ h[n] = g[n]
            BY <5>3, <2>2
          <6> HIDE DEF h, Body
          <6> QED
            BY <5>0, <5>1, <6>1, <3>3
        <5> QED
          BY <5>2, <5>3
      <4> QED
        BY <4>1, <4>2
    <3>5. h = [n \in 0..k |-> Body(h, n)]
      <4>1. h = [n \in 0..k |-> h[n]]
        OBVIOUS
      <4> HIDE DEF h, Body
      <4> QED
        BY <3>4, <4>1, Zenon
    <3> QED
      BY <2>2, <3>5
  <2> QED
    BY <2>3, <2>4
<1>3. kept = [n \in 0..N |-> Body(kept, n)]
  <2>1. \E g : g = [n \in 0..N |-> Body(g, n)]
    <3>1. N \in 0..N
      BY <1>0
    <3> HIDE DEF N, Body
    <3> QED
      BY <3>1, <1>2, Zenon
  <2> HIDE DEF Body
  <2> QED
    BY <2>1, Zenon
<1> HIDE DEF kept
<1>4. /\ kept[0] = <<>>
      /\ \A n \in 1..N : kept[n] = Add(kept[n - 1], n)
  <2>1. \A n \in 0..N : kept[n] = Body(kept, n)
    <3> HIDE DEF Body
    <3> QED BY <1>3
  <2>2. Body(kept, 0) = <<>>
    OBVIOUS
  <2> HIDE DEF Add, Body
  <2> QED
    BY <1>0, <1>b, <2>1, <2>2
<1> DEFINE First(n) == {s[j] : j \in 1..n}
           Good(n) == kept[n] \in Seq(Tasks) /\ ToSet(kept[n]) = First(n) \ S
<1>5. \A n \in 0..N : Good(n)
  <2> DEFINE T == {n \in 0..N : ~ Good(n)}
             n == Min(T)
  <2> SUFFICES ASSUME T # {} PROVE FALSE
    OBVIOUS
  <2>1. n \in T /\ \A j \in T : n <= j
    <3>1. T \in SUBSET Nat
      OBVIOUS
    <3> HIDE DEF T
    <3> QED
      BY <3>1, LeastNat
  <2> HIDE DEF n
  <2>2. n \in 0..N /\ ~ Good(n)
    BY <2>1
  <2>3. CASE n = 0
    <3>1. kept[n] = <<>> /\ First(n) = {}
      BY <2>3, <1>4
    <3> QED
      BY <2>2, <3>1, NoEntries
  <2>4. CASE n # 0
    <3>1. n - 1 \in 0..N /\ n - 1 \notin T /\ n \in 1..N
      <4> HIDE DEF N, T
      <4> QED BY <1>0, <2>1, <2>2, <2>4
    <3>2. Good(n - 1) /\ s[n] \in Tasks
      BY <3>1, ElementOfSeq
    <3>3. First(n) = First(n - 1) \cup {s[n]}
      BY <3>1
    <3>4. kept[n] = Add(kept[n - 1], n)
      BY <1>4, <3>1
    <3>5. CASE s[n] \in S
      <4>1. kept[n] = kept[n - 1]
        BY <3>4, <3>5
      <4> QED
        BY <2>2, <3>2, <3>3, <3>5, <4>1
    <3>6. CASE s[n] \notin S
      <4>1. kept[n] = Append(kept[n - 1], s[n])
        BY <3>4, <3>6
      <4>2. kept[n] \in Seq(Tasks) /\ ToSet(kept[n]) = ToSet(kept[n - 1]) \cup {s[n]}
        BY <3>2, <4>1, Appended
      <4> QED
        BY <2>2, <3>2, <3>3, <3>6, <4>2
    <3> QED
      BY <3>5, <3>6
  <2> QED
    BY <2>3, <2>4
<1>6. ToSet(s) = First(N)
  BY LenProperties DEF ToSet
<1>7. Good(N)
  <2>1. N \in 0..N
    BY <1>0
  <2> HIDE DEF Good, N
  <2> QED
    BY <1>5, <2>1
<1> HIDE DEF First
<1> QED
  BY <1>1, <1>6, <1>7

\* A task that goes to the back stays in the list.
LEMMA ToBackSet ==
    ASSUME running \in Seq(Tasks), NEW t \in ToSet(running)
    PROVE  ToBack(t) \in Seq(Tasks) /\ ToSet(ToBack(t)) = ToSet(running)
<1>1. t \in Tasks
  BY Occurs, ElementOfSeq
<1>2. Without(running, {t}) \in Seq(Tasks) /\ ToSet(Without(running, {t})) = ToSet(running) \ {t}
  BY WithoutSet
<1>3. /\ ToBack(t) \in Seq(Tasks)
      /\ ToSet(ToBack(t)) = ToSet(Without(running, {t})) \cup {t}
  BY <1>1, <1>2, Appended DEF ToBack
<1> QED
  BY <1>2, <1>3

\* Two lists in one.
LEMMA Concatenated ==
    ASSUME NEW a \in Seq(Tasks), NEW b \in Seq(Tasks)
    PROVE  a \o b \in Seq(Tasks) /\ ToSet(a \o b) = ToSet(a) \cup ToSet(b)
<1> DEFINE r == a \o b
<1>3. /\ r \in Seq(Tasks) /\ Len(r) = Len(a) + Len(b) /\ Len(a) \in Nat /\ Len(b) \in Nat
      /\ \A i \in 1..(Len(a) + Len(b)) : r[i] = IF i <= Len(a) THEN a[i] ELSE b[i - Len(a)]
  BY ConcatProperties, LenProperties
<1> HIDE DEF r
<1>4. ASSUME NEW x PROVE x \in ToSet(r) <=> x \in ToSet(a) \cup ToSet(b)
  <2>1. x \in ToSet(a) <=> \E i \in 1..Len(a) : a[i] = x
    BY Occurs
  <2>2. x \in ToSet(b) <=> \E i \in 1..Len(b) : b[i] = x
    BY Occurs
  <2>3. x \in ToSet(r) <=> \E i \in 1..Len(r) : r[i] = x
    BY <1>3, Occurs
  <2>4. ASSUME NEW i \in 1..Len(r), r[i] = x
        PROVE  (\E k \in 1..Len(a) : a[k] = x) \/ (\E k \in 1..Len(b) : b[k] = x)
    <3>1. CASE i <= Len(a)
      BY <1>3, <2>4, <3>1
    <3>2. CASE ~ (i <= Len(a))
      <4>1. i - Len(a) \in 1..Len(b) /\ r[i] = b[i - Len(a)]
        BY <1>3, <3>2
      <4> QED
        BY <2>4, <4>1
    <3> QED
      BY <3>1, <3>2
  <2>5. ASSUME NEW i \in 1..Len(a), a[i] = x PROVE \E k \in 1..Len(r) : r[k] = x
    <3>1. i \in 1..Len(r) /\ r[i] = a[i]
      BY <1>3
    <3> QED BY <2>5, <3>1
  <2>6. ASSUME NEW i \in 1..Len(b), b[i] = x PROVE \E k \in 1..Len(r) : r[k] = x
    <3>1. i + Len(a) \in 1..Len(r) /\ ~ (i + Len(a) <= Len(a)) /\ (i + Len(a)) - Len(a) = i
      BY <1>3
    <3>2. r[i + Len(a)] = b[i]
      BY <1>3, <3>1
    <3> QED BY <2>6, <3>1, <3>2
  <2> QED
    BY <2>1, <2>2, <2>3, <2>4, <2>5, <2>6
<1> QED
  BY <1>3, <1>4 DEF r

\* Ending every park leaves the same tasks in the list.
LEMMA JoinedSet ==
    ASSUME running \in Seq(Tasks), parked \subseteq ToSet(running),
           NEW r, r = Without(running, parked) \o Without(running, Tasks \ parked)
    PROVE  r \in Seq(Tasks) /\ ToSet(r) = ToSet(running)
<1> DEFINE a == Without(running, parked)
           b == Without(running, Tasks \ parked)
<1>1. a \in Seq(Tasks) /\ ToSet(a) = ToSet(running) \ parked
  BY WithoutSet
<1>2. b \in Seq(Tasks) /\ ToSet(b) = ToSet(running) \ (Tasks \ parked)
  BY WithoutSet
<1>3. r = a \o b
  OBVIOUS
<1> HIDE DEF a, b
<1>4. r \in Seq(Tasks) /\ ToSet(r) = ToSet(a) \cup ToSet(b)
  <2>1. a \o b \in Seq(Tasks) /\ ToSet(a \o b) = ToSet(a) \cup ToSet(b)
    BY <1>1, <1>2, Concatenated
  <2> QED
    BY <1>3, <2>1, Zenon
<1>5. ToSet(running) \subseteq Tasks
  BY ElementOfSeq, LenProperties DEF ToSet
<1> QED
  BY <1>1, <1>2, <1>4, <1>5

\* The part of the list that ran goes behind the rest, and nothing is lost.
LEMMA RotatedSet ==
    ASSUME running \in Seq(Tasks), NEW n \in 0..Len(running)
    PROVE  LET ran  == SubSeq(running, 1, n)
               rest == SubSeq(running, n + 1, Len(running))
           IN  /\ rest \o ran \in Seq(Tasks) /\ ToSet(rest \o ran) = ToSet(running)
               /\ ToSet(ran) \subseteq ToSet(running)
<1> DEFINE m == Len(running)
           ran  == SubSeq(running, 1, n)
           rest == SubSeq(running, n + 1, m)
<1>1. m \in Nat /\ n \in Nat /\ n <= m /\ \A i \in 1..m : running[i] \in Tasks
  BY LenProperties, ElementOfSeq
<1>2. /\ ran \in Seq(Tasks) /\ Len(ran) = n
      /\ \A i \in 1..n : ran[i] = running[i]
  <2>1. /\ ran \in Seq(Tasks)
        /\ Len(ran) = IF 1 <= n THEN n - 1 + 1 ELSE 0
        /\ \A i \in 1..(n - 1 + 1) : ran[i] = running[1 + i - 1]
    BY <1>1, SubSeqProperties
  <2> QED
    BY <1>1, <2>1
<1>3. /\ rest \in Seq(Tasks) /\ Len(rest) = m - n
      /\ \A i \in 1..(m - n) : rest[i] = running[n + i]
  <2>1. /\ rest \in Seq(Tasks)
        /\ Len(rest) = IF n + 1 <= m THEN m - (n + 1) + 1 ELSE 0
        /\ \A i \in 1..(m - (n + 1) + 1) : rest[i] = running[(n + 1) + i - 1]
    BY <1>1, SubSeqProperties
  <2> QED
    BY <1>1, <2>1
<1>4. \A x : x \in ToSet(running) <=> \E i \in 1..m : running[i] = x
  BY Occurs
<1> HIDE DEF m, ran, rest
<1>5. \A x : x \in ToSet(ran) <=> \E i \in 1..n : ran[i] = x
  BY <1>2, Occurs
<1>6. \A x : x \in ToSet(rest) <=> \E i \in 1..(m - n) : rest[i] = x
  BY <1>3, Occurs
<1>7. rest \o ran \in Seq(Tasks) /\ ToSet(rest \o ran) = ToSet(rest) \cup ToSet(ran)
  BY <1>2, <1>3, Concatenated
<1>8. ToSet(ran) \subseteq ToSet(running) /\ ToSet(rest) \subseteq ToSet(running)
  <2>1. \A i \in 1..n : i \in 1..m
    BY <1>1
  <2>2. \A i \in 1..(m - n) : n + i \in 1..m
    BY <1>1
  <2> QED
    BY <1>2, <1>3, <1>4, <1>5, <1>6, <2>1, <2>2
<1>9. ToSet(running) \subseteq ToSet(rest) \cup ToSet(ran)
  <2> SUFFICES ASSUME NEW i \in 1..m PROVE running[i] \in ToSet(rest) \cup ToSet(ran)
    BY <1>4
  <2>1. CASE i <= n
    BY <1>1, <1>2, <1>5, <2>1
  <2>2. CASE ~ (i <= n)
    <3>1. i - n \in 1..(m - n) /\ n + (i - n) = i
      BY <1>1, <2>2
    <3> QED
      BY <1>3, <1>6, <3>1
  <2> QED
    BY <2>1, <2>2
<1> QED
  BY <1>7, <1>8, <1>9 DEF ran, rest, m

\* The task a worker picks is due.
LEMMA PickedDue ==
    ASSUME running \in Seq(Tasks),
           NEW i, i = SelectInSeq(running, LAMBDA t : t \notin parked), i # 0
    PROVE  running[i] \in ToSet(running) \ parked
<1> DEFINE I == {k \in 1..Len(running) : running[k] \notin parked}
<1>1. I # {} /\ I \in SUBSET Nat
  BY DEF SelectInSeq
<1>2. Min(I) \in I
  <2> HIDE DEF I
  <2> QED BY <1>1, LeastNat
<1>3. i = Min(I)
  BY <1>1 DEF SelectInSeq
<1>4. i \in 1..Len(running) /\ running[i] \notin parked
  BY <1>2, <1>3
<1> QED
  BY <1>4, Occurs

(***************************************************************************)
(* What a step that leaves a part's variables alone keeps of it.           *)
(***************************************************************************)
\* Where a cancel of a task need not look for it any more.
Safe == cancelled \cup done \cup ended \cup Left

\* The lists hold what they held.
LEMMA ContentsStay ==
    ASSUME Contents,
           UNCHANGED <<impl, deferred, cancels, running, fifo, refused, nodes, entered,
                       snap, at, held>>
    PROVE  Contents'
BY DEF Contents

\* Every client is where it was, and the tasks that are known stay so.
LEMMA WhereStays ==
    ASSUME Where, UNCHANGED <<pc, at, after>>, Known \subseteq Known'
    PROVE  Where'
BY DEF Where, Call

\* A task is where it was; a cancel or an end may have been noted.
LEMMA PlacedStays ==
    ASSUME Placed, UNCHANGED <<entered, running, finished,
                               retiring, ended, refused, worker, held, parked>>,
           cancelled \subseteq cancelled', done \subseteq done'
    PROVE  Placed'
BY DEF Placed, Left

\* The held pushes are those they were.
LEMMA HeldStays ==
    ASSUME HeldInOrder, UNCHANGED <<deferred, fifo, snap>>, Past' = Past,
           mpc = "drain" => mpc' = "drain"
    PROVE  HeldInOrder'
BY DEF HeldInOrder, Drained, IsPush

\* No push was made or took effect.
LEMMA PushedStay ==
    ASSUME PushedOnce, UNCHANGED <<entered, pushed, asked, pc, at>>, Past' = Past,
           Known' = Known
    PROVE  PushedOnce'
BY DEF PushedOnce, Made, IsPush

\* A cancel on its way stays so, or its task needs it no longer.
LEMMA CancelsStay ==
    ASSUME CancelsKept, UNCHANGED <<pc, at, after, asked, cancels, nodes>>,
           Past \subseteq Past', Safe \subseteq Safe',
           \/ UNCHANGED mpc
           \/ mpc \notin {"deinit cancels", "gather cancels"}
    PROVE  CancelsKept'
BY DEF CancelsKept, Safe, Call

\* No park was begun or ended, and no wake.
LEMMA ParksStay ==
    ASSUME ParksEnd, UNCHANGED <<park, running, worker, held, impl, parked, switching,
                                 ready, pc, at, woken>>,
           entered \subseteq entered', done \subseteq done', Excused \subseteq Excused'
    PROVE  ParksEnd'
<1>1. \A t : AboutToPark(t)' => AboutToPark(t)
  BY DEF AboutToPark
<1>2. \A t : Waking(t) => Waking(t)'
  BY DEF Waking, Call
<1> QED
  BY <1>1, <1>2 DEF ParksEnd

\* At the start nothing was called.
LEMMA InitLInv == Init => LInv
<1> SUFFICES ASSUME Init PROVE LInv
  OBVIOUS
<1>0. <<>> \in Seq(Tasks) /\ ToSet(<<>>) = {} /\ Len(<<>>) = 0
  BY NoEntries
<1>1. Contents
  BY <1>0 DEF Init, Contents
<1>2. Where
  <2>1. \A o \in Clients : at[o] = 0 /\ pc[o] = "idle" /\ Len(Program[o]) \in Nat
    BY TaskSwitchAssumption, LenProperties DEF Init
  <2> QED
    BY <2>1 DEF Where
<1>3. Placed
  <2>1. \A g \in Generations : worker[g] \in {"idle", "off"}
    BY DEF Init
  <2> QED
    BY <1>0, <2>1 DEF Init, Placed
<1>4. HeldInOrder
  BY <1>0 DEF Init, HeldInOrder, IsInjective, Drained
<1>5. Past = {} /\ Known = {}
  BY <1>0 DEF Init, Past, Known
<1>6. PushedOnce
  <2>1. \A o \in Clients : at[o] = 0 /\ pc[o] = "idle"
    BY DEF Init
  <2>2. pushed = {} /\ asked = {} /\ entered = {}
    BY DEF Init
  <2>3. ASSUME NEW o \in Clients, NEW i \in 1..Len(Program[o])
        PROVE  ~ Made(o, i)
    BY <2>1 DEF Made
  <2> QED
    BY <1>5, <2>1, <2>2, <2>3 DEF PushedOnce
<1>7. CancelsKept
  BY DEF Init, CancelsKept
<1>8. ParksEnd
  BY DEF Init, ParksEnd
<1> QED
  BY <1>1, <1>2, <1>3, <1>4, <1>6, <1>7, <1>8 DEF LInv

(***************************************************************************)
(* The clients.                                                            *)
(***************************************************************************)
\* A client that is in a call is in one of its program's.
LEMMA InCall ==
    ASSUME Contents, Where, NEW o \in Clients, pc[o] # "idle"
    PROVE  /\ at[o] \in 1..Len(Program[o]) /\ Call(o) \in Calls /\ Call(o) = Program[o][at[o]]
           /\ Call(o).task \in Tasks /\ Call(o).call \in {"push", "cancel", "wake"}
<1>1. Program[o] \in Seq(Calls)
  BY TaskSwitchAssumption
<1>2. at[o] \in 1..Len(Program[o])
  BY <1>1, LenProperties DEF Contents, Where
<1>3. Call(o) \in Calls
  BY <1>1, <1>2, ElementOfSeq DEF Call
<1> QED
  BY <1>2, <1>3 DEF Calls, Call

\* A task is pushed in one place.
LEMMA PushedInOnePlace ==
    ASSUME NEW o \in Clients, NEW p \in Clients, NEW i, NEW j, IsPush(o, i), IsPush(p, j),
           Program[o][i].task = Program[p][j].task
    PROVE  o = p /\ i = j
<1>1. Program[o] \in Seq(Calls) /\ Program[p] \in Seq(Calls)
  BY TaskSwitchAssumption
<1>2. i \in 1..Len(Program[o]) /\ j \in 1..Len(Program[p])
  BY DEF IsPush
<1>3. Program[o][i] \in Calls /\ Program[p][j] \in Calls
  BY <1>1, <1>2, ElementOfSeq
<1>4. Program[o][i].call = "push" /\ Program[p][j].call = "push"
  BY DEF IsPush
<1>5. Program[p][j] = Program[o][i]
  BY <1>3, <1>4 DEF Calls
<1> QED
  BY <1>2, <1>4, <1>5, TaskSwitchAssumption

\* A step that only moves a client keeps every part but those that say where it is.
LEMMA MoveKeeps ==
    ASSUME LInv, UNCHANGED <<impl, lists, fields, workers, check, begun, history>>
    PROVE  Contents' /\ Placed' /\ HeldInOrder' /\ Known' = Known /\ Past' = Past
<1> USE DEF LInv, lists, fields, workers, check, begun, history
<1>1. Known' = Known /\ Past' = Past
  BY DEF Known, Past
<1>2. Contents'
  BY ContentsStay
<1>3. Placed'
  BY PlacedStays
<1>4. HeldInOrder'
  BY <1>1, HeldStays
<1> QED
  BY <1>1, <1>2, <1>3, <1>4

\* The calls wait at the gate, pass it or are turned away, and go on to the runner
\* or to the held ones.
LEMMA GateLInv ==
    ASSUME IInv, LInv, NEW o \in Clients,
           GateLook(o) \/ GateCount(o) \/ GateRelook(o) \/ Inside(o)
    PROVE  LInv'
<1> USE DEF LInv
<1>0. UNCHANGED <<impl, switching, lists, fields, workers, check, begun, history, excuses>>
  BY DEF GateLook, GateCount, GateRelook, Inside, gate
<1>1. Contents' /\ Placed' /\ HeldInOrder' /\ Known' = Known /\ Past' = Past
  BY <1>0, MoveKeeps
<1> DEFINE x == pc'[o]
<1>2. /\ \A p \in Clients : pc'[p] = IF p = o THEN x ELSE pc[p]
      /\ pc[o] \in {"look", "count", "relook", "inside"}
  BY DEF IInv, Shape, GateLook, GateCount, GateRelook, Inside, ClientGoto
<1>3. /\ at[o] \in 1..Len(Program[o]) /\ Call(o) = Program[o][at[o]]
      /\ Call(o).call \in {"push", "cancel", "wake"}
  BY <1>2, InCall
<1>4. /\ x \in {"idle", "defer", "count", "relook", "inside", "direct", "hold", "leave"}
      /\ x = "idle" => Call(o).call = "wake" /\ switching
      /\ x = "defer" => Call(o).call # "wake"
      /\ x = "hold" => Call(o).call = "push"
      /\ x = "leave" => Call(o).call # "push" /\ (Call(o).call = "wake" => impl # "threaded")
      /\ x = "direct" => deferred = <<>> \/ Call(o).call = "wake"
  <2>1. CASE GateLook(o)
    BY <1>3, <2>1 DEF GateLook, ClientGoto, TurnedAway, IInv, Shape
  <2>2. CASE GateCount(o)
    BY <1>3, <2>2 DEF GateCount, ClientGoto, IInv, Shape
  <2>3. CASE GateRelook(o)
    BY <1>3, <2>3 DEF GateRelook, ClientGoto, TurnedAway, IInv, Shape
  <2>4. CASE Inside(o)
    BY <1>3, <2>4 DEF Inside, ClientGoto, IInv, Shape
  <2> QED
    BY <2>1, <2>2, <2>3, <2>4
<1> HIDE DEF x
<1>5. UNCHANGED <<at, ready, after, pushed, asked, entered, ended, cancels, nodes, mpc,
                  deferred, cancelled, done, park, parked, woken, running, worker, held,
                  leftParked, keptParked>>
  BY <1>0 DEF begun, history, lists, check, fields, workers, excuses
<1>6. deferred = <<>> => Known = Past
  BY DEF Known, ToSet
<1>7. \A p : Call(p)' = Call(p)
  BY <1>5 DEF Call
<1>8. Where'
  BY <1>1, <1>2, <1>3, <1>4, <1>5, <1>7 DEF Where
<1>9. PushedOnce'
  <2>1. \A p \in Clients : \A i \in 1..Len(Program[p]) :
           IsPush(p, i) => (Made(p, i)' <=> Made(p, i))
    <3> TAKE p \in Clients
    <3> TAKE i \in 1..Len(Program[p])
    <3> HAVE IsPush(p, i)
    <3>1. CASE p # o
      BY <1>2, <1>5, <3>1 DEF Made
    <3>2. CASE p = o
      BY <1>2, <1>3, <1>4, <1>5, <3>2 DEF Made, IsPush
    <3> QED
      BY <3>1, <3>2
  <2>2. ASSUME NEW p \in Clients, NEW i \in 1..Len(Program[p]), NEW j \in 1..Len(Program[p]),
               IsPush(p, i), IsPush(p, j), i < j,
               Program[p][j].task \in entered \/ (pc'[p] = "direct" /\ at[p] = j)
        PROVE  Program[p][i].task \in Past
    <3>1. CASE Program[p][j].task \in entered
      BY <2>2, <3>1 DEF PushedOnce
    <3>2. CASE pc'[p] = "direct" /\ at[p] = j /\ p # o
      BY <1>2, <2>2, <3>2 DEF PushedOnce
    <3>3. CASE x = "direct" /\ at[o] = j /\ p = o
      <4>1. Call(o).call = "push"
        BY <1>3, <2>2, <3>3 DEF IsPush
      <4>2. Known = Past
        BY <1>4, <1>6, <3>3, <4>1
      <4>3. Made(o, i)
        BY <2>2, <3>3 DEF Made
      <4> QED
        BY <2>2, <3>3, <4>2, <4>3 DEF PushedOnce
    <3> QED
      BY <1>2, <2>2, <3>1, <3>2, <3>3
  <2>3. \A p, i : IsPush(p, i)' <=> IsPush(p, i)
    BY DEF IsPush
  <2> QED
    BY <1>1, <1>5, <2>1, <2>2, <2>3 DEF PushedOnce
<1>10. CancelsKept'
  <2>1. ASSUME o \in after, x = "direct" PROVE Call(o).task \in Past
    <3>1. Call(o).call = "cancel" /\ Call(o).task \in Known
      BY <1>2, <2>1 DEF Where
    <3> QED
      BY <1>4, <1>6, <2>1, <3>1
  <2>2. UNCHANGED <<Left>>
    BY <1>5 DEF Left
  <2> QED
    BY <1>1, <1>2, <1>4, <1>5, <1>7, <2>1, <2>2 DEF CancelsKept
<1>11. ParksEnd'
  <2>1. ASSUME NEW t, Waking(t), impl = "threaded", ~switching PROVE Waking(t)'
    <3>1. PICK p \in Clients : /\ pc[p] \in {"look", "count", "relook", "inside", "direct"}
                               /\ Call(p) = [call |-> "wake", task |-> t]
      BY <2>1 DEF Waking
    <3>2. CASE p # o
      BY <1>2, <1>7, <3>1, <3>2 DEF Waking
    <3>3. CASE p = o
      <4>1. Call(o).call = "wake"
        BY <3>1, <3>3
      <4>2. x \in {"count", "relook", "inside", "direct"}
        BY <1>4, <2>1, <4>1
      <4> QED
        BY <1>2, <1>7, <3>1, <3>3, <4>2 DEF Waking
    <3> QED
      BY <3>2, <3>3
  <2>2. \A t : AboutToPark(t)' <=> AboutToPark(t)
    BY <1>5 DEF AboutToPark
  <2>3. Excused' = Excused /\ impl' = impl /\ switching' = switching
    BY <1>0, <1>5 DEF Excused
  <2> QED
    BY <1>5, <2>1, <2>2, <2>3 DEF ParksEnd
<1> QED
  BY <1>1, <1>8, <1>9, <1>10, <1>11

\* A call begins.
LEMMA BeginLInv ==
    ASSUME IInv, LInv, NEW o \in Clients, Begin(o)
    PROVE  LInv'
<1> USE DEF LInv
<1> DEFINE c == Program[o][at[o] + 1]
<1>0. UNCHANGED <<impl, switching, lists, fields, workers, check, history, excuses>>
  BY DEF Begin, gate
<1>1. UNCHANGED <<pushed, asked, entered, ended, cancels, nodes, mpc, running, finished,
                  retiring, deferred, cancelled, done, park, parked, woken, worker, held, fifo,
                  snap,
                  refused, leftParked, keptParked>>
  BY <1>0 DEF history, lists, check, fields, workers, excuses
<1>2. /\ at[o] < Len(Program[o]) /\ pc[o] = "idle" /\ at[o] \in Nat
      /\ \A p \in Clients : pc'[p] = IF p = o THEN "look" ELSE pc[p]
      /\ \A p \in Clients : at'[p] = IF p = o THEN at[o] + 1 ELSE at[p]
      /\ at' \in [Clients -> Nat]
      /\ ready' = IF c.call = "wake" THEN ready \cup {c.task} ELSE ready
      /\ after' = IF c.call = "cancel" /\ c.task \in pushed THEN after \cup {o}
                                                            ELSE after \ {o}
  BY DEF Begin, ClientGoto, IInv, Shape, Contents
<1>3. Program[o] \in Seq(Calls) /\ Len(Program[o]) \in Nat /\ at[o] + 1 \in 1..Len(Program[o])
  BY <1>2, TaskSwitchAssumption, LenProperties
<1>4. c \in Calls
  BY <1>3, ElementOfSeq
<1>5. Call(o)' = c /\ \A p \in Clients : p # o => Call(p)' = Call(p)
  BY <1>2 DEF Call
<1>6. Known' = Known /\ Past' = Past
  BY <1>1 DEF Known, Past
<1>7. Contents'
  BY <1>0, <1>1, <1>2 DEF Contents
<1> HIDE DEF c
<1>8. Where'
  <2>1. pushed \subseteq Known
    BY DEF PushedOnce
  <2>2. at'[o] <= Len(Program[o]) /\ at'[o] # 0
    BY <1>2, <1>3
  <2>3. o \in after' => c.call = "cancel" /\ c.task \in Known
    BY <1>2, <2>1
  <2>4. \A p : p # o => (p \in after' <=> p \in after)
    BY <1>2
  <2> QED
    BY <1>2, <1>5, <1>6, <2>2, <2>3, <2>4 DEF Where
<1>9. Placed'
  BY <1>1, PlacedStays
<1>10. HeldInOrder'
  BY <1>1, <1>6, HeldStays
<1>11. PushedOnce'
  <2>1. \A p \in Clients : \A i \in 1..Len(Program[p]) : Made(p, i)' <=> Made(p, i)
    <3> TAKE p \in Clients
    <3> TAKE i \in 1..Len(Program[p])
    <3>1. CASE p # o
      BY <1>2, <3>1 DEF Made
    <3>2. CASE p = o
      <4>1. (i < at[o] + 1) <=> (i < at[o] \/ i = at[o])
        BY <1>2, <3>2
      <4> QED
        BY <1>2, <3>2, <4>1 DEF Made
    <3> QED
      BY <3>1, <3>2
  <2>2. \A p, i : IsPush(p, i)' <=> IsPush(p, i)
    BY DEF IsPush
  <2>3. \A p \in Clients : pc'[p] = "direct" => pc[p] = "direct" /\ at'[p] = at[p]
    BY <1>2
  <2> QED
    BY <1>1, <1>6, <2>1, <2>2, <2>3 DEF PushedOnce
<1>12. CancelsKept'
  <2>1. Left' = Left
    BY <1>1 DEF Left
  <2>2. \A p : p # o => (p \in after' <=> p \in after)
    BY <1>2
  <2> QED
    BY <1>1, <1>2, <1>5, <1>6, <2>1, <2>2 DEF CancelsKept
<1>13. ParksEnd'
  <2>1. ASSUME NEW t, Waking(t) PROVE Waking(t)'
    <3>1. PICK p \in Clients : /\ pc[p] \in {"look", "count", "relook", "inside", "direct"}
                               /\ Call(p) = [call |-> "wake", task |-> t]
      BY <2>1 DEF Waking
    <3> QED
      BY <1>2, <1>5, <3>1 DEF Waking
  <2>2. ASSUME NEW t \in ready', t \notin ready PROVE Waking(t)'
    <3>1. c.call = "wake" /\ t = c.task
      BY <1>2, <2>2
    <3>2. c = [call |-> "wake", task |-> t]
      BY <1>4, <3>1 DEF Calls
    <3> QED
      BY <1>2, <1>5, <3>2 DEF Waking
  <2>3. \A t : AboutToPark(t)' <=> AboutToPark(t)
    BY <1>1 DEF AboutToPark
  <2>4. Excused' = Excused /\ impl' = impl /\ switching' = switching
    BY <1>0, <1>1 DEF Excused
  <2> QED
    BY <1>1, <2>1, <2>2, <2>3, <2>4 DEF ParksEnd
<1> QED
  BY <1>7, <1>8, <1>9, <1>10, <1>11, <1>12, <1>13

\* A cancel that could not be recorded leaves no trace.
LEMMA DeferFailsLInv ==
    ASSUME IInv, LInv, NEW o \in Clients, DeferFails(o)
    PROVE  LInv'
<1> USE DEF LInv
<1>0. UNCHANGED <<impl, switching, lists, fields, workers, check, begun, history, excuses>>
  BY DEF DeferFails, gate
<1>1. Contents' /\ Placed' /\ HeldInOrder' /\ Known' = Known /\ Past' = Past
  BY <1>0, MoveKeeps
<1>2. /\ pc[o] = "defer" /\ Call(o).call = "cancel"
      /\ \A p \in Clients : pc'[p] = IF p = o THEN "idle" ELSE pc[p]
  BY DEF DeferFails, ClientGoto, IInv, Shape
<1>3. UNCHANGED <<at, ready, after, pushed, asked, entered, ended, cancels, nodes, mpc,
                  deferred, cancelled, done, park, parked, woken, running, worker, held,
                  leftParked, keptParked>>
  BY <1>0 DEF begun, history, lists, check, fields, workers, excuses
<1>4. \A p : Call(p)' = Call(p)
  BY <1>3 DEF Call
<1>5. Where'
  BY <1>1, <1>2, <1>3, <1>4 DEF Where
<1>6. PushedOnce'
  <2>1. \A p \in Clients : \A i \in 1..Len(Program[p]) :
           IsPush(p, i) => (Made(p, i)' <=> Made(p, i))
    BY <1>2, <1>3 DEF Made, IsPush, Call
  <2>2. \A p, i : IsPush(p, i)' <=> IsPush(p, i)
    BY DEF IsPush
  <2> QED
    BY <1>1, <1>2, <1>3, <2>1, <2>2 DEF PushedOnce
<1>7. CancelsKept'
  <2>1. Left' = Left
    BY <1>3 DEF Left
  <2> QED
    BY <1>1, <1>2, <1>3, <1>4, <2>1 DEF CancelsKept
<1>8. ParksEnd'
  <2>1. \A t : Waking(t) => Waking(t)'
    BY <1>2, <1>4 DEF Waking
  <2>2. \A t : AboutToPark(t)' <=> AboutToPark(t)
    BY <1>3 DEF AboutToPark
  <2>3. Excused' = Excused /\ impl' = impl /\ switching' = switching
    BY <1>0, <1>3 DEF Excused
  <2> QED
    BY <1>3, <2>1, <2>2, <2>3 DEF ParksEnd
<1> QED
  BY <1>1, <1>5, <1>6, <1>7, <1>8

\* A call that reached the runner, or that was held inside the gate, returns, and a
\* cancel that did not goes on to be held.
LEMMA LeaveLInv ==
    ASSUME IInv, LInv, NEW o \in Clients, Leave(o)
    PROVE  LInv'
<1> USE DEF LInv
<1>0. UNCHANGED <<impl, switching, lists, fields, workers, check, begun, entered, ended,
                  excuses>>
  BY DEF Leave
<1>1. UNCHANGED <<at, ready, after, entered, ended, cancels, nodes, mpc, finished,
                  retiring, fifo, snap, refused, deferred, cancelled, done, park, parked, woken,
                  running,
                  worker, held, leftParked, keptParked>>
  BY <1>0 DEF begun, lists, check, fields, workers, excuses
<1> DEFINE x == pc'[o]
<1>2. /\ pc[o] \in {"leave", "leave1"}
      /\ \A p \in Clients : pc'[p] = IF p = o THEN x ELSE pc[p]
      /\ \/ /\ x = "defer" /\ pc[o] = "leave" /\ Call(o).call = "cancel"
            /\ UNCHANGED <<pushed, asked>>
         \/ /\ x = "idle" /\ (pc[o] = "leave" => Call(o).call # "cancel")
            /\ Returned(o)
  BY DEF Leave, IInv, Shape
<1> HIDE DEF x
<1>3. /\ at[o] \in 1..Len(Program[o]) /\ Call(o) = Program[o][at[o]]
      /\ Call(o).call \in {"push", "cancel", "wake"}
  BY <1>2, InCall
<1>4. \A p : Call(p)' = Call(p)
  BY <1>1 DEF Call
<1>5. Known' = Known /\ Past' = Past
  BY <1>1 DEF Known, Past
<1>6. Contents'
  BY <1>0, <1>1, ContentsStay
<1>7. Placed'
  BY <1>1, PlacedStays
<1>8. HeldInOrder'
  BY <1>1, <1>5, HeldStays
<1>9. Where'
  BY <1>1, <1>2, <1>4, <1>5 DEF Where
<1>10. o \in after /\ x = "idle" => pc[o] = "leave1" /\ Call(o).task \in Known
  BY <1>2 DEF Where
<1>11. PushedOnce'
  <2>1. \A p \in Clients : \A i \in 1..Len(Program[p]) :
           IsPush(p, i) => (Made(p, i)' <=> Made(p, i))
    <3> TAKE p \in Clients
    <3> TAKE i \in 1..Len(Program[p])
    <3> HAVE IsPush(p, i)
    <3>1. CASE p # o
      BY <1>1, <1>2, <3>1 DEF Made
    <3>2. CASE p = o
      BY <1>1, <1>2, <1>3, <3>2 DEF Made, IsPush, Where
    <3> QED
      BY <3>1, <3>2
  <2>2. \A p, i : IsPush(p, i)' <=> IsPush(p, i)
    BY DEF IsPush
  <2>3. pushed' \subseteq Known
    <3>1. CASE UNCHANGED pushed
      BY <3>1 DEF PushedOnce
    <3>2. CASE Call(o).call = "push" /\ pushed' = pushed \cup {Call(o).task}
      <4>1. pc[o] = "leave1" /\ IsPush(o, at[o]) /\ Made(o, at[o])
        BY <1>2, <1>3, <3>2 DEF Where, IsPush, Made
      <4> QED
        BY <1>3, <3>2, <4>1 DEF PushedOnce
    <3> QED
      BY <1>2, <3>1, <3>2 DEF Returned
  <2>4. asked' \subseteq Known
    BY <1>2, <1>10 DEF Returned, PushedOnce
  <2>5. \A p \in Clients : pc'[p] = "direct" => pc[p] = "direct"
    BY <1>2
  <2> QED
    BY <1>1, <1>5, <2>1, <2>2, <2>3, <2>4, <2>5 DEF PushedOnce
<1>12. CancelsKept'
  <2>1. Left' = Left
    BY <1>1 DEF Left
  <2>2. asked' \subseteq asked \cup (cancelled \cup done \cup ended \cup Left)
    BY <1>2, <1>10 DEF Returned, CancelsKept
  <2>3. \A p \in Clients : pc'[p] \in {"direct", "leave1"} => pc[p] = pc'[p]
    BY <1>2
  <2> QED
    BY <1>1, <1>2, <1>4, <1>5, <2>1, <2>2, <2>3 DEF CancelsKept
<1>13. ParksEnd'
  <2>1. \A t : Waking(t) => Waking(t)'
    BY <1>2, <1>4 DEF Waking
  <2>2. \A t : AboutToPark(t)' <=> AboutToPark(t)
    BY <1>1 DEF AboutToPark
  <2>3. Excused' = Excused /\ impl' = impl /\ switching' = switching
    BY <1>0, <1>1 DEF Excused
  <2> QED
    BY <1>1, <2>1, <2>2, <2>3 DEF ParksEnd
<1> QED
  BY <1>6, <1>7, <1>8, <1>9, <1>11, <1>12, <1>13

\* A push that has not taken effect is nowhere.
LEMMA NotYetKnown ==
    ASSUME LInv, NEW o \in Clients, pc[o] \in {"direct", "hold", "defer"},
           Call(o).call = "push"
    PROVE  /\ IsPush(o, at[o]) /\ Call(o) = Program[o][at[o]] /\ at[o] \in Nat
           /\ Call(o).task \in Tasks /\ Call(o).task \notin Known /\ ~ Made(o, at[o])
           /\ o \notin after
<1>1. /\ at[o] \in 1..Len(Program[o]) /\ Call(o) = Program[o][at[o]]
      /\ Call(o).task \in Tasks
  BY InCall DEF LInv
<1>2. IsPush(o, at[o])
  BY <1>1 DEF IsPush
<1>3. at[o] \in Nat
  BY DEF LInv, Contents
<1>4. ~ Made(o, at[o])
  BY <1>3 DEF Made
<1>5. o \notin after
  BY DEF LInv, Where
<1> QED
  BY <1>1, <1>2, <1>3, <1>4, <1>5 DEF LInv, PushedOnce

\* Once it has taken effect, it is the one push that has, and nothing else has.
LEMMA MadeNow ==
    ASSUME LInv, NEW o \in Clients, pc[o] \in {"direct", "hold", "defer"},
           Call(o).call = "push", UNCHANGED at,
           NEW x \in {"idle", "leave1"},
           \A p \in Clients : pc'[p] = IF p = o THEN x ELSE pc[p],
           Known' = Known \cup {Call(o).task}
    PROVE  \A p \in Clients : \A i \in 1..Len(Program[p]) :
              IsPush(p, i) => (Program[p][i].task \in Known' <=> Made(p, i)')
<1> DEFINE t == Call(o).task
<1>1. /\ IsPush(o, at[o]) /\ t = Program[o][at[o]].task /\ at[o] \in Nat
      /\ t \notin Known /\ ~ Made(o, at[o])
  BY NotYetKnown
<1> HIDE DEF t
<1>2. Known' = Known \cup {t}
  BY DEF t
<1> TAKE p \in Clients
<1> TAKE i \in 1..Len(Program[p])
<1> HAVE IsPush(p, i)
<1>3. CASE p = o /\ i = at[o]
  BY <1>1, <1>2, <1>3 DEF Made
<1>4. CASE ~ (p = o /\ i = at[o])
  <2>1. Program[p][i].task # t
    BY <1>1, <1>4, PushedInOnePlace
  <2>2. Made(p, i)' <=> Made(p, i)
    BY <1>4 DEF Made
  <2> QED
    BY <1>2, <2>1, <2>2 DEF LInv, PushedOnce
<1> QED
  BY <1>3, <1>4

\* task_queue_defer puts a push before those that are held.
LEMMA HeldNow ==
    ASSUME LInv, NEW o \in Clients, pc[o] \in {"hold", "defer"}, Call(o).call = "push",
           deferred' = <<Call(o).task>> \o deferred,
           UNCHANGED <<fifo, snap, mpc, refused, entered, ended>>
    PROVE  /\ deferred' \in Seq(Tasks) /\ Known' = Known \cup {Call(o).task} /\ Past' = Past
           /\ HeldInOrder'
<1> DEFINE t == Call(o).task
<1>1. /\ IsPush(o, at[o]) /\ t = Program[o][at[o]].task /\ at[o] \in Nat
      /\ t \in Tasks /\ t \notin Known /\ ~ Made(o, at[o])
  BY NotYetKnown
<1>2. /\ deferred' \in Seq(Tasks) /\ Len(deferred') = Len(deferred) + 1
      /\ deferred'[1] = t /\ \A k \in 1..Len(deferred) : deferred'[k + 1] = deferred[k]
      /\ ToSet(deferred') = ToSet(deferred) \cup {t}
  <2>1. deferred \in Seq(Tasks)
    BY DEF LInv, Contents
  <2> DEFINE Put(r, y, s) == /\ r \in Seq(Tasks) /\ Len(r) = Len(s) + 1
                             /\ r[1] = y /\ \A k \in 1..Len(s) : r[k + 1] = s[k]
                             /\ ToSet(r) = ToSet(s) \cup {y}
  <2>2. \A s \in Seq(Tasks), y \in Tasks : \A r : r = <<y>> \o s => Put(r, y, s)
    BY Prepended, Zenon
  <2>3. t \in Tasks /\ deferred' = <<t>> \o deferred
    BY <1>1
  <2>4. Put(deferred', t, deferred)
    <3> HIDE DEF Put
    <3> QED BY <2>1, <2>2, <2>3, Zenon
  <2> QED
    BY <2>4, Zenon
<1> HIDE DEF t
<1>3. Past' = Past /\ Known' = Known \cup {t}
  BY <1>2 DEF Past, Known
<1>4. /\ Len(deferred) \in Nat /\ Len(fifo) \in Nat /\ snap \in Nat
      /\ DOMAIN deferred = 1..Len(deferred) /\ DOMAIN deferred' = 1..Len(deferred')
  BY <1>2, LenProperties DEF LInv, Contents
<1>5. \A k \in 1..Len(deferred') : \/ k = 1
                                   \/ k - 1 \in 1..Len(deferred) /\ deferred'[k] = deferred[k - 1]
  <2> TAKE k \in 1..Len(deferred')
  <2>1. CASE k # 1
    <3>1. k - 1 \in 1..Len(deferred) /\ (k - 1) + 1 = k
      BY <1>2, <1>4, <2>1
    <3> QED
      BY <1>2, <3>1
  <2> QED
    BY <2>1
<1>6. \A k \in 1..Len(deferred) : deferred[k] # t
  BY <1>1, Occurs DEF Known, LInv, Contents
<1>7. Drained \in Nat /\ Drained' = Drained + 1 /\ Drained <= Len(deferred)
      /\ Len(fifo) <= Drained
  BY <1>2, <1>4 DEF Drained, LInv, HeldInOrder
<1>8. IsInjective(deferred')
  <2>1. \A j, k \in 1..Len(deferred) : deferred[j] = deferred[k] => j = k
    BY <1>4 DEF LInv, HeldInOrder, IsInjective
  <2>2. ASSUME NEW j \in 1..Len(deferred'), NEW k \in 1..Len(deferred'),
               deferred'[j] = deferred'[k]
        PROVE  j = k
    <3>1. CASE j = 1 /\ k # 1
      BY <1>2, <1>5, <1>6, <2>2, <3>1
    <3>2. CASE k = 1 /\ j # 1
      BY <1>2, <1>5, <1>6, <2>2, <3>2
    <3>3. CASE k # 1 /\ j # 1
      <4>1. k - 1 = j - 1
        BY <1>5, <2>1, <2>2, <3>3
      <4> QED
        BY <1>2, <1>4, <4>1
    <3> QED
      BY <3>1, <3>2, <3>3
  <2> QED
    BY <1>4, <2>2 DEF IsInjective
<1>9. ASSUME NEW k \in 1..Len(fifo)
      PROVE  fifo[k] = deferred'[Drained' - k + 1]
  <2>1. /\ Drained - k + 1 \in 1..Len(deferred)
        /\ Drained' - k + 1 = (Drained - k + 1) + 1
    BY <1>4, <1>7
  <2>2. fifo[k] = deferred[Drained - k + 1]
    BY DEF LInv, HeldInOrder
  <2> HIDE DEF Drained
  <2> QED
    BY <1>2, <2>1, <2>2
<1>10. ASSUME NEW k \in 1..Len(deferred')
       PROVE  deferred'[k] \in Past <=> k > Drained'
  <2>1. CASE k = 1
    BY <1>1, <1>2, <1>7, <2>1 DEF Known
  <2>2. CASE k # 1
    <3>1. deferred[k - 1] \in Past <=> k - 1 > Drained
      BY <1>5, <2>2 DEF LInv, HeldInOrder
    <3> QED
      BY <1>2, <1>4, <1>5, <1>7, <2>2, <3>1
  <2> QED
    BY <2>1, <2>2
<1>11. ASSUME NEW p \in Clients, NEW i \in 1..Len(Program[p]), NEW j \in 1..Len(Program[p]),
              NEW a \in 1..Len(deferred'), NEW b \in 1..Len(deferred'),
              IsPush(p, i), deferred'[a] = Program[p][i].task,
              IsPush(p, j), deferred'[b] = Program[p][j].task,
              i < j
       PROVE  b < a
  <2>0. i # j
    <3>1. i \in Nat /\ j \in Nat
      BY TaskSwitchAssumption, LenProperties
    <3> QED
      BY <1>11, <3>1
  <2>1. a # b
    BY <1>11, <2>0, PushedInOnePlace
  <2>2. CASE b = 1
    BY <1>2, <1>4, <2>1, <2>2
  <2>3. CASE a = 1 /\ b # 1
    <3>1. p = o /\ i = at[o]
      BY <1>1, <1>2, <1>11, <2>3, PushedInOnePlace
    <3>2. Program[o][j].task \in Known
      BY <1>5, <1>11, <2>3, <3>1, Occurs DEF Known, LInv, Contents
    <3>3. Made(o, j)
      BY <1>11, <3>1, <3>2 DEF LInv, PushedOnce
    <3>4. j = at[o] \/ j < at[o]
      BY <3>3 DEF Made
    <3> QED
      BY <1>1, <1>11, <2>0, <3>1, <3>4
  <2>4. CASE a # 1 /\ b # 1
    <3>1. b - 1 < a - 1
      <4>1. /\ a - 1 \in 1..Len(deferred) /\ deferred[a - 1] = Program[p][i].task
            /\ b - 1 \in 1..Len(deferred) /\ deferred[b - 1] = Program[p][j].task
        BY <1>5, <1>11, <2>4
      <4>2. \A k, l \in 1..Len(deferred) :
               deferred[k] = Program[p][i].task /\ deferred[l] = Program[p][j].task => l < k
        BY <1>11 DEF LInv, HeldInOrder
      <4> QED
        BY <4>1, <4>2
    <3> QED
      BY <1>2, <1>4, <3>1
  <2> QED
    BY <2>2, <2>3, <2>4
<1>12. /\ mpc' # "drain" => fifo' = <<>> /\ snap' = 0
       /\ Len(fifo') <= snap' /\ snap' <= Len(deferred')
  BY <1>2, <1>4 DEF LInv, HeldInOrder
<1>13. \A p, i : IsPush(p, i)' <=> IsPush(p, i)
  BY DEF IsPush
<1>14. fifo' = fifo
  OBVIOUS
<1> HIDE DEF Drained
<1>15. HeldInOrder'
  BY <1>3, <1>8, <1>9, <1>10, <1>11, <1>12, <1>13, <1>14 DEF HeldInOrder
<1> QED
  BY <1>2, <1>3, <1>15 DEF t

\* Holding a push, in the gate or outside it.
LEMMA HoldLInv ==
    ASSUME IInv, LInv, NEW o \in Clients,
           Hold(o) \/ (Defer(o) /\ Call(o).call = "push")
    PROVE  LInv'
<1> USE DEF LInv
<1> DEFINE x == pc'[o]
<1>0. /\ UNCHANGED <<impl, switching, cancels, running, finished,
                     retiring, fields, workers, check, begun, entered, ended, asked, excuses>>
      /\ deferred' = <<Call(o).task>> \o deferred /\ Call(o).call = "push"
      /\ pc[o] \in {"hold", "defer"} /\ x \in {"leave1", "idle"}
      /\ \A p \in Clients : pc'[p] = IF p = o THEN x ELSE pc[p]
      /\ pushed' \subseteq pushed \cup {Call(o).task}
  <2>1. CASE Hold(o)
    BY <2>1 DEF Hold, gate, ClientGoto, IInv, Shape, Where, history
  <2>2. CASE Defer(o) /\ Call(o).call = "push"
    <3>1. o \notin after
      BY <2>2 DEF Defer, ClientGoto, Where
    <3> QED
      BY <2>2, <3>1 DEF Defer, gate, ClientGoto, Returned, IInv, Shape
  <2> QED
    BY <2>1, <2>2
<1> HIDE DEF x
<1>1. UNCHANGED <<at, ready, after, entered, ended, asked, cancels, nodes, mpc, finished,
                  retiring, fifo, snap, refused, cancelled, done, park, parked, woken, running,
                  worker, held, leftParked, keptParked>>
  BY <1>0 DEF begun, check, fields, workers, excuses
<1> DEFINE t == Call(o).task
<1>2. /\ deferred' \in Seq(Tasks) /\ Known' = Known \cup {t} /\ Past' = Past
      /\ HeldInOrder'
  BY <1>0, <1>1, HeldNow
<1>3. \A p \in Clients : \A i \in 1..Len(Program[p]) :
         IsPush(p, i) => (Program[p][i].task \in Known' <=> Made(p, i)')
  BY <1>0, <1>1, <1>2, MadeNow
<1>4. \A p : Call(p)' = Call(p)
  BY <1>1 DEF Call
<1> HIDE DEF t
<1>5. Contents'
  BY <1>0, <1>1, <1>2 DEF Contents
<1>6. Placed'
  BY <1>1, PlacedStays
<1>7. Where'
  BY <1>0, <1>1, <1>2, <1>4 DEF Where
<1>8. PushedOnce'
  <2>1. pushed' \subseteq Known'
    BY <1>0, <1>2 DEF PushedOnce, t
  <2>2. \A p, i : IsPush(p, i)' <=> IsPush(p, i)
    BY DEF IsPush
  <2>3. \A p \in Clients : pc'[p] = "direct" => pc[p] = "direct"
    BY <1>0
  <2> QED
    BY <1>1, <1>2, <1>3, <2>1, <2>2, <2>3 DEF PushedOnce
<1>9. CancelsKept'
  <2>1. Left' = Left
    BY <1>1 DEF Left
  <2>2. o \notin after
    BY <1>0, NotYetKnown
  <2> QED
    BY <1>0, <1>1, <1>2, <1>4, <2>1, <2>2 DEF CancelsKept
<1>10. ParksEnd'
  <2>1. \A y : Waking(y) => Waking(y)'
    BY <1>0, <1>4 DEF Waking
  <2>2. \A y : AboutToPark(y)' <=> AboutToPark(y)
    BY <1>1 DEF AboutToPark
  <2>3. Excused' = Excused /\ impl' = impl /\ switching' = switching
    BY <1>0, <1>1 DEF Excused
  <2> QED
    BY <1>1, <2>1, <2>2, <2>3 DEF ParksEnd
<1> QED
  BY <1>2, <1>5, <1>6, <1>7, <1>8, <1>9, <1>10

\* Holding a cancel.
LEMMA DeferLInv ==
    ASSUME IInv, LInv, NEW o \in Clients, Defer(o), Call(o).call # "push"
    PROVE  LInv'
<1> USE DEF LInv
<1> DEFINE t == Call(o).task
<1>0. /\ UNCHANGED <<impl, switching, deferred, running, finished,
                     retiring, fields, workers, check, begun, entered, ended, pushed, excuses>>
      /\ cancels' = <<t>> \o cancels
      /\ pc[o] = "defer"
      /\ \A p \in Clients : pc'[p] = IF p = o THEN "idle" ELSE pc[p]
      /\ asked' = IF o \in after THEN asked \cup {t} ELSE asked
  BY DEF Defer, gate, ClientGoto, Returned, IInv, Shape
<1>1. UNCHANGED <<at, ready, after, entered, ended, pushed, deferred, nodes, mpc, finished,
                  retiring, fifo, snap, refused, cancelled, done, park, parked, woken, running,
                  worker, held, leftParked, keptParked>>
  BY <1>0 DEF begun, check, fields, workers, excuses
<1>2. at[o] \in 1..Len(Program[o]) /\ Call(o) = Program[o][at[o]] /\ t \in Tasks
  BY <1>0, InCall
<1> HIDE DEF t
<1>3. cancels' \in Seq(Tasks) /\ ToSet(cancels') = ToSet(cancels) \cup {t}
  <2> DEFINE Put(r, y, s) == r \in Seq(Tasks) /\ ToSet(r) = ToSet(s) \cup {y}
  <2>1. \A s \in Seq(Tasks), y \in Tasks : \A r : r = <<y>> \o s => Put(r, y, s)
    BY Prepended, Zenon
  <2>2. cancels \in Seq(Tasks) /\ cancels' = <<t>> \o cancels /\ t \in Tasks
    BY <1>0, <1>2 DEF Contents
  <2>3. Put(cancels', t, cancels)
    <3> HIDE DEF Put
    <3> QED BY <2>1, <2>2, Zenon
  <2> QED
    BY <2>3, Zenon
<1>4. \A p : Call(p)' = Call(p)
  BY <1>1 DEF Call
<1>5. Known' = Known /\ Past' = Past
  BY <1>1 DEF Known, Past
<1>6. Contents'
  BY <1>0, <1>1, <1>3 DEF Contents
<1>7. Placed'
  BY <1>1, PlacedStays
<1>8. Where'
  BY <1>0, <1>1, <1>4, <1>5 DEF Where
<1>9. HeldInOrder'
  BY <1>1, <1>5, HeldStays
<1>10. PushedOnce'
  <2>1. \A p \in Clients : \A i \in 1..Len(Program[p]) :
           IsPush(p, i) => (Made(p, i)' <=> Made(p, i))
    BY <1>0, <1>1, <1>2 DEF Made, IsPush
  <2>2. \A p, i : IsPush(p, i)' <=> IsPush(p, i)
    BY DEF IsPush
  <2>3. o \in after => t \in Known
    BY <1>0 DEF Where, t
  <2>4. asked' \subseteq Known
    BY <1>0, <2>3 DEF PushedOnce
  <2>5. \A p \in Clients : pc'[p] = "direct" => pc[p] = "direct"
    BY <1>0
  <2> QED
    BY <1>1, <1>5, <2>1, <2>2, <2>4, <2>5 DEF PushedOnce
<1>11. CancelsKept'
  <2>1. Left' = Left
    BY <1>1 DEF Left
  <2>2. asked' \subseteq asked \cup ToSet(cancels')
    BY <1>0, <1>3
  <2>3. ToSet(cancels) \subseteq ToSet(cancels')
    BY <1>3
  <2> QED
    BY <1>0, <1>1, <1>4, <1>5, <2>1, <2>2, <2>3 DEF CancelsKept
<1>12. ParksEnd'
  <2>1. \A y : Waking(y) => Waking(y)'
    BY <1>0, <1>4 DEF Waking
  <2>2. \A y : AboutToPark(y)' <=> AboutToPark(y)
    BY <1>1 DEF AboutToPark
  <2>3. Excused' = Excused /\ impl' = impl /\ switching' = switching
    BY <1>0, <1>1 DEF Excused
  <2> QED
    BY <1>1, <2>1, <2>2, <2>3 DEF ParksEnd
<1> QED
  BY <1>6, <1>7, <1>8, <1>9, <1>10, <1>11, <1>12

\* Waking a task that is running.
LEMMA WakeLockedSet ==
    ASSUME Contents, Placed, NEW t \in ToSet(running), WakeLocked(t)
    PROVE  /\ running' \in Seq(Tasks) /\ ToSet(running') = ToSet(running)
           /\ parked' = parked \ {t} /\ woken' = woken \cup {t}
<1>1. ToBack(t) \in Seq(Tasks) /\ ToSet(ToBack(t)) = ToSet(running)
  BY ToBackSet DEF Contents
<1>2. running' = ToBack(t) \/ running' = running
  BY DEF WakeLocked
<1> QED
  BY <1>1, <1>2 DEF WakeLocked, Contents

\* A push reaches the runner.
LEMMA DirectPushLInv ==
    ASSUME IInv, LInv, NEW o \in Clients, Direct(o), Call(o).call = "push"
    PROVE  LInv'
<1> USE DEF LInv
<1> DEFINE t == Call(o).task
<1>0. /\ UNCHANGED <<impl, switching, deferred, cancels, finished,
                     retiring, park, done, workers, check, begun, ended, pushed, asked, excuses,
                     woken, parked, cancelled>>
      /\ running' = Append(running, t) /\ entered' = entered \cup {t}
      /\ pc[o] = "direct"
      /\ \A p \in Clients : pc'[p] = IF p = o THEN "leave1" ELSE pc[p]
  BY DEF Direct, gate, ClientGoto, IInv, Shape
<1>1. UNCHANGED <<at, ready, after, nodes, mpc, fifo, snap, refused, worker, held,
                  leftParked, keptParked>>
  BY <1>0 DEF begun, check, workers, excuses
<1>2. /\ IsPush(o, at[o]) /\ t = Program[o][at[o]].task /\ at[o] \in Nat
      /\ t \in Tasks /\ t \notin Known /\ o \notin after
  BY <1>0, NotYetKnown
<1>p. t \notin Past /\ t \notin ToSet(deferred) /\ t \notin entered
  BY <1>2 DEF Known, Past
<1>3. \A p : Call(p)' = Call(p)
  BY <1>1 DEF Call
<1>4. Known' = Known \cup {t} /\ Past' = Past \cup {t}
  BY <1>0, <1>1 DEF Known, Past
<1>5. \A p \in Clients : \A i \in 1..Len(Program[p]) :
         IsPush(p, i) => (Program[p][i].task \in Known' <=> Made(p, i)')
  BY <1>0, <1>1, <1>4, MadeNow
<1>6. running' \in Seq(Tasks) /\ ToSet(running') = ToSet(running) \cup {t}
  <2>1. running \in Seq(Tasks)
    BY DEF Contents
  <2> HIDE DEF t
  <2> QED
    BY <1>0, <1>2, <2>1, Appended
<1> HIDE DEF t
<1>7. Contents'
  BY <1>0, <1>1, <1>2, <1>6 DEF Contents
<1>8. Where'
  BY <1>0, <1>1, <1>3, <1>4 DEF Where
<1>9. Placed'
  <2>1. Left' = Left
    BY <1>1 DEF Left
  <2>2. t \notin finished \cup retiring
    BY <1>p DEF Placed
  <2>4. /\ finished' \cup retiring' \subseteq entered' \cap done'
        /\ (finished' \cup retiring') \cap ToSet(running') = {} /\ finished' \cap retiring' = {}
    BY <1>0, <1>1, <1>6, <2>2 DEF Placed
  <2>3. \A g \in Generations :
          /\ worker'[g] \in {"handler", "settle"} => held'[g] \in ToSet(running') \ parked'
          /\ worker'[g] \in {"orphaned", "cleanup"} => held'[g] \in entered' \ ToSet(running')
    BY <1>0, <1>1, <1>6, <1>p DEF Placed
  <2> QED
    BY <1>0, <1>1, <1>6, <2>1, <2>3, <2>4 DEF Placed
<1>10. HeldInOrder'
  <2>1. \A k \in 1..Len(deferred) : deferred[k] # t
    BY <1>p, Occurs DEF Contents
  <2>2. \A k \in 1..Len(deferred) : deferred[k] \in Past' <=> deferred[k] \in Past
    BY <1>4, <2>1
  <2>3. Drained' = Drained
    BY <1>0, <1>1 DEF Drained
  <2>4. \A p, i : IsPush(p, i)' <=> IsPush(p, i)
    BY DEF IsPush
  <2> QED
    BY <1>0, <1>1, <2>2, <2>3, <2>4 DEF HeldInOrder
<1>11. PushedOnce'
  <2>1. \A p, i : IsPush(p, i)' <=> IsPush(p, i)
    BY DEF IsPush
  <2>2. ASSUME NEW p \in Clients, NEW i \in 1..Len(Program[p]), NEW j \in 1..Len(Program[p]),
               IsPush(p, i), IsPush(p, j), i < j,
               Program[p][j].task \in entered' \/ (pc'[p] = "direct" /\ at[p] = j)
        PROVE  Program[p][i].task \in Past'
    <3>1. CASE Program[p][j].task = t
      <4>1. p = o /\ j = at[o]
        BY <1>2, <2>2, <3>1, PushedInOnePlace
      <4> QED
        BY <1>0, <1>4, <2>2, <4>1 DEF PushedOnce
    <3>2. CASE Program[p][j].task \in entered \/ (pc'[p] = "direct" /\ at[p] = j)
      BY <1>0, <1>4, <2>2, <3>2 DEF PushedOnce
    <3> QED
      BY <1>0, <2>2, <3>1, <3>2
  <2>3. pushed' \subseteq Known' /\ asked' \subseteq Known'
    BY <1>0, <1>4 DEF PushedOnce
  <2> QED
    BY <1>1, <1>5, <2>1, <2>2, <2>3 DEF PushedOnce
<1>12. CancelsKept'
  <2>1. Left' = Left
    BY <1>1 DEF Left
  <2> QED
    BY <1>0, <1>1, <1>2, <1>3, <1>4, <2>1 DEF CancelsKept
<1>13. ParksEnd'
  <2>0. Call(o).call # "wake"
    OBVIOUS
  <2>1. \A y : Waking(y) => Waking(y)'
    BY <1>0, <1>3, <2>0 DEF Waking
  <2>2. \A y : AboutToPark(y)' <=> AboutToPark(y)
    BY <1>0, <1>1 DEF AboutToPark
  <2>3. Excused' = Excused /\ impl' = impl /\ switching' = switching
    BY <1>0, <1>1 DEF Excused
  <2>4. t \notin park
    BY <1>p DEF ParksEnd
  <2> QED
    BY <1>0, <1>1, <1>6, <2>1, <2>2, <2>3, <2>4 DEF ParksEnd
<1> QED
  BY <1>7, <1>8, <1>9, <1>10, <1>11, <1>12, <1>13

\* A cancel or a wake reaches the runner.
LEMMA DirectLInv ==
    ASSUME IInv, LInv, NEW o \in Clients, Direct(o), Call(o).call # "push"
    PROVE  LInv'
<1> USE DEF LInv
<1> DEFINE t == Call(o).task
<1>0. /\ UNCHANGED <<impl, switching, deferred, cancels, finished,
                     retiring, park, done, workers, check, begun, entered, ended, pushed, asked,
                     excuses>>
      /\ pc[o] = "direct"
      /\ \A p \in Clients : pc'[p] = IF p = o THEN "leave1" ELSE pc[p]
      /\ IF t \in ToSet(running) THEN WakeLocked(t) ELSE UNCHANGED <<running, woken, parked>>
      /\ cancelled' = IF t \in ToSet(running) /\ Call(o).call = "cancel"
                      THEN cancelled \cup {t} ELSE cancelled
  BY DEF Direct, gate, ClientGoto, IInv, Shape
<1>1. UNCHANGED <<at, ready, after, nodes, mpc, fifo, snap, refused, worker, held,
                  leftParked, keptParked>>
  BY <1>0 DEF begun, check, workers, excuses
<1>2. /\ running' \in Seq(Tasks) /\ ToSet(running') = ToSet(running)
      /\ parked' \subseteq parked /\ woken \subseteq woken'
      /\ t \in ToSet(running) => t \notin parked' /\ t \in woken'
  <2>1. CASE t \in ToSet(running)
    BY <1>0, <2>1, WakeLockedSet
  <2>2. CASE t \notin ToSet(running)
    BY <1>0, <2>2 DEF Contents
  <2> QED
    BY <2>1, <2>2
<1>3. at[o] \in 1..Len(Program[o]) /\ Call(o) = Program[o][at[o]] /\ t \in Tasks
  BY <1>0, InCall
<1>4. \A p : Call(p)' = Call(p)
  BY <1>1 DEF Call
<1>5. Known' = Known /\ Past' = Past /\ Left' = Left
  BY <1>0, <1>1 DEF Known, Past, Left
<1>6. cancelled \subseteq cancelled'
  BY <1>0
<1>7. Contents'
  BY <1>0, <1>1, <1>2 DEF Contents
<1>8. Where'
  BY <1>0, <1>1, <1>4, <1>5 DEF Where
<1>9. Placed'
  <2>1. parked' \subseteq ToSet(running')
    BY <1>2 DEF Placed
  <2> QED
    BY <1>0, <1>1, <1>2, <1>5, <1>6, <2>1 DEF Placed
<1>10. HeldInOrder'
  BY <1>0, <1>1, <1>5, HeldStays
<1>11. PushedOnce'
  <2>1. \A p \in Clients : \A i \in 1..Len(Program[p]) :
           IsPush(p, i) => (Made(p, i)' <=> Made(p, i))
    BY <1>0, <1>1, <1>3 DEF Made, IsPush
  <2>2. \A p, i : IsPush(p, i)' <=> IsPush(p, i)
    BY DEF IsPush
  <2>3. \A p \in Clients : pc'[p] = "direct" => pc[p] = "direct"
    BY <1>0
  <2> QED
    BY <1>0, <1>1, <1>5, <2>1, <2>2, <2>3 DEF PushedOnce
<1>12. CancelsKept'
  <2>1. ASSUME o \in after
        PROVE  t \in cancelled' \cup done \cup ended \cup Left
    <3>1. Call(o).call = "cancel" /\ t \in Past
      BY <1>0, <2>1 DEF Where, CancelsKept
    <3>2. CASE t \in ToSet(running)
      BY <1>0, <3>1, <3>2
    <3>3. CASE t \notin ToSet(running)
      BY <1>6, <3>1, <3>3 DEF Past, Placed
    <3> QED
      BY <3>2, <3>3
  <2> HIDE DEF t
  <2>2. \A p \in Clients : p # o => pc'[p] = pc[p]
    BY <1>0
  <2>3. pc'[o] = "leave1" /\ Call(o)'.task = t
    BY <1>0, <1>4 DEF t
  <2> QED
    BY <1>0, <1>1, <1>4, <1>5, <1>6, <2>1, <2>2, <2>3 DEF CancelsKept
<1>13. ParksEnd'
  <2>1. ASSUME NEW y, Waking(y), ~ Waking(y)'
        PROVE  y = t
    <3>1. PICK p \in Clients : /\ pc[p] \in {"look", "count", "relook", "inside", "direct"}
                               /\ Call(p) = [call |-> "wake", task |-> y]
      BY <2>1 DEF Waking
    <3>2. p = o
      BY <1>0, <1>4, <2>1, <3>1 DEF Waking
    <3> QED
      BY <3>1, <3>2
  <2>2. \A y : AboutToPark(y)' => AboutToPark(y)
    BY <1>0, <1>1, <1>2 DEF AboutToPark
  <2>3. Excused' = Excused /\ impl' = impl /\ switching' = switching
    BY <1>0, <1>1 DEF Excused
  <2>4. ASSUME NEW y, y = t PROVE y \notin parked' /\ ~ AboutToPark(y)'
    <3>1. CASE t \in ToSet(running)
      BY <1>2, <2>4, <3>1 DEF AboutToPark
    <3>2. CASE t \notin ToSet(running)
      BY <1>0, <1>1, <2>4, <3>2 DEF AboutToPark, Placed
    <3> QED
      BY <3>1, <3>2
  <2> HIDE DEF t
  <2> QED
    BY <1>0, <1>1, <1>2, <2>1, <2>2, <2>3, <2>4 DEF ParksEnd
<1> QED
  BY <1>7, <1>8, <1>9, <1>10, <1>11, <1>12, <1>13

(***************************************************************************)
(* The workers.                                                            *)
(***************************************************************************)
Live == {"idle", "handler", "settle", "exited"}

\* The worker that runs the queue is the last one, under the threaded runner.
LEMMA OneLive ==
    ASSUME IInv, NEW g \in Generations, worker[g] \in Live
    PROVE  /\ impl = "threaded" /\ mpc # "release"
           /\ \A h \in Generations : worker[h] \in Live => h = g
<1>1. \A h \in Generations : worker[h] \in Live => h = gen /\ impl = "threaded" /\ mpc # "release"
  BY DEF IInv, Lives, Shape, Generations, Live
<1> QED
  BY <1>1

\* A step of a worker leaves the calls alone.
LEMMA WorkerKeeps ==
    ASSUME LInv, UNCHANGED <<impl, switching, deferred, cancels, check, clients, entered,
                             pushed, asked, excuses, refused>>,
           Past' = Past, Safe \subseteq Safe',
           running' \in Seq(Tasks), held' \in [Generations -> Tasks \cup {None}]
    PROVE  /\ Contents' /\ Where' /\ HeldInOrder' /\ PushedOnce' /\ CancelsKept'
           /\ \A t : Waking(t)' <=> Waking(t)
           /\ Excused' = Excused
<1> USE DEF LInv, check, clients, begun, excuses
<1>1. Known' = Known
  BY DEF Known
<1>2. Contents'
  BY DEF Contents
<1>3. Where'
  BY <1>1, WhereStays
<1>4. HeldInOrder'
  BY HeldStays
<1>5. PushedOnce'
  BY <1>1, PushedStay
<1>6. CancelsKept'
  BY CancelsStay
<1>7. \A t : Waking(t)' <=> Waking(t)
  BY DEF Waking, Call
<1>8. Excused' = Excused
  BY DEF Excused
<1> QED
  BY <1>2, <1>3, <1>4, <1>5, <1>6, <1>7, <1>8

\* A worker leaves its loop.
LEMMA WorkerExitsLInv ==
    ASSUME IInv, LInv, NEW g \in Generations, WorkerExits(g)
    PROVE  LInv'
<1> USE DEF LInv
<1>0. /\ worker[g] = "idle"
      /\ \A h \in Generations : worker'[h] = IF h = g THEN "exited" ELSE worker[h]
      /\ UNCHANGED <<impl, switching, lists, fields, held, check, clients, history, excuses>>
  BY DEF WorkerExits, IInv, Shape, gate
<1>1. UNCHANGED <<deferred, cancels, running, finished,
                  retiring, parked, park, woken, cancelled, done, entered, ended, pushed, asked,
                  refused, ready>>
  BY <1>0 DEF lists, fields, history, check, clients, begun
<1>2. Left' = Left
  BY <1>0 DEF Left
<1>3. Past' = Past /\ Safe' = Safe
  BY <1>1, <1>2 DEF Past, Safe
<1>4. running' \in Seq(Tasks) /\ held' \in [Generations -> Tasks \cup {None}]
  BY <1>0, <1>1 DEF Contents
<1>5. /\ Contents' /\ Where' /\ HeldInOrder' /\ PushedOnce' /\ CancelsKept'
      /\ (\A t : Waking(t)' <=> Waking(t)) /\ Excused' = Excused
  BY <1>0, <1>1, <1>3, <1>4, WorkerKeeps
<1>6. Placed'
  BY <1>0, <1>1, <1>2 DEF Placed
<1>7. ParksEnd'
  <2>1. \A t : AboutToPark(t)' <=> AboutToPark(t)
    BY <1>0, <1>1 DEF AboutToPark
  <2>2. \A t \in park \cap ToSet(running) :
           \E h \in Generations : worker'[h] = "settle" /\ held'[h] = t
    BY <1>0 DEF ParksEnd
  <2> QED
    BY <1>0, <1>1, <1>5, <2>1, <2>2 DEF ParksEnd
<1> QED
  BY <1>5, <1>6, <1>7

\* A worker takes a task.
LEMMA WorkerPicksLInv ==
    ASSUME IInv, LInv, NEW g \in Generations, WorkerPicks(g)
    PROVE  LInv'
<1> USE DEF LInv
<1>a. PICK t \in ToSet(running) \ parked :
         /\ worker[g] = "idle"
         /\ worker' = [worker EXCEPT ![g] = "handler"]
         /\ held' = [held EXCEPT ![g] = t]
         /\ woken' = woken \ {t}
  <2> DEFINE i == SelectInSeq(running, LAMBDA y : y \notin parked)
  <2>1. i # 0 /\ worker[g] = "idle" /\ worker' = [worker EXCEPT ![g] = "handler"]
        /\ held' = [held EXCEPT ![g] = running[i]] /\ woken' = woken \ {running[i]}
    BY DEF WorkerPicks
  <2>2. running[i] \in ToSet(running) \ parked
    BY <2>1, PickedDue DEF Contents
  <2> HIDE DEF i
  <2> QED
    BY <2>1, <2>2
<1>0. /\ worker[g] = "idle"
      /\ \A h \in Generations : worker'[h] = IF h = g THEN "handler" ELSE worker[h]
      /\ \A h \in Generations : held'[h] = IF h = g THEN t ELSE held[h]
      /\ UNCHANGED <<impl, switching, lists, parked, park, cancelled, done, check, clients,
                     history, excuses>>
  BY <1>a DEF WorkerPicks, IInv, Shape, Contents, gate
<1>1. UNCHANGED <<deferred, cancels, running, finished, retiring, entered, ended, pushed, asked,
                  refused, ready>>
  BY <1>0 DEF lists, history, check, clients, begun
<1>t. t \in Tasks
  BY <1>a, Occurs, ElementOfSeq DEF Contents
<1>2. Left' = Left
  BY <1>0 DEF Left
<1>3. Past' = Past /\ Safe' = Safe
  BY <1>0, <1>1, <1>2 DEF Past, Safe
<1>4. running' \in Seq(Tasks) /\ held' \in [Generations -> Tasks \cup {None}]
  BY <1>a, <1>t, <1>1 DEF Contents
<1>5. /\ Contents' /\ Where' /\ HeldInOrder' /\ PushedOnce' /\ CancelsKept'
      /\ (\A y : Waking(y)' <=> Waking(y)) /\ Excused' = Excused
  BY <1>0, <1>1, <1>3, <1>4, WorkerKeeps
<1>6. Placed'
  BY <1>0, <1>1, <1>2 DEF Placed
<1>7. \A h \in Generations : worker[h] # "settle" /\ worker'[h] # "settle"
  BY <1>0, OneLive DEF Live
<1>8. ParksEnd'
  <2>1. \A y : ~ AboutToPark(y)' /\ ~ AboutToPark(y)
    BY <1>7 DEF AboutToPark
  <2>2. park \cap ToSet(running) = {}
    BY <1>7 DEF ParksEnd
  <2> QED
    BY <1>0, <1>1, <1>5, <2>1, <2>2 DEF ParksEnd
<1> QED
  BY <1>5, <1>6, <1>8

\* A handler returns.
LEMMA HandlerReturnsLInv ==
    ASSUME IInv, LInv, NEW g \in Generations, HandlerReturns(g)
    PROVE  LInv'
<1> USE DEF LInv
<1> DEFINE t == held[g]
<1>0. /\ worker[g] \in {"handler", "orphaned"}
      /\ \A h \in Generations :
            worker'[h] = IF h = g THEN IF worker[g] = "handler" THEN "settle" ELSE "cleanup"
                                  ELSE worker[h]
      /\ \/ Finishes(t) /\ done' = done \cup {t} /\ UNCHANGED park
         \/ Parks(t) /\ park' = park \cup {t} /\ UNCHANGED done
         \/ GoesOn(t) /\ UNCHANGED <<done, park>>
      /\ UNCHANGED <<impl, switching, lists, parked, woken, cancelled, held, check, clients,
                     history, excuses>>
  BY DEF HandlerReturns, IInv, Shape, gate
<1>1. UNCHANGED <<deferred, cancels, running, finished, retiring, entered, ended, pushed, asked,
                  refused, ready>>
  BY <1>0 DEF lists, history, check, clients, begun
<1>2. Left' = Left
  BY <1>0 DEF Left
<1>d. done \subseteq done'
  BY <1>0
<1>3. Past' = Past /\ Safe \subseteq Safe'
  BY <1>0, <1>1, <1>2, <1>d DEF Past, Safe
<1>4. running' \in Seq(Tasks) /\ held' \in [Generations -> Tasks \cup {None}]
  BY <1>0, <1>1 DEF Contents
<1>5. /\ Contents' /\ Where' /\ HeldInOrder' /\ PushedOnce' /\ CancelsKept'
      /\ (\A y : Waking(y)' <=> Waking(y)) /\ Excused' = Excused
  BY <1>0, <1>1, <1>3, <1>4, WorkerKeeps
<1>6. Placed'
  BY <1>0, <1>1, <1>2, <1>d DEF Placed
<1>7. t \in entered
  BY <1>0 DEF Placed
<1>8. ParksEnd'
  <2>1. CASE worker[g] = "handler"
    <3>1. \A h \in Generations : worker[h] # "settle"
      BY <2>1, OneLive DEF Live
    <3>2. park \cap ToSet(running) = {}
      BY <3>1 DEF ParksEnd
    <3>3. t \in ToSet(running)
      BY <2>1 DEF Placed
    <3>4. \A y \in park' \cap ToSet(running) : y = t
      BY <1>0, <3>2
    <3>5. worker'[g] = "settle" /\ held'[g] = t
      BY <1>0, <2>1
    <3>6. ASSUME NEW y, AboutToPark(y)' PROVE y = t /\ Parks(t)
      <4>1. y = t /\ t \in park' \ done'
        BY <1>0, <3>1, <3>6 DEF AboutToPark
      <4> QED
        BY <1>0, <3>2, <3>3, <4>1
    <3>7. \A y \in ready : ~ AboutToPark(y)'
      BY <3>6 DEF Parks
    <3>8. \A y : ~ AboutToPark(y)
      BY <3>1 DEF AboutToPark
    <3> HIDE DEF t
    <3> QED
      BY <1>0, <1>1, <1>5, <1>7, <3>4, <3>5, <3>7, <3>8 DEF ParksEnd
  <2>2. CASE worker[g] = "orphaned"
    <3>1. t \notin ToSet(running)
      BY <2>2 DEF Placed
    <3>2. \A h \in Generations : worker'[h] = "settle" <=> worker[h] = "settle"
      BY <1>0, <2>2
    <3>3. \A y \in ToSet(running) : y \in park' <=> y \in park
      BY <1>0, <3>1
    <3>4. ASSUME NEW y, AboutToPark(y)' PROVE AboutToPark(y)
      <4>1. PICK h \in Generations : worker[h] = "settle" /\ held[h] = y
                                     /\ y \in park' \ (woken \cup done')
        BY <1>0, <3>2, <3>4 DEF AboutToPark
      <4>2. y \in ToSet(running)
        BY <4>1 DEF Placed
      <4> QED
        BY <1>d, <3>3, <4>1, <4>2 DEF AboutToPark
    <3>5. park' \subseteq entered
      BY <1>0, <1>7 DEF ParksEnd
    <3> QED
      BY <1>0, <1>1, <1>5, <3>2, <3>3, <3>4, <3>5 DEF ParksEnd
  <2> QED
    BY <1>0, <2>1, <2>2
<1> QED
  BY <1>5, <1>6, <1>8

\* A worker settles what a pass of the handler asked for.
LEMMA WorkerSettlesLInv ==
    ASSUME IInv, LInv, NEW g \in Generations, WorkerSettles(g)
    PROVE  LInv'
<1> USE DEF LInv
<1> DEFINE t == held[g]
<1>0. /\ worker[g] = "settle"
      /\ \A h \in Generations : worker'[h] = IF h = g THEN "idle" ELSE worker[h]
      /\ \A h \in Generations : held'[h] = IF h = g THEN None ELSE held[h]
      /\ held' \in [Generations -> Tasks \cup {None}]
      /\ running' = IF t \in done THEN Without(running, {t}) ELSE ToBack(t)
      /\ finished' = IF t \in done THEN finished \cup {t} ELSE finished
      /\ parked' = IF t \in park \ (woken \cup done) THEN parked \cup {t} ELSE parked
      /\ park' = park \ {t}
      /\ UNCHANGED <<impl, switching, deferred, cancels, retiring, cancelled, done, check,
                     clients, history, excuses>>
  BY DEF WorkerSettles, IInv, Shape, Contents, gate
<1>1. UNCHANGED <<entered, ended, pushed, asked, refused, ready>>
  BY <1>0 DEF history, check, clients, begun
<1>t. t \in ToSet(running) \ parked
  BY <1>0 DEF Placed
<1>r. /\ running' \in Seq(Tasks)
      /\ ToSet(running') = IF t \in done THEN ToSet(running) \ {t} ELSE ToSet(running)
  <2>1. running \in Seq(Tasks)
    BY DEF Contents
  <2>2. Without(running, {t}) \in Seq(Tasks) /\ ToSet(Without(running, {t})) = ToSet(running) \ {t}
    BY <2>1, WithoutSet
  <2>3. ToBack(t) \in Seq(Tasks) /\ ToSet(ToBack(t)) = ToSet(running)
    BY <1>t, <2>1, ToBackSet
  <2> QED
    BY <1>0, <2>2, <2>3
<1> HIDE DEF t
<1>2. Left' = Left
  BY <1>0 DEF Left
<1>3. Past' = Past /\ Safe' = Safe
  BY <1>0, <1>1, <1>2 DEF Past, Safe
<1>5. /\ Contents' /\ Where' /\ HeldInOrder' /\ PushedOnce' /\ CancelsKept'
      /\ (\A y : Waking(y)' <=> Waking(y)) /\ Excused' = Excused
  BY <1>0, <1>1, <1>3, <1>r, WorkerKeeps
<1>6. \A h \in Generations : /\ worker[h] \in {"handler", "settle"} => h = g
                             /\ worker'[h] \notin {"handler", "settle"}
  BY <1>0, OneLive DEF Live
<1>7. Placed'
  <2>1. t \in entered
    BY <1>t DEF Placed
  <2>2. entered \subseteq ToSet(running') \cup finished' \cup retiring \cup ended \cup Left
    BY <1>0, <1>r DEF Placed
  <2>3. ToSet(running') \subseteq ToSet(running)
    BY <1>r
  <2>4. /\ finished' \cup retiring \subseteq entered \cap done
        /\ (finished' \cup retiring) \cap ToSet(running') = {} /\ finished' \cap retiring = {}
    <3>1. t \notin retiring
      BY <1>t DEF Placed
    <3>2. CASE t \in done
      BY <1>0, <1>r, <2>1, <3>1, <3>2 DEF Placed
    <3>3. CASE t \notin done
      BY <1>0, <1>r, <3>3 DEF Placed
    <3> QED
      BY <3>2, <3>3
  <2>5. parked' \subseteq ToSet(running')
    BY <1>0, <1>r, <1>t DEF Placed
  <2>6. \A h \in Generations : worker'[h] \in {"orphaned", "cleanup"} =>
                                  held'[h] \in entered \ ToSet(running')
    BY <1>0, <2>3 DEF Placed
  <2> QED
    BY <1>0, <1>1, <1>2, <1>6, <2>2, <2>3, <2>4, <2>5, <2>6 DEF Placed
<1>8. ParksEnd'
  <2>1. \A y : ~ AboutToPark(y)'
    BY <1>6 DEF AboutToPark
  <2>2. park' \cap ToSet(running') = {}
    <3>1. \A y \in park \cap ToSet(running) : y = t
      BY <1>6 DEF ParksEnd, t
    <3> QED
      BY <1>0, <1>r, <3>1
  <2>3. ASSUME NEW y, y \in parked', y \notin parked PROVE AboutToPark(y)
    BY <1>0, <2>3 DEF AboutToPark, t
  <2>4. park' \subseteq entered /\ impl = "threaded"
    BY <1>0, OneLive DEF ParksEnd, Live
  <2> QED
    BY <1>0, <1>1, <1>5, <2>1, <2>2, <2>3, <2>4 DEF ParksEnd
<1> QED
  BY <1>5, <1>7, <1>8

\* A worker that was left behind lets go.
LEMMA OrphanReleasesLInv ==
    ASSUME IInv, LInv, NEW g \in Generations, OrphanReleases(g)
    PROVE  LInv'
<1> USE DEF LInv
<1> DEFINE t == held[g]
<1>0. /\ worker[g] = "cleanup"
      /\ \A h \in Generations : worker'[h] = IF h = g THEN "gone" ELSE worker[h]
      /\ \A h \in Generations : held'[h] = IF h = g THEN None ELSE held[h]
      /\ held' \in [Generations -> Tasks \cup {None}]
      /\ ended' = ended \cup {t}
      /\ UNCHANGED <<impl, switching, lists, fields, check, clients, entered, pushed, asked,
                     excuses>>
  BY DEF OrphanReleases, IInv, Shape, Contents, gate
<1>1. UNCHANGED <<deferred, cancels, running, finished,
                  retiring, entered, pushed, asked, refused, ready, parked, park, woken,
                  cancelled, done>>
  BY <1>0 DEF lists, fields, check, clients, begun
<1>t. t \in entered \ ToSet(running)
  BY <1>0 DEF Placed
<1> HIDE DEF t
<1>2. Left \subseteq Left' \cup {t} /\ Left' \subseteq Left
  BY <1>0 DEF Left, t
<1>3. Past' = Past /\ Safe \subseteq Safe'
  BY <1>0, <1>1, <1>2, <1>t DEF Past, Safe
<1>4. running' \in Seq(Tasks)
  BY <1>1 DEF Contents
<1>5. /\ Contents' /\ Where' /\ HeldInOrder' /\ PushedOnce' /\ CancelsKept'
      /\ (\A y : Waking(y)' <=> Waking(y)) /\ Excused' = Excused
  BY <1>0, <1>1, <1>3, <1>4, WorkerKeeps
<1>6. Placed'
  BY <1>0, <1>1, <1>2 DEF Placed
<1>7. ParksEnd'
  <2>1. \A h \in Generations : worker'[h] = "settle" <=> worker[h] = "settle"
    BY <1>0
  <2>2. \A h \in Generations : worker[h] = "settle" => held'[h] = held[h]
    BY <1>0
  <2>3. \A y : AboutToPark(y)' <=> AboutToPark(y)
    BY <1>1, <2>1, <2>2 DEF AboutToPark
  <2>4. \A y \in park \cap ToSet(running) :
           \E h \in Generations : worker'[h] = "settle" /\ held'[h] = y
    BY <2>1, <2>2 DEF ParksEnd
  <2> QED
    BY <1>0, <1>1, <1>5, <2>3, <2>4 DEF ParksEnd
<1> QED
  BY <1>5, <1>6, <1>7

\* A park's horizon passes.
LEMMA HorizonLInv ==
    ASSUME IInv, LInv, NEW t \in Tasks, Horizon(t)
    PROVE  LInv'
<1> USE DEF LInv
<1>0. /\ t \in parked /\ parked' = parked \ {t} /\ running' = ToBack(t)
      /\ UNCHANGED <<impl, switching, deferred, cancels, finished,
                     retiring, park, woken, cancelled, done, worker, held, check, clients,
                     history, excuses>>
  BY DEF Horizon, gate, workers
<1>1. UNCHANGED <<entered, ended, pushed, asked, refused, ready>>
  BY <1>0 DEF history, check, clients, begun
<1>r. running' \in Seq(Tasks) /\ ToSet(running') = ToSet(running)
  <2>1. running \in Seq(Tasks) /\ t \in ToSet(running)
    BY <1>0 DEF Contents, Placed
  <2> QED
    BY <1>0, <2>1, ToBackSet
<1>2. Left' = Left
  BY <1>0 DEF Left
<1>3. Past' = Past /\ Safe' = Safe /\ held' \in [Generations -> Tasks \cup {None}]
  BY <1>0, <1>1, <1>2 DEF Past, Safe, Contents
<1>5. /\ Contents' /\ Where' /\ HeldInOrder' /\ PushedOnce' /\ CancelsKept'
      /\ (\A y : Waking(y)' <=> Waking(y)) /\ Excused' = Excused
  BY <1>0, <1>1, <1>3, <1>r, WorkerKeeps
<1>6. Placed'
  BY <1>0, <1>1, <1>2, <1>r DEF Placed
<1>7. ParksEnd'
  <2>1. \A y : AboutToPark(y)' <=> AboutToPark(y)
    BY <1>0 DEF AboutToPark
  <2> QED
    BY <1>0, <1>1, <1>5, <1>r, <2>1 DEF ParksEnd
<1> QED
  BY <1>5, <1>6, <1>7

(***************************************************************************)
(* task_queue_check.                                                       *)
(***************************************************************************)
\* Main's steps that move no task and no call.
LEMMA QuietKeeps ==
    ASSUME LInv, UNCHANGED <<lists, fields, worker, held, fifo, snap, refused, nodes,
                             clients, history>>,
           impl' \in {"none", "regular", "threaded"},
           mpc = "drain" => mpc' = "drain",
           mpc \in {"deinit cancels", "gather cancels"} => nodes = <<>>
    PROVE  /\ Contents' /\ Where' /\ Placed' /\ HeldInOrder' /\ PushedOnce' /\ CancelsKept'
           /\ \A t : Waking(t)' <=> Waking(t)
           /\ \A t : AboutToPark(t)' <=> AboutToPark(t)
<1> USE DEF LInv, lists, fields, clients, begun, history
<1>1. Known' = Known /\ Past' = Past /\ Left' = Left
  BY DEF Known, Past, Left
<1>2. Contents'
  BY DEF Contents
<1>3. Where'
  BY <1>1, WhereStays
<1>4. Placed'
  BY PlacedStays
<1>5. HeldInOrder'
  BY <1>1, HeldStays
<1>6. PushedOnce'
  BY <1>1, PushedStay
<1>7. CancelsKept'
  BY <1>1 DEF CancelsKept, Call
<1>8. \A t : Waking(t)' <=> Waking(t)
  BY DEF Waking, Call
<1>9. \A t : AboutToPark(t)' <=> AboutToPark(t)
  BY DEF AboutToPark
<1> QED
  BY <1>2, <1>3, <1>4, <1>5, <1>6, <1>7, <1>8, <1>9

\* No worker is about to park anything unless the runner is the threaded one.
LEMMA ParkersAreThreaded ==
    ASSUME IInv, impl # "threaded"
    PROVE  \A t : ~ AboutToPark(t)
BY OneLive DEF AboutToPark, Live

\* The application changes its mind; Main looks, counts, and takes the runner down or
\* up: what it does to the parks.
LEMMA QuietLInv ==
    ASSUME IInv, LInv,
           \/ Check \/ CountWakers
           \/ CancelsMade("deinit cancels", "stop") \/ CancelsMade("gather cancels", "run")
           \/ DeinitRegular \/ DeinitStops \/ ReleaseLeft \/ InitRegular \/ InitFails
    PROVE  LInv'
<1> USE DEF LInv
<1>0. UNCHANGED <<lists, fields, worker, held, fifo, snap, refused, nodes, clients, history>>
  BY DEF Check, CountWakers, CancelsMade, DeinitRegular, DeinitStops, ReleaseLeft,
         InitRegular, InitFails, workers, check
<1>1. /\ impl' \in {"none", "regular", "threaded"}
      /\ mpc = "drain" => mpc' = "drain"
      /\ mpc \in {"deinit cancels", "gather cancels"} => nodes = <<>>
  BY DEF Check, CountWakers, CancelsMade, DeinitRegular, DeinitStops, ReleaseLeft,
         InitRegular, InitFails, MainGoto, check, Contents
<1>2. /\ Contents' /\ Where' /\ Placed' /\ HeldInOrder' /\ PushedOnce' /\ CancelsKept'
      /\ \A t : Waking(t)' <=> Waking(t)
      /\ \A t : AboutToPark(t)' <=> AboutToPark(t)
  BY <1>0, <1>1, QuietKeeps
<1>3. UNCHANGED <<running, worker, held, parked, park, woken, done, entered, ready>>
  BY <1>0 DEF lists, fields, history, clients, begun
<1>4. Excused \subseteq Excused'
  BY DEF Check, CountWakers, CancelsMade, DeinitRegular, DeinitStops, ReleaseLeft,
         InitRegular, InitFails, excuses, Excused
<1>5. /\ impl' # "threaded" => parked \subseteq Excused'
      /\ impl' = "threaded" /\ ~ switching' =>
            \A t \in ready : Waking(t) \/ t \in Excused' \/ (t \notin parked /\ ~ AboutToPark(t))
  <2>1. CASE Check
    <3>1. impl' = impl
      BY <2>1 DEF Check
    <3>2. CASE switching /\ ~ switching'
      <4>1. parked \cup Range(held) \subseteq Excused'
        BY <2>1, <3>2 DEF Check, Excused
      <4>2. \A t : AboutToPark(t) => t \in Range(held)
        BY DEF AboutToPark, Range, Contents
      <4> QED
        BY <1>4, <3>1, <4>1, <4>2 DEF ParksEnd
    <3>3. CASE ~ (switching /\ ~ switching')
      BY <1>4, <3>1, <3>3 DEF ParksEnd, IInv, Shape
    <3> QED
      BY <3>2, <3>3
  <2>2. CASE UNCHANGED <<impl, switching>>
    BY <1>4, <2>2 DEF ParksEnd
  <2>3. CASE DeinitRegular
    BY <1>4, <2>3 DEF DeinitRegular, ParksEnd
  <2>4. CASE ReleaseLeft
    BY <2>4 DEF ReleaseLeft, Excused
  <2>5. CASE InitRegular \/ InitFails
    <3>1. impl = "none" /\ impl' = "regular"
      BY <2>5 DEF InitRegular, InitFails, MainGoto, IInv, Turns, Closing
    <3> QED
      BY <1>4, <3>1 DEF ParksEnd
  <2> QED
    BY <2>1, <2>2, <2>3, <2>4, <2>5 DEF CountWakers, CancelsMade, DeinitStops, gate
<1>6. ParksEnd'
  BY <1>2, <1>3, <1>4, <1>5 DEF ParksEnd
<1> QED
  BY <1>2, <1>6

\* The held cancels are taken.
LEMMA TakeCancelsLInv ==
    ASSUME IInv, LInv,
           \/ TakeCancels("deinit", "deinit cancels", "stop")
           \/ TakeCancels("take", "gather cancels", "run")
    PROVE  LInv'
<1> USE DEF LInv
<1>0. /\ UNCHANGED <<impl, switching, deferred, running, finished,
                     retiring, fields, worker, held, fifo, snap, refused, clients, history,
                     excuses>>
      /\ nodes' = cancels /\ cancels' = <<>>
      /\ mpc \in {"deinit", "take"} /\ mpc' # "drain"
      /\ mpc' \in {"deinit cancels", "gather cancels"} \/ cancels = <<>>
  BY DEF TakeCancels, MainGoto, workers, gate
<1>1. UNCHANGED <<impl, parked, park, woken, cancelled, done, pc, at, ready, after, entered, ended,
                  pushed, asked, leftParked, keptParked, running, worker, held>>
  BY <1>0 DEF fields, clients, begun, history, excuses
<1>2. Known' = Known /\ Past' = Past /\ Left' = Left
  BY <1>0, <1>1 DEF Known, Past, Left
<1>3. Contents'
  BY <1>0, <1>1, EmptySeq DEF Contents
<1>4. Where'
  BY <1>1, <1>2, WhereStays
<1>5. Placed'
  BY <1>0, <1>1, PlacedStays
<1>6. HeldInOrder'
  BY <1>0, <1>2, HeldStays
<1>7. PushedOnce'
  BY <1>1, <1>2, PushedStay
<1>8. CancelsKept'
  <2>1. nodes = <<>> /\ ToSet(<<>>) = {}
    BY <1>0, NoEntries DEF CancelsKept
  <2>2. ToSet(cancels) \cup ToSet(nodes) = ToSet(cancels') \cup ToSet(nodes')
    BY <1>0, <2>1
  <2>3. \A p : Call(p)' = Call(p)
    BY <1>1 DEF Call
  <2> QED
    BY <1>0, <1>1, <1>2, <2>2, <2>3 DEF CancelsKept
<1>9. ParksEnd'
  BY <1>0, <1>1, ParksStay DEF Excused
<1> QED
  BY <1>3, <1>4, <1>5, <1>6, <1>7, <1>8, <1>9

\* A held cancel is made.
LEMMA ApplyCancelLInv ==
    ASSUME IInv, LInv, ApplyCancel
    PROVE  LInv'
<1> USE DEF LInv
<1> DEFINE t == Head(nodes)
<1>0. /\ mpc \in {"deinit cancels", "gather cancels"} /\ nodes # <<>> /\ nodes' = Tail(nodes)
      /\ cancelled' = IF t \in ToSet(running) \/ t \in ToSet(deferred)
                      THEN cancelled \cup {t} ELSE cancelled
      /\ IF t \in ToSet(running) /\ impl = "threaded"
         THEN WakeLocked(t) ELSE UNCHANGED <<woken, parked, running>>
      /\ UNCHANGED <<impl, switching, deferred, cancels, finished,
                     retiring, park, done, worker, held, mpc, fifo, snap, refused, clients,
                     history, excuses>>
  BY DEF ApplyCancel, workers, gate
<1>1. UNCHANGED <<impl, pc, at, ready, after, entered, ended, pushed, asked, leftParked,
                  keptParked>>
  BY <1>0 DEF clients, begun, history, excuses
<1>2. t \in Tasks /\ nodes' \in Seq(Tasks) /\ ToSet(nodes) = ToSet(nodes') \cup {t}
  <2>1. nodes \in Seq(Tasks)
    BY DEF Contents
  <2> QED
    BY <1>0, <2>1, HeadTaken
<1>3. /\ running' \in Seq(Tasks) /\ ToSet(running') = ToSet(running)
      /\ parked' \subseteq parked /\ woken \subseteq woken'
  <2>1. CASE t \in ToSet(running) /\ impl = "threaded"
    BY <1>0, <2>1, WakeLockedSet
  <2>2. CASE ~ (t \in ToSet(running) /\ impl = "threaded")
    BY <1>0, <2>2 DEF Contents
  <2> QED
    BY <2>1, <2>2
<1> HIDE DEF t
<1>4. Known' = Known /\ Past' = Past /\ Left' = Left
  BY <1>0, <1>1 DEF Known, Past, Left
<1>5. cancelled \subseteq cancelled'
  BY <1>0
<1>6. Contents'
  BY <1>0, <1>1, <1>2, <1>3 DEF Contents
<1>7. Where'
  BY <1>1, <1>4, WhereStays
<1>8. Placed'
  <2>1. parked' \subseteq ToSet(running')
    BY <1>3 DEF Placed
  <2> QED
    BY <1>0, <1>1, <1>3, <1>4, <1>5, <2>1 DEF Placed
<1>9. HeldInOrder'
  BY <1>0, <1>4, HeldStays
<1>10. PushedOnce'
  BY <1>1, <1>4, PushedStay
<1>11. CancelsKept'
  <2>1. ASSUME t \in asked PROVE t \in cancelled' \cup done \cup ended \cup Left
    <3>1. t \in Known
      BY <2>1 DEF PushedOnce
    <3>2. CASE t \in ToSet(running) \cup ToSet(deferred)
      BY <1>0, <3>2
    <3>3. CASE t \notin ToSet(running) \cup ToSet(deferred)
      BY <1>5, <3>1, <3>3 DEF Known, Past, Placed
    <3> QED
      BY <3>2, <3>3
  <2>2. \A p : Call(p)' = Call(p)
    BY <1>1 DEF Call
  <2> QED
    BY <1>0, <1>1, <1>2, <1>4, <1>5, <2>1, <2>2 DEF CancelsKept
<1>12. ParksEnd'
  <2>1. \A y : AboutToPark(y)' => AboutToPark(y)
    BY <1>0, <1>3 DEF AboutToPark
  <2>2. \A y : Waking(y)' <=> Waking(y)
    BY <1>1 DEF Waking, Call
  <2>3. Excused' = Excused
    BY <1>1 DEF Excused
  <2> QED
    BY <1>0, <1>1, <1>3, <2>1, <2>2, <2>3 DEF ParksEnd
<1> QED
  BY <1>6, <1>7, <1>8, <1>9, <1>10, <1>11, <1>12

\* Deinit leaves a worker behind.
LEMMA LeaveBehindLInv ==
    ASSUME IInv, LInv, LeaveBehind
    PROVE  LInv'
<1> USE DEF LInv
<1> DEFINE t == held[gen]
<1>a. gen \in Generations /\ impl = "threaded" /\ switching
  BY ThreadedGeneration DEF LeaveBehind, MainGoto, IInv, Turns, GateHolds, Closing
<1>0. /\ worker[gen] = "handler"
      /\ \A h \in Generations : worker'[h] = IF h = gen THEN "orphaned" ELSE worker[h]
      /\ running' = Without(running, {t})
      /\ UNCHANGED <<impl, switching, deferred, cancels, finished,
                     retiring, fields, held, fifo, snap, refused, nodes, clients, history,
                     excuses>>
      /\ mpc = "stopping" /\ mpc' = "release"
  BY <1>a DEF LeaveBehind, MainGoto, IInv, Shape, gate
<1>1. UNCHANGED <<impl, parked, park, woken, cancelled, done, pc, at, ready, after, entered, ended,
                  pushed, asked, leftParked, keptParked>>
  BY <1>0 DEF fields, clients, begun, history, excuses
<1>t. t \in ToSet(running) \ parked /\ t \in entered /\ t \in Tasks
  BY <1>a, <1>0 DEF Placed, Contents
<1>r. running' \in Seq(Tasks) /\ ToSet(running') = ToSet(running) \ {t}
  BY <1>0, WithoutSet DEF Contents
<1>2. Left' = Left \cup {t}
  BY <1>a, <1>0, <1>t DEF Left
<1> HIDE DEF t
<1>3. Known' = Known /\ Past' = Past /\ Safe \subseteq Safe'
  BY <1>0, <1>1, <1>2 DEF Known, Past, Safe
<1>4. Contents'
  BY <1>0, <1>1, <1>r DEF Contents
<1>5. Where'
  BY <1>1, <1>3, WhereStays
<1>6. HeldInOrder'
  BY <1>0, <1>3, HeldStays
<1>7. PushedOnce'
  BY <1>1, <1>3, PushedStay
<1>8. CancelsKept'
  BY <1>0, <1>1, <1>3, CancelsStay
<1>9. \A h \in Generations : /\ worker[h] \in {"handler", "settle"} => h = gen
                             /\ worker'[h] \notin {"handler", "settle"}
  BY <1>a, <1>0, OneLive DEF Live
<1>10. Placed'
  <2>1. \A h \in Generations : worker'[h] \in {"orphaned", "cleanup"} =>
                                  held'[h] \in entered \ ToSet(running')
    BY <1>0, <1>r, <1>t DEF Placed, t
  <2>2. parked \subseteq ToSet(running')
    BY <1>r, <1>t DEF Placed
  <2> QED
    BY <1>0, <1>1, <1>2, <1>9, <1>r, <1>t, <2>1, <2>2 DEF Placed
<1>11. ParksEnd'
  <2>1. park \cap ToSet(running) = {}
    BY <1>0, <1>9 DEF ParksEnd
  <2> QED
    BY <1>a, <1>0, <1>1, <1>r, <2>1 DEF ParksEnd
<1> QED
  BY <1>4, <1>5, <1>6, <1>7, <1>8, <1>10, <1>11

\* Deinit joins the worker and ends every park.
LEMMA JoinWorkerLInv ==
    ASSUME IInv, LInv, JoinWorker
    PROVE  LInv'
<1> USE DEF LInv
<1>a. gen \in Generations /\ impl = "threaded"
  BY ThreadedGeneration DEF JoinWorker, MainGoto, IInv, Turns
<1>0. /\ worker[gen] = "exited"
      /\ \A h \in Generations : worker'[h] = IF h = gen THEN "gone" ELSE worker[h]
      /\ parked' = {} /\ impl' = "none"
      /\ running' = Without(running, parked) \o Without(running, Tasks \ parked)
      /\ UNCHANGED <<deferred, cancels, finished,
                     retiring, park, woken, cancelled, done, held, fifo, snap, refused, nodes,
                     clients, history, excuses>>
      /\ mpc = "stopping" /\ mpc' = "initRegular"
  BY <1>a DEF JoinWorker, MainGoto, IInv, Shape
<1>1. UNCHANGED <<pc, at, ready, after, entered, ended, pushed, asked, leftParked,
                  keptParked>>
  BY <1>0 DEF clients, begun, history, excuses
<1>r. running' \in Seq(Tasks) /\ ToSet(running') = ToSet(running)
  BY <1>0, JoinedSet DEF Contents, Placed
<1>2. Left' = Left
  BY <1>0 DEF Left
<1>3. Known' = Known /\ Past' = Past /\ Safe' = Safe
  BY <1>0, <1>1, <1>2 DEF Known, Past, Safe
<1>4. Contents'
  BY <1>0, <1>1, <1>r DEF Contents
<1>5. Where'
  BY <1>1, <1>3, WhereStays
<1>6. HeldInOrder'
  BY <1>0, <1>3, HeldStays
<1>7. PushedOnce'
  BY <1>1, <1>3, PushedStay
<1>8. CancelsKept'
  BY <1>0, <1>1, <1>3, CancelsStay
<1>9. \A h \in Generations : worker[h] \notin {"handler", "settle"}
  BY <1>a, <1>0, OneLive DEF Live
<1>10. Placed'
  BY <1>0, <1>1, <1>2, <1>9, <1>r DEF Placed
<1>11. ParksEnd'
  <2>1. park \cap ToSet(running) = {}
    BY <1>9 DEF ParksEnd
  <2> QED
    BY <1>0, <1>1, <1>r, <2>1 DEF ParksEnd
<1> QED
  BY <1>4, <1>5, <1>6, <1>7, <1>8, <1>10, <1>11

\* Init brings a threaded runner up.
LEMMA InitThreadedLInv ==
    ASSUME IInv, LInv, InitThreaded
    PROVE  LInv'
<1> USE DEF LInv
<1>a. impl = "none" /\ gen \in Nat
  BY DEF InitThreaded, MainGoto, IInv, Turns, Closing, Shape
<1>b. \A h \in Generations : h = gen + 1 => worker[h] = "off"
  <2>1. \A h \in Generations : h = gen + 1 => h > gen
    BY <1>a DEF Generations
  <2> QED
    BY <2>1 DEF IInv, Lives
<1>0. /\ \A h \in Generations : worker'[h] = IF h = gen + 1 THEN "idle" ELSE worker[h]
      /\ impl' = "threaded" /\ mpc = "initThreaded" /\ mpc' = "gather"
      /\ UNCHANGED <<lists, fields, held, fifo, snap, refused, nodes, clients, history,
                     excuses>>
  BY DEF InitThreaded, MainGoto, IInv, Shape
<1>1. UNCHANGED <<pc, at, ready, after, entered, ended, pushed, asked, leftParked,
                  keptParked, parked, park, woken, cancelled, done, deferred, cancels,
                  running, finished, retiring>>
  BY <1>0 DEF clients, begun, history, excuses, lists, fields
<1>2. Left' = Left
  BY <1>b, <1>0 DEF Left
<1>3. Known' = Known /\ Past' = Past /\ Safe' = Safe
  BY <1>0, <1>1, <1>2 DEF Known, Past, Safe
<1>4. Contents'
  BY <1>0, <1>1 DEF Contents
<1>5. Where'
  BY <1>1, <1>3, WhereStays
<1>6. HeldInOrder'
  BY <1>0, <1>1, <1>3, HeldStays
<1>7. PushedOnce'
  BY <1>1, <1>3, PushedStay
<1>8. CancelsKept'
  BY <1>0, <1>1, <1>3, CancelsStay
<1>9. Placed'
  BY <1>0, <1>1, <1>2 DEF Placed
<1>10. ParksEnd'
  <2>1. \A h \in Generations : worker[h] # "settle" /\ worker'[h] # "settle"
    BY <1>a, <1>0, OneLive DEF Live
  <2>2. \A y : ~ AboutToPark(y)'
    BY <2>1 DEF AboutToPark
  <2>3. Excused' = Excused
    BY <1>1 DEF Excused
  <2> QED
    BY <1>a, <1>0, <1>1, <2>1, <2>2, <2>3 DEF ParksEnd
<1> QED
  BY <1>4, <1>5, <1>6, <1>7, <1>8, <1>9, <1>10

(***************************************************************************)
(* The gather.                                                             *)
(***************************************************************************)
\* What the order of the held pushes says, with the lengths typed.
LEMMA HeldTyped ==
    ASSUME LInv
    PROVE  /\ Len(deferred) \in Nat /\ Len(fifo) \in Nat /\ snap \in Nat
           /\ Drained \in Nat /\ Drained <= Len(deferred) /\ Len(fifo) <= Drained
           /\ DOMAIN deferred = 1..Len(deferred)
           /\ \A j, k \in 1..Len(deferred) : deferred[j] = deferred[k] => j = k
           /\ \A k \in 1..Len(fifo) : fifo[k] = deferred[Drained - k + 1]
           /\ \A k \in 1..Len(deferred) : deferred[k] \in Past <=> k > Drained
<1>1. /\ Len(deferred) \in Nat /\ Len(fifo) \in Nat /\ snap \in Nat
      /\ DOMAIN deferred = 1..Len(deferred)
  BY LenProperties DEF LInv, Contents
<1>2. Drained \in Nat /\ Drained <= Len(deferred) /\ Len(fifo) <= Drained
  BY <1>1 DEF LInv, HeldInOrder, Drained
<1> QED
  BY <1>1, <1>2 DEF LInv, HeldInOrder, IsInjective

\* What is held is looked at, from its end.
LEMMA SnapDeferredLInv ==
    ASSUME IInv, LInv, SnapDeferred
    PROVE  LInv'
<1> USE DEF LInv
<1>0. /\ mpc = "gather" /\ mpc' = IF deferred = <<>> THEN "take" ELSE "drain"
      /\ fifo' = Reverse(deferred) /\ snap' = Len(deferred)
      /\ UNCHANGED <<impl, switching, lists, fields, worker, held, refused, nodes, clients,
                     history, excuses>>
  BY DEF SnapDeferred, MainGoto, workers, gate
<1>1. UNCHANGED <<pc, at, ready, after, entered, ended, pushed, asked, leftParked,
                  keptParked, parked, park, woken, cancelled, done, deferred, cancels,
                  running, finished, retiring>>
  BY <1>0 DEF clients, begun, history, excuses, lists, fields
<1>2. Known' = Known /\ Past' = Past /\ Left' = Left
  BY <1>0, <1>1 DEF Known, Past, Left
<1> DEFINE n == Len(deferred)
<1>3. /\ n \in Nat /\ deferred \in Seq(Tasks)
      /\ \A k \in 1..n : deferred[k] \in Tasks
      /\ \A k \in 1..n : deferred[k] \in Past <=> k > n
  <2>1. fifo = <<>> /\ snap = 0 /\ Len(fifo) = 0
    BY <1>0 DEF HeldInOrder
  <2>2. Drained = n
    BY <2>1, HeldTyped DEF Drained
  <2> QED
    BY <2>2, HeldTyped, ElementOfSeq DEF Contents
<1>4. /\ fifo' \in Seq(Tasks) /\ Len(fifo') = n
      /\ \A k \in 1..n : fifo'[k] = deferred[n - k + 1]
  <2> DEFINE r == [k \in 1..n |-> deferred[(n - k) + 1]]
  <2> HIDE DEF n
  <2>1. \A k \in 1..n : (n - k) + 1 \in 1..n
    BY <1>3
  <2>2. r \in [1..n -> Tasks]
    BY <1>3, <2>1
  <2>3. r \in Seq(Tasks) /\ Len(r) = n
    BY <1>3, <2>2
  <2>4. fifo' = r
    BY <1>0 DEF Reverse, n
  <2> QED
    BY <2>3, <2>4
<1>5. Drained' = n
  <2>1. Drained' = Len(deferred') - (snap' - Len(fifo'))
    BY DEF Drained
  <2> HIDE DEF n
  <2>2. Len(deferred') = n /\ snap' = n
    BY <1>0, <1>1 DEF n
  <2> QED
    BY <1>3, <1>4, <2>1, <2>2
<1>6. Contents'
  BY <1>0, <1>1, <1>3, <1>4 DEF Contents
<1>7. Where'
  BY <1>1, <1>2, WhereStays
<1>8. Placed'
  BY <1>0, <1>1, PlacedStays
<1>9. HeldInOrder'
  <2>1. mpc' # "drain" => fifo' = <<>> /\ snap' = 0
    <3>1. ASSUME deferred = <<>> PROVE fifo' = <<>> /\ snap' = 0
      <4>1. n = 0
        BY <3>1
      <4> QED
        BY <1>0, <1>4, <4>1, EmptySeq
    <3> QED
      BY <1>0, <3>1
  <2>2. Len(fifo') <= snap' /\ snap' <= Len(deferred')
    BY <1>0, <1>1, <1>3, <1>4
  <2>3. \A p, i : IsPush(p, i)' <=> IsPush(p, i)
    BY DEF IsPush
  <2>4. /\ \A k \in 1..Len(fifo') : fifo'[k] = deferred'[Drained' - k + 1]
        /\ \A k \in 1..Len(deferred') : deferred'[k] \in Past' <=> k > Drained'
    BY <1>1, <1>2, <1>3, <1>4, <1>5
  <2> HIDE DEF n
  <2> QED
    BY <1>1, <2>1, <2>2, <2>3, <2>4 DEF HeldInOrder
<1>10. PushedOnce'
  BY <1>1, <1>2, PushedStay
<1>11. CancelsKept'
  BY <1>0, <1>1, <1>2, CancelsStay DEF Safe
<1>12. ParksEnd'
  BY <1>0, <1>1, ParksStay DEF Excused
<1> QED
  BY <1>6, <1>7, <1>8, <1>9, <1>10, <1>11, <1>12

\* The oldest of them goes to the runner, or is refused.
LEMMA PushHeldLInv ==
    ASSUME IInv, LInv, PushHeld
    PROVE  LInv'
<1> USE DEF LInv
<1> DEFINE t == Head(fifo)
           d == Drained
<1>0. /\ mpc = "drain" /\ fifo # <<>> /\ fifo' = Tail(fifo)
      /\ \/ /\ t \in cancelled /\ refused' = Append(refused, t)
            /\ UNCHANGED <<running, entered>>
         \/ /\ t \notin cancelled /\ running' = Append(running, t)
            /\ entered' = entered \cup {t} /\ UNCHANGED refused
      /\ UNCHANGED <<impl, switching, deferred, cancels, finished,
                     retiring, fields, worker, held, mpc, snap, nodes, clients, ended, pushed,
                     asked, excuses>>
  BY DEF PushHeld, workers, gate
<1>1. UNCHANGED <<pc, at, ready, after, ended, pushed, asked, leftParked, keptParked, parked,
                  park, woken, cancelled, done, deferred, cancels, finished, retiring>>
  BY <1>0 DEF clients, begun, excuses, fields
<1>2. /\ t \in Tasks /\ fifo' \in Seq(Tasks) /\ t = fifo[1] /\ Len(fifo) >= 1
      /\ Len(fifo') = Len(fifo) - 1 /\ \A k \in 1..Len(fifo') : fifo'[k] = fifo[k + 1]
  <2>1. fifo \in Seq(Tasks)
    BY DEF Contents
  <2>2. Len(fifo) \in Nat \ {0} /\ t = fifo[1]
    BY <1>0, <2>1, EmptySeq
  <2> QED
    BY <1>0, <2>1, <2>2, HeadTailProperties
<1> HIDE DEF t, d
<1>3. /\ Len(deferred) \in Nat /\ Len(fifo) \in Nat /\ snap \in Nat
      /\ d \in Nat /\ d <= Len(deferred) /\ Len(fifo) <= d
      /\ \A j, k \in 1..Len(deferred) : deferred[j] = deferred[k] => j = k
      /\ \A k \in 1..Len(fifo) : fifo[k] = deferred[d - k + 1]
      /\ \A k \in 1..Len(deferred) : deferred[k] \in Past <=> k > d
  BY HeldTyped DEF d
<1>4. d \in 1..Len(deferred) /\ t = deferred[d] /\ t \notin Past
  BY <1>2, <1>3
<1>5. Past' = Past \cup {t}
  <2>1. CASE t \in cancelled
    <3>1. ToSet(refused') = ToSet(refused) \cup {t}
      BY <1>0, <1>2, <2>1, Appended DEF Contents
    <3> QED
      BY <1>0, <1>1, <2>1, <3>1 DEF Past
  <2>2. CASE t \notin cancelled
    BY <1>0, <1>1, <2>2 DEF Past
  <2> QED
    BY <2>1, <2>2
<1>6. Known' = Known /\ Left' = Left
  <2>1. t \in ToSet(deferred)
    BY <1>4, Occurs DEF Contents
  <2> QED
    BY <1>0, <1>1, <1>5, <2>1 DEF Known, Left
<1>7. Drained' = d - 1
  <2>1. Drained' = Len(deferred') - (snap' - Len(fifo'))
    BY DEF Drained
  <2>2. d = Len(deferred) - (snap - Len(fifo))
    BY DEF d, Drained
  <2> QED
    BY <1>0, <1>2, <1>3, <2>1, <2>2
<1>8. /\ running' \in Seq(Tasks) /\ refused' \in Seq(Tasks) /\ entered' \subseteq Tasks
      /\ ToSet(running') = ToSet(running) \cup (entered' \ entered)
      /\ entered' \subseteq entered \cup {t} /\ entered \subseteq entered'
      /\ ToSet(refused') \subseteq cancelled
  <2>0. t \notin entered /\ ToSet(refused) \subseteq cancelled
    BY <1>4 DEF Past, Placed
  <2>1. CASE t \in cancelled
    <3>1. refused' \in Seq(Tasks) /\ ToSet(refused') = ToSet(refused) \cup {t}
      BY <1>0, <1>2, <2>1, Appended DEF Contents
    <3> QED
      BY <1>0, <2>0, <2>1, <3>1 DEF Contents
  <2>2. CASE t \notin cancelled
    <3>1. running' \in Seq(Tasks) /\ ToSet(running') = ToSet(running) \cup {t}
      BY <1>0, <1>2, <2>2, Appended DEF Contents
    <3> QED
      BY <1>0, <1>2, <2>0, <2>2, <3>1 DEF Contents
  <2> QED
    BY <2>1, <2>2
<1>9. Contents'
  BY <1>0, <1>1, <1>2, <1>8 DEF Contents
<1>10. Where'
  BY <1>1, <1>6, WhereStays
<1>11. Placed'
  <2>1. t \notin entered
    BY <1>4 DEF Past
  <2>2. \A g \in Generations :
          /\ worker'[g] \in {"handler", "settle"} => held'[g] \in ToSet(running') \ parked'
          /\ worker'[g] \in {"orphaned", "cleanup"} => held'[g] \in entered' \ ToSet(running')
    BY <1>0, <1>1, <1>8, <2>1 DEF Placed
  <2>3. /\ entered' \subseteq ToSet(running') \cup finished' \cup retiring' \cup ended'
                              \cup Left'
        /\ ToSet(running') \subseteq entered'
    BY <1>1, <1>6, <1>8 DEF Placed
  <2>4. /\ finished' \cup retiring' \subseteq entered' \cap done'
        /\ (finished' \cup retiring') \cap ToSet(running') = {} /\ finished' \cap retiring' = {}
    BY <1>1, <1>8, <2>1 DEF Placed
  <2>5. parked' \subseteq ToSet(running') /\ ToSet(refused') \subseteq cancelled'
    BY <1>1, <1>8 DEF Placed
  <2> QED
    BY <2>2, <2>3, <2>4, <2>5 DEF Placed
<1>12. HeldInOrder'
  <2>1. ASSUME NEW k \in 1..Len(fifo')
        PROVE  fifo'[k] = deferred'[Drained' - k + 1]
    <3>1. k + 1 \in 1..Len(fifo) /\ d - (k + 1) + 1 = (d - 1) - k + 1
      BY <1>2, <1>3
    <3>2. fifo'[k] = deferred[d - (k + 1) + 1]
      BY <1>2, <1>3, <3>1
    <3> QED
      BY <1>1, <1>7, <3>1, <3>2
  <2>2. ASSUME NEW k \in 1..Len(deferred')
        PROVE  deferred'[k] \in Past' <=> k > Drained'
    <3>1. k \in 1..Len(deferred) /\ k \in Nat
      BY <1>1, <1>3
    <3>2. deferred[k] \in Past' <=> k > d \/ k = d
      BY <1>3, <1>4, <1>5, <3>1
    <3> QED
      BY <1>1, <1>3, <1>7, <3>1, <3>2
  <2>3. /\ mpc' = "drain"
        /\ Len(fifo') <= snap' /\ snap' <= Len(deferred')
    BY <1>0, <1>2, <1>3 DEF HeldInOrder
  <2>4. \A p, i : IsPush(p, i)' <=> IsPush(p, i)
    BY DEF IsPush
  <2> QED
    BY <1>1, <2>1, <2>2, <2>3, <2>4 DEF HeldInOrder
<1>13. PushedOnce'
  <2>1. \A p, i : IsPush(p, i)' <=> IsPush(p, i)
    BY DEF IsPush
  <2>2. \A p, i : Made(p, i)' <=> Made(p, i)
    BY <1>1 DEF Made
  <2>3. ASSUME NEW p \in Clients, NEW i \in 1..Len(Program[p]), NEW j \in 1..Len(Program[p]),
               IsPush(p, i), IsPush(p, j), i < j, Program[p][j].task = t
        PROVE  Program[p][i].task \in Past
    <3>1. t \in Known
      BY <1>4, Occurs DEF Known, Contents
    <3>2. Made(p, j)
      BY <2>3, <3>1 DEF PushedOnce
    <3>3. Made(p, i)
      <4>1. at[p] \in Nat /\ i \in Nat /\ j \in Nat
        BY TaskSwitchAssumption, LenProperties DEF Contents
      <4> QED
        BY <2>3, <3>2, <4>1 DEF Made
    <3>4. Program[p][i].task \in Known
      BY <2>3, <3>3 DEF PushedOnce
    <3>5. CASE Program[p][i].task \in ToSet(deferred)
      <4>1. PICK a \in 1..Len(deferred) : deferred[a] = Program[p][i].task
        BY <3>5, Occurs DEF Contents
      <4>2. d < a
        <5>1. \A k, l \in 1..Len(deferred) :
                 deferred[k] = Program[p][i].task /\ deferred[l] = Program[p][j].task => l < k
          BY <2>3 DEF HeldInOrder
        <5> QED
          BY <1>4, <2>3, <4>1, <5>1
      <4> QED
        BY <1>3, <4>1, <4>2
    <3> QED
      BY <3>4, <3>5 DEF Known
  <2>4. ASSUME NEW p \in Clients, NEW i \in 1..Len(Program[p]), NEW j \in 1..Len(Program[p]),
               IsPush(p, i), IsPush(p, j), i < j,
               Program[p][j].task \in entered' \/ (pc[p] = "direct" /\ at[p] = j)
        PROVE  Program[p][i].task \in Past
    <3>1. CASE Program[p][j].task = t
      BY <2>3, <2>4, <3>1
    <3>2. CASE Program[p][j].task # t
      BY <1>8, <2>4, <3>2 DEF PushedOnce
    <3> QED
      BY <3>1, <3>2
  <2> QED
    BY <1>1, <1>5, <1>6, <2>1, <2>2, <2>4 DEF PushedOnce
<1>14. CancelsKept'
  BY <1>0, <1>1, <1>5, <1>6, CancelsStay DEF Safe
<1>15. ParksEnd'
  <2>1. t \notin park
    BY <1>4 DEF ParksEnd, Past
  <2>2. \A y : AboutToPark(y)' <=> AboutToPark(y)
    BY <1>0, <1>1 DEF AboutToPark
  <2>3. \A y : Waking(y)' <=> Waking(y)
    BY <1>1 DEF Waking, Call
  <2>4. Excused' = Excused
    BY <1>1 DEF Excused
  <2>5. park' \cap ToSet(running') = park \cap ToSet(running) /\ park' \subseteq entered'
    BY <1>1, <1>8, <2>1 DEF ParksEnd
  <2> QED
    BY <1>0, <1>1, <2>2, <2>3, <2>4, <2>5 DEF ParksEnd
<1> QED
  BY <1>9, <1>10, <1>11, <1>12, <1>13, <1>14, <1>15

\* What was pushed is cut off.
LEMMA CutHeldLInv ==
    ASSUME IInv, LInv, CutHeld
    PROVE  LInv'
<1> USE DEF LInv
<1> DEFINE n == Len(deferred)
           d == Drained
<1>0. /\ mpc = "drain" /\ mpc' \in {"take", "refuse"} /\ fifo = <<>> /\ snap' = 0
      /\ deferred' = SubSeq(deferred, 1, n - snap)
      /\ UNCHANGED <<impl, switching, cancels, running, finished,
                     retiring, fields, worker, held, fifo, refused, nodes, clients, history,
                     excuses>>
  BY DEF CutHeld, MainGoto, workers, gate
<1>1. UNCHANGED <<pc, at, ready, after, entered, ended, pushed, asked, leftParked, keptParked,
                  parked, park, woken, cancelled, done, cancels, finished, retiring, running>>
  BY <1>0 DEF clients, begun, excuses, fields, history
<1>2. /\ n \in Nat /\ snap \in Nat
      /\ d \in Nat /\ d <= n /\ deferred \in Seq(Tasks)
      /\ \A j, k \in 1..n : deferred[j] = deferred[k] => j = k
      /\ \A k \in 1..n : deferred[k] \in Past <=> k > d
      /\ d = n - snap /\ Len(fifo) = 0
  <2>1. Len(fifo) = 0
    BY <1>0
  <2>2. d = n - snap
    BY <2>1, HeldTyped DEF Drained
  <2> QED
    BY <2>1, <2>2, HeldTyped DEF Contents
<1>3. \A k \in 1..n : deferred[k] \in Tasks
  BY <1>2, ElementOfSeq
<1> HIDE DEF n, d
<1>4. /\ deferred' \in Seq(Tasks) /\ Len(deferred') = d
      /\ \A k \in 1..d : deferred'[k] = deferred[k]
  <2>1. \A k \in 1..d : k \in 1..n /\ 1 + k - 1 = k
    BY <1>2
  <2>2. \A k \in 1..d : deferred[k] \in Tasks
    BY <1>3, <2>1
  <2>3. /\ SubSeq(deferred, 1, d) \in Seq(Tasks)
        /\ Len(SubSeq(deferred, 1, d)) = IF 1 <= d THEN d - 1 + 1 ELSE 0
        /\ \A k \in 1..(d - 1 + 1) : SubSeq(deferred, 1, d)[k] = deferred[1 + k - 1]
    BY <1>2, <2>2, SubSeqProperties
  <2>4. deferred' = SubSeq(deferred, 1, d)
    BY <1>0, <1>2 DEF n
  <2> QED
    BY <1>2, <2>1, <2>3, <2>4
<1>5. Past' = Past /\ Left' = Left
  BY <1>0, <1>1 DEF Past, Left
<1>6. Known' = Known
  <2>1. ASSUME NEW x PROVE x \in Known' <=> x \in Known
    <3>1. x \in ToSet(deferred') <=> \E k \in 1..d : deferred[k] = x
      BY <1>4, Occurs
    <3>2. x \in ToSet(deferred) <=> \E k \in 1..n : deferred[k] = x
      BY <1>2, Occurs DEF n
    <3>3. (\E k \in 1..d : deferred[k] = x) => \E k \in 1..n : deferred[k] = x
      BY <1>2
    <3>4. (\E k \in 1..n : deferred[k] = x) => (\E k \in 1..d : deferred[k] = x) \/ x \in Past
      BY <1>2
    <3> QED
      BY <1>5, <3>1, <3>2, <3>3, <3>4 DEF Known
  <2> QED
    BY <2>1
<1>7. Contents'
  BY <1>0, <1>1, <1>4 DEF Contents
<1>8. Where'
  BY <1>1, <1>6, WhereStays
<1>9. Placed'
  BY <1>0, <1>1, PlacedStays
<1>10. HeldInOrder'
  <2>1. Drained' = d
    <3>1. Drained' = Len(deferred') - (snap' - Len(fifo'))
      BY DEF Drained
    <3>2. Len(deferred') = d /\ snap' = 0 /\ Len(fifo') = 0
      BY <1>0, <1>2, <1>4
    <3> QED
      BY <1>2, <3>1, <3>2
  <2>2. IsInjective(deferred')
    <3>1. DOMAIN deferred' = 1..d
      BY <1>4, LenProperties
    <3>2. \A j, k \in 1..d : deferred'[j] = deferred'[k] => j = k
      BY <1>2, <1>4
    <3> QED
      BY <3>1, <3>2 DEF IsInjective
  <2>3. \A k \in 1..Len(deferred') : deferred'[k] \in Past' <=> k > Drained'
    BY <1>2, <1>4, <1>5, <2>1
  <2>4. /\ fifo' = <<>> /\ snap' = 0 /\ Len(fifo') <= snap' /\ snap' <= Len(deferred')
        /\ \A k \in 1..Len(fifo') : FALSE
    BY <1>0, <1>2, <1>4
  <2>5. \A p, i : IsPush(p, i)' <=> IsPush(p, i)
    BY DEF IsPush
  <2>6. ASSUME NEW p \in Clients, NEW i \in 1..Len(Program[p]), NEW j \in 1..Len(Program[p]),
               NEW a \in 1..Len(deferred'), NEW b \in 1..Len(deferred'),
               IsPush(p, i), deferred'[a] = Program[p][i].task,
               IsPush(p, j), deferred'[b] = Program[p][j].task,
               i < j
        PROVE  b < a
    <3>1. /\ a \in 1..n /\ deferred[a] = Program[p][i].task
          /\ b \in 1..n /\ deferred[b] = Program[p][j].task
      BY <1>2, <1>4, <2>6
    <3>2. \A k, l \in 1..n :
             deferred[k] = Program[p][i].task /\ deferred[l] = Program[p][j].task => l < k
      BY <2>6 DEF HeldInOrder, n
    <3> QED
      BY <3>1, <3>2
  <2> QED
    BY <2>2, <2>3, <2>4, <2>5, <2>6 DEF HeldInOrder
<1>11. PushedOnce'
  BY <1>1, <1>5, <1>6, PushedStay
<1>12. CancelsKept'
  BY <1>0, <1>1, <1>5, CancelsStay DEF Safe
<1>13. ParksEnd'
  BY <1>0, <1>1, ParksStay DEF Excused
<1> QED
  BY <1>7, <1>8, <1>9, <1>10, <1>11, <1>12, <1>13

\* The refused ones are retired.
LEMMA RetireRefusedLInv ==
    ASSUME IInv, LInv, RetireRefused
    PROVE  LInv'
<1> USE DEF LInv
<1>0. /\ mpc = "refuse" /\ mpc' = "take"
      /\ done' = done \cup ToSet(refused) /\ ended' = ended \cup ToSet(refused)
      /\ refused' = <<>>
      /\ UNCHANGED <<impl, switching, lists, parked, park, woken, cancelled, worker, held,
                     fifo, snap, nodes, clients, entered, pushed, asked, excuses>>
  BY DEF RetireRefused, MainGoto, workers, gate
<1>1. UNCHANGED <<pc, at, ready, after, leftParked, keptParked, deferred, cancels, finished,
                  retiring, running>>
  BY <1>0 DEF clients, begun, excuses, lists
<1>2. <<>> \in Seq(Tasks) /\ ToSet(<<>>) = {}
  BY NoEntries
<1>3. Past' = Past /\ Left' = Left
  BY <1>0, <1>2 DEF Past, Left
<1>4. Known' = Known
  BY <1>1, <1>3 DEF Known
<1>5. Contents'
  BY <1>0, <1>1, <1>2 DEF Contents
<1>6. Where'
  BY <1>1, <1>4, WhereStays
<1>7. Placed'
  BY <1>0, <1>1, <1>2, <1>3 DEF Placed
<1>8. HeldInOrder'
  BY <1>0, <1>1, <1>3, HeldStays
<1>9. PushedOnce'
  BY <1>0, <1>1, <1>3, <1>4, PushedStay
<1>10. CancelsKept'
  BY <1>0, <1>1, <1>3, CancelsStay DEF Safe
<1>11. ParksEnd'
  BY <1>0, <1>1, ParksStay DEF Excused
<1> QED
  BY <1>5, <1>6, <1>7, <1>8, <1>9, <1>10, <1>11

\* The finished ones are, and the unthreaded runner runs the due ones.
LEMMA GatherLInv ==
    ASSUME IInv, LInv, GatherThreaded \/ GatherRegular
    PROVE  LInv'
<1> USE DEF LInv
<1> DEFINE all(S) == finished \cup retiring \cup S
<1>a. PICK S \in SUBSET (ToSet(running) \ parked) :
         /\ done' = done \cup S
         /\ running' \in Seq(Tasks) /\ ToSet(running') = ToSet(running) \ S
         /\ ended \subseteq ended' /\ finished' \cap retiring' = {}
         /\ ended' \subseteq ended \cup all(S) /\ finished' \cup retiring' \subseteq all(S)
         /\ all(S) \subseteq ended' \cup finished' \cup retiring'
         /\ impl = "threaded" => S = {}
  <2>1. running \in Seq(Tasks)
    BY DEF Contents
  <2>2. CASE GatherThreaded
    <3>1. /\ done' = done \cup {} /\ running' \in Seq(Tasks)
          /\ ToSet(running') = ToSet(running) \ {} /\ {} \in SUBSET (ToSet(running) \ parked)
      BY <2>1, <2>2 DEF GatherThreaded, fields
    <3>2. PICK R \in SUBSET (retiring \cup finished) :
             /\ ended' = ended \cup R /\ retiring' = (retiring \cup finished) \ R
             /\ finished' = {}
      BY <2>2 DEF GatherThreaded, Retired
    <3>3. /\ ended \subseteq ended' /\ finished' \cap retiring' = {}
          /\ ended' \subseteq ended \cup all({}) /\ finished' \cup retiring' \subseteq all({})
          /\ all({}) \subseteq ended' \cup finished' \cup retiring'
      BY <3>2
    <3> HIDE DEF all
    <3> QED
      BY <3>1, <3>3
  <2>3. CASE GatherRegular
    <3> DEFINE ran(n)  == SubSeq(running, 1, n)
               rest(n) == SubSeq(running, n + 1, Len(running))
    <3>0. PICK n \in 0..Len(running) : \E S \in SUBSET (ToSet(ran(n)) \ parked) :
             /\ done' = done \cup S
             /\ running' = Without(rest(n) \o ran(n), S)
             /\ \E R \in Retired(finished \cup S) :
                   ended' = ended \cup R /\ finished' = (finished \cup S) \ R
      BY <2>3, Zenon DEF GatherRegular
    <3>1. PICK S \in SUBSET (ToSet(ran(n)) \ parked) :
             /\ done' = done \cup S
             /\ running' = Without(rest(n) \o ran(n), S)
             /\ \E R \in Retired(finished \cup S) :
                   ended' = ended \cup R /\ finished' = (finished \cup S) \ R
      BY <3>0, Zenon
    <3>2. /\ rest(n) \o ran(n) \in Seq(Tasks) /\ ToSet(rest(n) \o ran(n)) = ToSet(running)
          /\ ToSet(ran(n)) \subseteq ToSet(running)
      BY <2>1, RotatedSet
    <3> HIDE DEF ran, rest
    <3>3. S \in SUBSET (ToSet(running) \ parked)
      BY <3>1, <3>2
    <3>4. running' \in Seq(Tasks) /\ ToSet(running') = ToSet(running) \ S
      BY <3>1, <3>2, WithoutSet
    <3>5. PICK R \in SUBSET (finished \cup S) :
             ended' = ended \cup R /\ finished' = (finished \cup S) \ R
      BY <3>1 DEF Retired
    <3>6. retiring' = retiring /\ impl # "threaded"
      BY <2>3 DEF GatherRegular
    <3>7. (finished \cup S) \cap retiring = {}
      BY <3>3 DEF Placed
    <3>8. /\ ended \subseteq ended' /\ finished' \cap retiring' = {}
          /\ ended' \subseteq ended \cup all(S) /\ finished' \cup retiring' \subseteq all(S)
          /\ all(S) \subseteq ended' \cup finished' \cup retiring'
      BY <3>5, <3>6, <3>7
    <3> HIDE DEF all
    <3> QED
      BY <3>1, <3>3, <3>4, <3>6, <3>8
  <2> QED
    BY <2>2, <2>3
<1>0. /\ mpc = "run" /\ mpc' = "idle"
      /\ UNCHANGED <<impl, switching, deferred, cancels, parked, park, woken, cancelled,
                     worker, held, fifo, snap, refused, nodes, clients, entered, pushed,
                     asked, excuses>>
  BY DEF GatherThreaded, GatherRegular, MainGoto, workers, gate, fields
<1>1. UNCHANGED <<pc, at, ready, after, leftParked, keptParked>>
  BY <1>0 DEF clients, begun, excuses
<1>2. /\ S \subseteq entered /\ S \cap parked = {} /\ all(S) \subseteq entered \cap done'
      /\ all(S) \cap ToSet(running') = {}
  BY <1>a DEF Placed
<1>3. Past' = Past /\ Left' = Left
  BY <1>a, <1>0, <1>2 DEF Past, Left
<1>4. Known' = Known
  BY <1>0, <1>3 DEF Known
<1>w. \A g \in Generations : worker[g] \in {"handler", "settle"} => S = {}
  BY <1>a, OneLive DEF Live
<1>5. Contents'
  BY <1>a, <1>0, <1>1 DEF Contents
<1>6. Where'
  BY <1>1, <1>4, WhereStays
<1>7. Placed'
  <2>1. \A g \in Generations :
          /\ worker[g] \in {"handler", "settle"} => held[g] \in ToSet(running') \ parked
          /\ worker[g] \in {"orphaned", "cleanup"} => held[g] \in entered \ ToSet(running')
    BY <1>a, <1>w DEF Placed
  <2>2. entered \subseteq ToSet(running') \cup finished' \cup retiring' \cup ended' \cup Left
    BY <1>a DEF Placed
  <2>4. /\ finished' \cup retiring' \subseteq entered \cap done'
        /\ (finished' \cup retiring') \cap ToSet(running') = {}
    BY <1>a, <1>2
  <2>3. ToSet(running') \subseteq entered /\ parked \subseteq ToSet(running')
    BY <1>a, <1>2 DEF Placed
  <2> QED
    BY <1>a, <1>0, <1>3, <2>1, <2>2, <2>3, <2>4 DEF Placed
<1>8. HeldInOrder'
  BY <1>0, <1>3, HeldStays
<1>9. PushedOnce'
  BY <1>0, <1>1, <1>3, <1>4, PushedStay
<1>10. CancelsKept'
  <2>1. Safe \subseteq Safe'
    BY <1>a, <1>0, <1>3 DEF Safe
  <2> QED
    BY <1>0, <1>1, <1>3, <2>1, CancelsStay
<1>11. ParksEnd'
  <2>1. \A y : AboutToPark(y)' => AboutToPark(y)
    BY <1>a, <1>0 DEF AboutToPark
  <2>2. \A y : Waking(y)' <=> Waking(y)
    BY <1>1 DEF Waking, Call
  <2>3. Excused' = Excused
    BY <1>1 DEF Excused
  <2>4. \A y \in ToSet(running') : y \in ToSet(running)
    BY <1>a
  <2> QED
    BY <1>0, <1>1, <2>1, <2>2, <2>3, <2>4 DEF ParksEnd
<1> QED
  BY <1>5, <1>6, <1>7, <1>8, <1>9, <1>10, <1>11

\* A change of mind, or a step that changes nothing.
LEMMA StutterLInv ==
    ASSUME LInv, Flip \/ UNCHANGED vars
    PROVE  LInv'
<1> USE DEF LInv, gate, lists, fields, life, workers, check, begun, clients, history, excuses
<1>0. UNCHANGED <<impl, gate, lists, fields, workers, check, clients, history, excuses>>
  BY DEF Flip, vars
<1>1. Known' = Known /\ Past' = Past /\ Left' = Left /\ Excused' = Excused
  BY <1>0 DEF Known, Past, Left, Excused
<1>2. Contents' /\ Where' /\ Placed'
  BY <1>0, <1>1, ContentsStay, WhereStays, PlacedStays
<1>3. HeldInOrder' /\ PushedOnce'
  BY <1>0, <1>1, HeldStays, PushedStay
<1>4. CancelsKept'
  BY <1>0, <1>1, CancelsStay DEF Safe
<1>5. ParksEnd'
  BY <1>0, <1>1, ParksStay
<1> QED
  BY <1>2, <1>3, <1>4, <1>5

\* Where every task and every call is holds throughout, whatever the constants.
THEOREM Accounts == Spec => []LInv
<1>1. IInv /\ LInv /\ [Next]_vars => LInv'
  <2> SUFFICES ASSUME IInv, LInv, [Next]_vars PROVE LInv'
    OBVIOUS
  <2>1. CASE MainStep \/ Flip
    BY <2>1, StutterLInv, QuietLInv, TakeCancelsLInv, ApplyCancelLInv, LeaveBehindLInv, JoinWorkerLInv,
       InitThreadedLInv, SnapDeferredLInv, PushHeldLInv, CutHeldLInv, RetireRefusedLInv,
       GatherLInv DEF MainStep
  <2>2. CASE \E o \in Clients : Begin(o) \/ ClientStep(o) \/ DeferFails(o)
    <3>1. PICK o \in Clients : Begin(o) \/ ClientStep(o) \/ DeferFails(o)
      BY <2>2
    <3> QED
      BY <3>1, BeginLInv, DeferFailsLInv, GateLInv, DirectLInv, DirectPushLInv, LeaveLInv,
         HoldLInv, DeferLInv DEF ClientStep
  <2>3. CASE \E g \in Generations : WorkerStep(g)
    <3>1. PICK g \in Generations : WorkerStep(g)
      BY <2>3
    <3> QED
      BY <3>1, WorkerExitsLInv, WorkerPicksLInv, HandlerReturnsLInv, WorkerSettlesLInv,
         OrphanReleasesLInv DEF WorkerStep
  <2>4. CASE \E t \in Tasks : Horizon(t)
    BY <2>4, HorizonLInv
  <2>5. CASE UNCHANGED vars
    BY <2>5, StutterLInv
  <2> QED
    BY <2>1, <2>2, <2>3, <2>4, <2>5 DEF Next
<1> QED
  BY <1>1, InitLInv, Invariance, PTL DEF Spec

\* A thread's pushes start in the order it made them, whichever of them were held by a
\* switch and however many switches there were.
THEOREM PushesInOrder == Spec => []PushOrder
<1>1. IInv /\ LInv => PushOrder
  <2> SUFFICES ASSUME IInv, LInv PROVE PushOrder
    OBVIOUS
  <2>1. TypeOK
    <3>1. wakers \in Nat
      BY CountedFinite, FS_CardinalityType DEF IInv, WakersExact
    <3>2. \A g \in Generations : refs[g] \in 0..2
      BY DEF IInv, Lives, Shape
    <3>3. /\ impl \in {"none", "regular", "threaded"}
          /\ {deferred, running, fifo, refused, nodes, cancels} \subseteq Seq(Tasks)
          /\ (finished \cup retiring) \cap ToSet(running) = {} /\ finished \cap retiring = {}
      BY DEF LInv, Contents, Placed
    <3> QED
      BY <3>1, <3>2, <3>3 DEF TypeOK
  <2>2. ASSUME NEW o \in Clients, NEW i \in 1..Len(Program[o]), NEW j \in 1..Len(Program[o]),
               i < j, Program[o][i].call = "push", Program[o][j].call = "push",
               Program[o][j].task \in entered
        PROVE  Program[o][i].task \in entered \cup ToSet(refused) \cup ended
    <3>1. IsPush(o, i) /\ IsPush(o, j)
      BY <2>2 DEF IsPush
    <3> QED
      BY <2>2, <3>1 DEF LInv, PushedOnce, Past
  <2> QED
    BY <2>1, <2>2 DEF PushOrder
<1> QED
  BY <1>1, Invariance, Accounts, PTL

\* A cancel made after its task's push returned has reached the task or waits for the
\* next gather, unless the task is finished or was left behind: no held push, and no
\* switch, loses it.
THEOREM CancelsArrive == Spec => []CancelNotLost
<1>1. LInv => CancelNotLost
  <2> SUFFICES ASSUME LInv, NEW t \in asked \ (cancelled \cup done \cup ended)
               PROVE  \/ t \in ToSet(cancels) \cup ToSet(nodes)
                      \/ \E g \in Generations :
                            worker[g] \in {"orphaned", "cleanup"} /\ held[g] = t
    BY DEF CancelNotLost
  <2> QED
    BY DEF LInv, CancelsKept, Left
<1> QED
  BY <1>1, Accounts, PTL

\* A wake is lost only to a switch that left a stuck handler behind, or to one that was
\* put off and taken back.
THEOREM WakesArrive == Spec => []WakeLostOnlyBySwitch
<1>1. LInv => WakeLostOnlyBySwitch
  <2> SUFFICES ASSUME LInv, NEW t \in Tasks, WakeLost(t)
               PROVE  t \in leftParked \cup keptParked
    BY DEF WakeLostOnlyBySwitch
  <2>1. ~ Waking(t)
    BY DEF WakeLost, Waking
  <2> QED
    BY <2>1 DEF LInv, ParksEnd, WakeLost, Excused
<1> QED
  BY <1>1, Accounts, PTL
=============================================================================
