------------------------- MODULE WaitableSpsc_proof --------------------------
(***************************************************************************)
(* The waitable ring for any capacity and any sizes the two ends ask for:  *)
(* a wait that said yes was right, and no end sleeps beside the bytes it   *)
(* asked for or beside a finished cancel.                                  *)
(*                                                                         *)
(* Neither is inductive.  An end is asleep because of what it saw before:  *)
(* too few bytes (SawTooLittle) and the flag down (SawFlagDown), both      *)
(* after it had named its epoch (Windows).  Whoever changes what it saw    *)
(* still has its notify to make, and the notify moves the epoch.           *)
(***************************************************************************)
EXTENDS WaitableSpsc, TLAPS

\* retro_waitable_spsc_init leaves the invariant true.
LEMMA InitIInv == Init => IInv
<1> USE WaitableAssumption DEF Sides, Reader, Writer
<1> SUFFICES ASSUME Init PROVE IInv
  OBVIOUS
<1>1. YesHolds
  <2>1. pc = [s \in Sides |-> "idle"] /\ need = [s \in Sides |-> 0]
    BY DEF Init
  <2>2. fill = 0 /\ written = 0 /\ cancelled = FALSE /\ canceller = "no"
    BY DEF Init
  <2>3. cancelled \in BOOLEAN
    BY <2>2
  <2>4. fill \in 0..Capacity /\ written \in 0..MaxBytes
    BY <2>2
  <2>5. canceller \in {"no", "readable", "writable", "done"}
    BY <2>2
  <2>6. need \in [Sides -> 0..Capacity]
    BY <2>1
  <2> QED
    BY <2>1, <2>3, <2>4, <2>5, <2>6 DEF YesHolds, TypeOK
<1>2. Windows
  BY DEF Init, Windows, Epoch, Key, State, Readable!Init, Writable!Init
<1>3. SawTooLittle /\ SawFlagDown
  BY DEF Init, SawTooLittle, SawFlagDown
<1> QED
  BY <1>1, <1>2, <1>3 DEF IInv

(***************************************************************************)
(* One lemma for each step.                                                *)
(***************************************************************************)
\* A transfer only adds to what the other end finds, and whoever added is at its
\* announcement.
LEMMA TransferIInv ==
    ASSUME IInv, NEW s \in Sides, NEW n \in Sizes(s), Transfer(s, n)
    PROVE  IInv'
<1> USE WaitableAssumption DEF IInv, YesHolds, Sides, Reader, Writer
<1> QED
  BY DEF Transfer, Moved, Avail, Sizes, TypeOK, Windows, SawTooLittle, SawFlagDown,
         Epoch, Key, State, Other, readable, writable, flag

\* A notify moves the epoch of the end it is for, past whatever window it has open.
LEMMA AnnounceIInv ==
    ASSUME IInv, NEW s \in Sides, Announce(s)
    PROVE  IInv'
<1> USE DEF IInv, YesHolds, Sides, Reader, Writer
<1>1. CASE s = Reader
  BY <1>1 DEF Announce, Goto, Notify, Own, Other, Writable!Notify, readable, ring, flag,
       TypeOK, Avail, Windows, Epoch, Key, State, SawTooLittle, SawFlagDown
<1>2. CASE s = Writer
  BY <1>2 DEF Announce, Goto, Notify, Own, Other, Readable!Notify, writable, ring, flag,
       TypeOK, Avail, Windows, Epoch, Key, State, SawTooLittle, SawFlagDown
<1> QED
  BY <1>1, <1>2

\* A wait that begins is outside any window.
LEMMA WaitIInv ==
    ASSUME IInv, NEW s \in Sides, NEW n \in Sizes(s), Wait(s, n)
    PROVE  IInv'
<1> USE WaitableAssumption DEF IInv, YesHolds, Sides, Reader, Writer
<1> QED
  BY DEF Wait, Goto, Sizes, readable, writable, ring, flag,
       TypeOK, Avail, Windows, Epoch, Key, State, SawTooLittle, SawFlagDown, Other

\* So is one that is refused.
LEMMA RefuseIInv ==
    ASSUME IInv, NEW s \in Sides, Refuse(s)
    PROVE  IInv'
<1> USE DEF IInv, YesHolds, Sides, Reader, Writer
<1> QED
  BY DEF Refuse, Goto, readable, writable, ring, flag,
       TypeOK, Avail, Windows, Epoch, Key, State, SawTooLittle, SawFlagDown, Other

\* prepare_wait names the current epoch; the wait has yet to look.
LEMMA PrepareWaitIInv ==
    ASSUME IInv, NEW s \in Sides, PrepareWait(s)
    PROVE  IInv'
<1> USE DEF IInv, YesHolds, Sides, Reader, Writer
<1> QED
  BY DEF PrepareWait, Prepare, Own, Readable!PrepareWait, Writable!PrepareWait,
       Readable!Become, Writable!Become, readable, writable, ring, flag,
       TypeOK, Avail, Windows, Epoch, Key, State, SawTooLittle, SawFlagDown, Other

\* The second look at the ring, with the window open: yes, or too little.
LEMMA TestAgainIInv ==
    ASSUME IInv, NEW s \in Sides, TestAgain(s)
    PROVE  IInv'
<1> USE DEF IInv, YesHolds, Sides, Reader, Writer
<1> QED
  BY WaitableAssumption
     DEF TestAgain, Goto, CancelWait, Own, Readable!CancelWait, Writable!CancelWait,
       Readable!Become, Writable!Become, readable, writable, ring, flag,
       TypeOK, Avail, Windows, Epoch, Key, State, SawTooLittle, SawFlagDown, Other

\* The look at the flag: raised, and the wait is over; down, and whoever raises it
\* has both notifies still to make.
LEMMA TestFlagIInv ==
    ASSUME IInv, NEW s \in Sides, TestFlag(s)
    PROVE  IInv'
<1> USE DEF IInv, YesHolds, Sides, Reader, Writer
<1> QED
  BY DEF TestFlag, Goto, CancelWait, Own, Readable!CancelWait, Writable!CancelWait,
       Readable!Become, Writable!Become, readable, writable, ring, flag,
       TypeOK, Avail, Windows, Epoch, Key, State, SawTooLittle, SawFlagDown, Other

\* The bound is up: the last look decides.
LEMMA ExpireIInv ==
    ASSUME IInv, NEW s \in Sides, Expire(s)
    PROVE  IInv'
<1> USE DEF IInv, YesHolds, Sides, Reader, Writer
<1> QED
  BY DEF Expire, Goto, CancelWait, Own, Readable!CancelWait, Writable!CancelWait,
       Readable!Become, Writable!Become, readable, writable, ring, flag,
       TypeOK, Avail, Windows, Epoch, Key, State, SawTooLittle, SawFlagDown, Other

\* commit_wait sleeps only on the epoch the window named.
LEMMA CommitWaitIInv ==
    ASSUME IInv, NEW s \in Sides, CommitWait(s)
    PROVE  IInv'
<1> USE DEF IInv, YesHolds, Sides, Reader, Writer
<1> QED
  BY DEF CommitWait, Goto, Park, DontPark, Own, Readable!Park, Writable!Park,
       Readable!DontPark, Writable!DontPark,
       Readable!Become, Writable!Become, readable, writable, ring, flag,
       TypeOK, Avail, Windows, Epoch, Key, State, SawTooLittle, SawFlagDown, Other

\* A sleep that ends by itself.
LEMMA WakeUpIInv ==
    ASSUME IInv, NEW s \in Sides, WakeUp(s)
    PROVE  IInv'
<1> USE DEF IInv, YesHolds, Sides, Reader, Writer
<1> QED
  BY DEF WakeUp, Spurious, Own, Readable!Spurious, Writable!Spurious,
       readable, writable, ring, flag,
       TypeOK, Avail, Windows, Epoch, Key, State, SawTooLittle, SawFlagDown, Other

\* commit_wait returns.
LEMMA ResumeIInv ==
    ASSUME IInv, NEW s \in Sides, Resume(s)
    PROVE  IInv'
<1> USE DEF IInv, YesHolds, Sides, Reader, Writer
<1> QED
  BY DEF Resume, Goto, Return, Own, Readable!Return, Writable!Return,
       Readable!Become, Writable!Become, readable, writable, ring, flag,
       TypeOK, Avail, Windows, Epoch, Key, State, SawTooLittle, SawFlagDown, Other

\* The flag goes up, then each eventcount is notified: from then on no end that saw
\* it down is still at its epoch.
LEMMA CancelIInv ==
    ASSUME IInv, CancelFlag \/ CancelNotify
    PROVE  IInv'
<1> USE DEF IInv, YesHolds, Sides, Reader, Writer
<1>1. CASE CancelFlag
  BY <1>1 DEF CancelFlag, readable, writable, ring,
       TypeOK, Avail, Windows, Epoch, Key, State, SawTooLittle, SawFlagDown, Other
<1>2. CASE CancelNotify /\ canceller = "readable"
  BY <1>2 DEF CancelNotify, Notify, Own, Readable!Notify, writable, ring,
       TypeOK, Avail, Windows, Epoch, Key, State, SawTooLittle, SawFlagDown, Other
<1>3. CASE CancelNotify /\ canceller = "writable"
  BY <1>3 DEF CancelNotify, Notify, Own, Writable!Notify, readable, ring,
       TypeOK, Avail, Windows, Epoch, Key, State, SawTooLittle, SawFlagDown, Other
<1> QED
  BY <1>1, <1>2, <1>3 DEF CancelNotify

(***************************************************************************)
(* The theorems.                                                           *)
(***************************************************************************)
\* Every step of either end or of a cancel keeps the invariant.
THEOREM Invariance == Spec => []IInv
<1>1. IInv /\ [Next]_vars => IInv'
  <2> SUFFICES ASSUME IInv, [Next]_vars PROVE IInv'
    OBVIOUS
  <2>1. CASE UNCHANGED vars
    BY <2>1 DEF vars, ring, flag, readable, writable, IInv, YesHolds, TypeOK, Avail,
         Windows, Epoch, Key, State, SawTooLittle, SawFlagDown, Other
  <2>2. ASSUME NEW s \in Sides,
               \/ Step(s) \/ Expire(s) \/ WakeUp(s)
               \/ \E n \in Sizes(s) : Transfer(s, n) \/ Wait(s, n)
        PROVE  IInv'
    BY <2>2, TransferIInv, AnnounceIInv, WaitIInv, RefuseIInv, PrepareWaitIInv,
       TestAgainIInv, TestFlagIInv, ExpireIInv, CommitWaitIInv, WakeUpIInv,
       ResumeIInv, Zenon DEF Step
  <2> QED
    BY <2>1, <2>2, CancelIInv DEF Next
<1> QED
  BY InitIInv, <1>1, PTL DEF Spec

\* retro_waitable_spsc_wait_readable and wait_writable: the answer yes still holds
\* when the end that got it comes to move its bytes.
THEOREM YesIsRight == Spec => []YesHolds
<1>1. IInv => YesHolds
  BY DEF IInv
<1> QED
  BY Invariance, <1>1, PTL

\* No lost wakeup on either eventcount: an end parked beside its bytes has the
\* other's notify coming, and none is parked once retro_waitable_spsc_cancel is
\* through, whatever the interleaving of prepare, re-test and commit with writes,
\* reads and the cancel.
THEOREM NoLostWakeup == Spec => []NoSleepOnBytes
<1>1. IInv => NoSleepOnBytes
  BY DEF IInv, NoSleepOnBytes, Parked, Windows, State, SawTooLittle, SawFlagDown, Sides,
         Reader, Writer
<1> QED
  BY Invariance, <1>1, PTL
=============================================================================
