---------------------------- MODULE WaitableSpsc ----------------------------
(***************************************************************************)
(* queues/retro_waitable_spsc.c: a retro_spsc whose two ends can sleep, on *)
(* two eventcounts, and a flag that ends every wait.                       *)
(*                                                                         *)
(* The parts are used by what they promise.  The ring (RetroSpsc) is the   *)
(* number of bytes in it: an end that asks how much it may move gets at    *)
(* least what its own next call will find.  Each eventcount is an instance *)
(* of EventCountSpec, which the backends implement.  The ends run the      *)
(* loop the header shows: wait for some bytes, move them, announce them;   *)
(* or move what fits, several times (the quiet forms), then announce.      *)
(***************************************************************************)
EXTENDS Integers

CONSTANTS
    Capacity,      \* of the ring
    ReadSizes,     \* what the consumer waits for and reads
    WriteSizes,    \* what the producer waits for and writes
    MaxBytes       \* bound: bytes written over the run

Reader == "reader"
Writer == "writer"
Sides  == {Reader, Writer}

ASSUME WaitableAssumption ==
    /\ Capacity \in Nat \ {0}
    /\ ReadSizes \subseteq 1..Capacity /\ WriteSizes \subseteq 1..Capacity
    /\ MaxBytes \in Nat

VARIABLES
    fill,                          \* bytes in the ring
    written,                       \* bytes ever written
    cancelled,                     \* the flag
    canceller,                     \* how far retro_waitable_spsc_cancel got
    repoch, rkey, rstate,          \* the eventcount `readable'
    wepoch, wkey, wstate,          \* the eventcount `writable'
    pc,                            \* where each end is
    need                           \* the bytes each end's wait asked for

readable == <<repoch, rkey, rstate>>
writable == <<wepoch, wkey, wstate>>
ring     == <<fill, written>>
flag     == <<cancelled, canceller>>
vars     == <<ring, flag, readable, writable, pc, need>>

Readable == INSTANCE EventCountSpec
    WITH Waiters <- {Reader}, epoch <- repoch, key <- rkey, state <- rstate
Writable == INSTANCE EventCountSpec
    WITH Waiters <- {Writer}, epoch <- wepoch, key <- wkey, state <- wstate

\* An end waits on its own eventcount.
Own(s, onReadable, onWritable) ==
    \/ s = Reader /\ onReadable /\ UNCHANGED writable
    \/ s = Writer /\ onWritable /\ UNCHANGED readable

Prepare(s)    == Own(s, Readable!PrepareWait(s), Writable!PrepareWait(s))
CancelWait(s) == Own(s, Readable!CancelWait(s), Writable!CancelWait(s))
Park(s)       == Own(s, Readable!Park(s), Writable!Park(s))
DontPark(s)   == Own(s, Readable!DontPark(s), Writable!DontPark(s))
Return(s)     == Own(s, Readable!Return(s), Writable!Return(s))
Spurious(s)   == Own(s, Readable!Spurious({s}), Writable!Spurious({s}))

Other(s)  == IF s = Reader THEN Writer ELSE Reader
Notify(s) == Own(s, Readable!Notify, Writable!Notify)   \* wakes end s
Parked(s) == IF s = Reader THEN rstate[s] = "parked" ELSE wstate[s] = "parked"

\* retro_spsc_read_avail and retro_spsc_write_avail, asked by their own end.
Avail(s) == IF s = Reader THEN fill ELSE Capacity - fill
Sizes(s) == IF s = Reader THEN ReadSizes ELSE WriteSizes

Goto(s, from, to) ==
    /\ pc[s] = from
    /\ pc' = [pc EXCEPT ![s] = to]

Init ==
    /\ fill = 0 /\ written = 0
    /\ cancelled = FALSE /\ canceller = "no"
    /\ Readable!Init /\ Writable!Init
    /\ pc = [s \in Sides |-> "idle"]
    /\ need = [s \in Sides |-> 0]

-----------------------------------------------------------------------------
(***************************************************************************)
(* Mutations: the mistakes the properties below are there to catch.        *)
(***************************************************************************)
\* A transfer that moved something is not announced.
Moved_Quietly(s, n) ==
    /\ pc' = [pc EXCEPT ![s] = "idle"]
    /\ UNCHANGED need

\* The wait does not look at the ring again once it is registered.
TestAgain_Skipped(s) ==
    /\ Goto(s, "test", "flag")
    /\ UNCHANGED <<ring, flag, readable, writable, need>>

\* The wait does not look at the flag once it is registered.
TestFlag_Skipped(s) ==
    /\ Goto(s, "flag", "clock")
    /\ UNCHANGED <<ring, flag, readable, writable, need>>

\* A wait whose bound expired says yes.
Expire_True(s) ==
    /\ CancelWait(s)
    /\ Goto(s, "clock", "ready")
    /\ UNCHANGED <<ring, flag, need>>

-----------------------------------------------------------------------------
(***************************************************************************)
(* Moving bytes.                                                           *)
(***************************************************************************)
\* retro_waitable_spsc_write notifies only if it wrote something; so does read.
Moved(s, n) ==
    /\ pc' = [pc EXCEPT ![s] = IF n > 0 \/ @ = "announce" THEN "announce" ELSE "idle"]
    /\ UNCHANGED need

\* retro_waitable_spsc_write or _read, or the quiet form, which may come again
\* before the announcement: as much as fits of what was asked.
Transfer(s, want) ==
    /\ pc[s] \in {"idle", "ready", "announce"}
    /\ pc[s] = "ready" => want = need[s]
    /\ LET n == IF want < Avail(s) THEN want ELSE Avail(s)
       IN  /\ s = Writer => written + n <= MaxBytes
           /\ fill' = IF s = Reader THEN fill - n ELSE fill + n
           /\ written' = IF s = Reader THEN written ELSE written + n
           /\ Moved(s, n)
    /\ UNCHANGED <<flag, readable, writable>>

\* The notify of the call, or that which ends a batch.
Announce(s) ==
    /\ Goto(s, "announce", "idle")
    /\ Notify(Other(s))
    /\ UNCHANGED <<ring, flag, need>>

(***************************************************************************)
(* Waiting: RETRO_WAITABLE_SPSC_WAIT.                                      *)
(***************************************************************************)
\* Enough already, whatever the flag says.
Wait(s, n) ==
    /\ IF Avail(s) >= n THEN Goto(s, "idle", "ready") ELSE Goto(s, "idle", "began")
    /\ need' = [need EXCEPT ![s] = n]
    /\ UNCHANGED <<ring, flag, readable, writable>>

\* A bound of zero, which only polls, or cancelled: false.
Refuse(s) ==
    /\ Goto(s, "began", "idle")
    /\ UNCHANGED <<ring, flag, readable, writable, need>>

\* Round the loop: register.
PrepareWait(s) ==
    /\ pc[s] \in {"began", "again"}
    /\ pc[s] = "began" => ~cancelled
    /\ pc' = [pc EXCEPT ![s] = "test"]
    /\ Prepare(s)
    /\ UNCHANGED <<ring, flag, need>>

TestAgain(s) ==
    /\ \/ Avail(s) >= need[s] /\ Goto(s, "test", "ready") /\ CancelWait(s)
       \/ Avail(s) < need[s] /\ Goto(s, "test", "flag") /\ UNCHANGED <<readable, writable>>
    /\ UNCHANGED <<ring, flag, need>>

TestFlag(s) ==
    /\ \/ cancelled /\ Goto(s, "flag", "idle") /\ CancelWait(s)
       \/ ~cancelled /\ Goto(s, "flag", "clock") /\ UNCHANGED <<readable, writable>>
    /\ UNCHANGED <<ring, flag, need>>

\* The bound is up: one last look decides.
Expire(s) ==
    /\ CancelWait(s)
    /\ IF Avail(s) >= need[s] THEN Goto(s, "clock", "ready") ELSE Goto(s, "clock", "idle")
    /\ UNCHANGED <<ring, flag, need>>

CommitWait(s) ==
    /\ Park(s) \/ DontPark(s)
    /\ Goto(s, "clock", "committed")
    /\ UNCHANGED <<ring, flag, need>>

\* The sleep's own timeout, or a wake for no reason.
WakeUp(s) ==
    /\ Spurious(s)
    /\ UNCHANGED <<ring, flag, pc, need>>

Resume(s) ==
    /\ Return(s)
    /\ Goto(s, "committed", "again")
    /\ UNCHANGED <<ring, flag, need>>

(***************************************************************************)
(* retro_waitable_spsc_cancel, from any thread: the flag, then both ends.  *)
(***************************************************************************)
CancelFlag ==
    /\ canceller = "no"
    /\ cancelled' = TRUE /\ canceller' = "readable"
    /\ UNCHANGED <<ring, readable, writable, pc, need>>

CancelNotify ==
    /\ \/ canceller = "readable" /\ canceller' = "writable" /\ Notify(Reader)
       \/ canceller = "writable" /\ canceller' = "done" /\ Notify(Writer)
    /\ UNCHANGED <<ring, cancelled, pc, need>>

Step(s) ==
    \/ \E n \in Sizes(s) : pc[s] = "ready" /\ Transfer(s, n)
    \/ \E n \in Sizes(s) : ~cancelled /\ Wait(s, n)
    \/ Announce(s) \/ Refuse(s) \/ PrepareWait(s) \/ TestAgain(s)
    \/ TestFlag(s) \/ CommitWait(s) \/ Resume(s)

Next ==
    \/ \E s \in Sides :
          \/ Step(s) \/ Expire(s) \/ WakeUp(s)
          \/ \E n \in Sizes(s) : Transfer(s, n) \/ Wait(s, n)
    \/ CancelFlag \/ CancelNotify

\* Each end keeps running its loop: it waits when it has nothing to do, moves
\* what it waited for, and announces it.  A cancel that was begun is finished.
Fairness ==
    /\ \A s \in Sides : WF_vars(Step(s))
    /\ WF_vars(CancelNotify)

Spec == Init /\ [][Next]_vars /\ Fairness

-----------------------------------------------------------------------------

TypeOK ==
    /\ fill \in 0..Capacity
    /\ written \in 0..MaxBytes
    /\ cancelled \in BOOLEAN
    /\ canceller \in {"no", "readable", "writable", "done"}
    /\ pc \in [Sides -> {"idle", "ready", "announce", "began", "test", "flag",
                         "clock", "committed", "again"}]
    /\ need \in [Sides -> 0..Capacity]

\* "For the producer and consumer themselves the answer holds": once a wait has
\* said yes, the bytes are still there when the end comes to move them, so that
\* the queue never takes in more than it has room for.
YesHolds == TypeOK /\ \A s \in Sides : pc[s] = "ready" => Avail(s) >= need[s]

\* No end sleeps beside the bytes it asked for, unless the other end is about
\* to announce them; nor beside a finished cancel.
NoSleepOnBytes ==
    \A s \in Sides : Parked(s) =>
        /\ Avail(s) >= need[s] => pc[Other(s)] = "announce"
        /\ canceller # "done"

-----------------------------------------------------------------------------
(***************************************************************************)
(* What YesHolds and NoSleepOnBytes rest on: the inductive invariant of    *)
(* WaitableSpsc_proof.                                                     *)
(***************************************************************************)
Epoch(s) == IF s = Reader THEN repoch ELSE wepoch
Key(s)   == IF s = Reader THEN rkey[s] ELSE wkey[s]
State(s) == IF s = Reader THEN rstate[s] ELSE wstate[s]

\* The two eventcounts, and that an end is in a window of its own exactly where
\* the code is between prepare_wait and its answer.
Windows ==
    /\ rkey \in [{Reader} -> Nat] /\ wkey \in [{Writer} -> Nat]
    /\ repoch \in Nat /\ wepoch \in Nat
    /\ rstate \in [{Reader} -> {"out", "ready", "parked", "woken"}]
    /\ wstate \in [{Writer} -> {"out", "ready", "parked", "woken"}]
    /\ \A s \in Sides :
          /\ Key(s) <= Epoch(s)
          /\ State(s) = "ready" <=> pc[s] \in {"test", "flag", "clock"}
          /\ State(s) \in {"parked", "woken"} <=> pc[s] = "committed"
          /\ State(s) = "parked" => Key(s) = Epoch(s)

\* An end that found too little and has not been notified since lacks only what
\* the other end is about to announce.
SawTooLittle ==
    \A s \in Sides :
        /\ pc[s] \in {"flag", "clock", "committed"} /\ Key(s) = Epoch(s)
        /\ Avail(s) >= need[s]
        => pc[Other(s)] = "announce"

\* One that found the flag down and has not been notified since will be, by the
\* cancel that raised it.
SawFlagDown ==
    /\ cancelled <=> canceller # "no"
    /\ \A s \in Sides :
          pc[s] \in {"clock", "committed"} /\ Key(s) = Epoch(s) =>
              canceller \in {"no", "readable"} \cup (IF s = Writer THEN {"writable"} ELSE {})

IInv == YesHolds /\ Windows /\ SawTooLittle /\ SawFlagDown
-----------------------------------------------------------------------------
\* Past this, each end could ask for what only the other's next move would give it,
\* and both would sleep: nothing in the code keeps them from it.
SizesMeet == \A r \in ReadSizes, w \in WriteSizes : r + w <= Capacity + 1

\* Everything the producer set out to write goes through, unless somebody cancels,
\* if the sizes meet; no timeout has to help.
GoesThrough ==
    SizesMeet => <>((\E w \in WriteSizes : MaxBytes - written < w) \/ cancelled)

\* A cancel gets both ends out of their waits for good.
CancelReleases == \A s \in Sides : cancelled ~> ~Parked(s)
=============================================================================
