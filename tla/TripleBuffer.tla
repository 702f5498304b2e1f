---------------------------- MODULE TripleBuffer ----------------------------
(***************************************************************************)
(* include/queues/retro_triple_buffer.h: three buffers between a producer, *)
(* which fills one with a frame, and a consumer, which reads the newest    *)
(* finished one for as long as it likes.  Each side owns one buffer; the   *)
(* third waits in the middle, named by one atomic word.                    *)
(*                                                                         *)
(* A frame is a number, counted up by the producer; what a buffer holds    *)
(* while it is being filled is Torn.  The accesses to `mid' are the atomic *)
(* steps; `back' and `front' are private to their side.                    *)
(***************************************************************************)
EXTENDS Integers

CONSTANT MaxFrames    \* bound: frames the producer publishes

ASSUME MaxFramesAssumption == MaxFrames \in Nat

VARIABLES
    buf,      \* the frame in each buffer, or Torn
    mid,      \* the atomic word: [idx |-> a buffer, fresh |-> the FRESH bit]
    back,     \* the producer's buffer
    front,    \* the consumer's buffer
    frame,    \* the frame the producer fills or filled last
    ppc,      \* where the producer is: "idle", "filling" or "filled"
    cpc,      \* where the consumer is: "idle", "swap" or "reading"
    seen,     \* history: the newest published frame when FRESH was seen
    published \* history: the newest published frame

vars == <<buf, mid, back, front, frame, ppc, cpc, seen, published>>

Buffers == 0..2
Torn    == -1

(***************************************************************************)
(* retro_triple_buffer_init.  The buffers hold what they were initialised  *)
(* with, frame 0, which is not fresh.                                      *)
(***************************************************************************)
Init ==
    /\ buf = [b \in Buffers |-> 0]
    /\ back = 0
    /\ front = 2
    /\ mid = [idx |-> 1, fresh |-> FALSE]
    /\ frame = 0
    /\ ppc = "idle"
    /\ cpc = "idle"
    /\ seen = 0
    /\ published = 0

(***************************************************************************)
(* Mutations: the mistakes the properties below are there to catch.        *)
(***************************************************************************)
\* The producer forgets to take the old middle buffer.
Publish_KeepsBack ==
    /\ ppc = "filled"
    /\ mid' = [idx |-> back, fresh |-> TRUE]
    /\ published' = frame
    /\ ppc' = "idle"
    /\ UNCHANGED <<buf, back, front, frame, cpc, seen>>

\* The FRESH bit is not masked off the exchanged word.
Publish_Unmasked ==
    /\ ppc = "filled"
    /\ mid' = [idx |-> back, fresh |-> TRUE]
    /\ back' = IF mid.fresh THEN mid.idx + 4 ELSE mid.idx
    /\ published' = frame
    /\ ppc' = "idle"
    /\ UNCHANGED <<buf, front, frame, cpc, seen>>

\* The producer publishes without the FRESH bit.
Publish_NotFresh ==
    /\ ppc = "filled"
    /\ mid' = [idx |-> back, fresh |-> FALSE]
    /\ back' = mid.idx
    /\ published' = frame
    /\ ppc' = "idle"
    /\ UNCHANGED <<buf, front, frame, cpc, seen>>

\* FRESH is not looked at: the consumer swaps for what it gave away before.
TakeFresh_Unchecked ==
    /\ cpc = "idle"
    /\ seen' = published
    /\ cpc' = "swap"
    /\ UNCHANGED <<buf, mid, back, front, frame, ppc, published>>

-----------------------------------------------------------------------------
(***************************************************************************)
(* The operations.                                                         *)
(***************************************************************************)
\* The producer asks for retro_triple_buffer_back and starts to overwrite it.
Back ==
    /\ ppc = "idle"
    /\ frame < MaxFrames
    /\ frame' = frame + 1
    /\ buf' = [buf EXCEPT ![back] = Torn]
    /\ ppc' = "filling"
    /\ UNCHANGED <<mid, back, front, cpc, seen, published>>

\* The last byte of the frame is in place.
Fill ==
    /\ ppc = "filling"
    /\ buf' = [buf EXCEPT ![back] = frame]
    /\ ppc' = "filled"
    /\ UNCHANGED <<mid, back, front, frame, cpc, seen, published>>

\* retro_triple_buffer_publish: one exchange, the old middle becomes the back.
Publish ==
    /\ ppc = "filled"
    /\ mid' = [idx |-> back, fresh |-> TRUE]
    /\ back' = mid.idx
    /\ published' = frame
    /\ ppc' = "idle"
    /\ UNCHANGED <<buf, front, frame, cpc, seen>>

\* retro_triple_buffer_take finds no fresh frame; retro_triple_buffer_front
\* then reads the buffer the consumer already has.
TakeNothing ==
    /\ cpc = "idle"
    /\ ~mid.fresh
    /\ cpc' = "reading"
    /\ UNCHANGED <<buf, mid, back, front, frame, ppc, seen, published>>

\* retro_triple_buffer_take sees FRESH ...
TakeFresh ==
    /\ cpc = "idle"
    /\ mid.fresh
    /\ seen' = published
    /\ cpc' = "swap"
    /\ UNCHANGED <<buf, mid, back, front, frame, ppc, published>>

\* ... and exchanges its own buffer for the one in the middle.
TakeSwap ==
    /\ cpc = "swap"
    /\ front' = mid.idx
    /\ mid' = [idx |-> front, fresh |-> FALSE]
    /\ cpc' = "reading"
    /\ UNCHANGED <<buf, back, frame, ppc, seen, published>>

\* The consumer is done with the buffer it was handed: its next call may come.
Release ==
    /\ cpc = "reading"
    /\ cpc' = "idle"
    /\ UNCHANGED <<buf, mid, back, front, frame, ppc, seen, published>>

Producer == Back \/ Fill \/ Publish
Consumer == TakeNothing \/ TakeFresh \/ TakeSwap \/ Release

Next == Producer \/ Consumer

\* The producer may stop at any time; the consumer polls every frame it draws.
Spec == Init /\ [][Next]_vars /\ WF_vars(Consumer)

-----------------------------------------------------------------------------

TypeOK ==
    /\ buf \in [Buffers -> 0..MaxFrames \cup {Torn}]
    /\ mid \in [idx : Buffers, fresh : BOOLEAN]
    /\ back \in Buffers
    /\ front \in Buffers
    /\ frame \in 0..MaxFrames
    /\ seen \in 0..MaxFrames
    /\ published \in 0..MaxFrames
    /\ ppc \in {"idle", "filling", "filled"}
    /\ cpc \in {"idle", "swap", "reading"}

\* Each of the three buffers has exactly one owner, whatever the two sides'
\* exchanges interleave to.
Ownership == back # mid.idx /\ mid.idx # front /\ front # back

\* The parts of the inductive invariant that say what the buffers hold.
Contents ==
    /\ buf[front] # Torn /\ buf[mid.idx] # Torn
    /\ buf[front] <= published
    /\ mid.fresh => buf[mid.idx] = published /\ buf[front] < published
    /\ ~mid.fresh => buf[front] = published
    /\ cpc = "swap" => mid.fresh
    /\ seen <= published
    /\ ppc = "idle" => published = frame
    /\ ppc # "idle" => published = frame - 1
    /\ ppc = "filled" => buf[back] = frame

IInv == TypeOK /\ Ownership /\ Contents

\* The consumer's buffer holds a whole frame: the producer never writes into a
\* buffer the consumer was handed, nor hands one over half filled.
NoTornRead == cpc = "reading" => buf[front] # Torn

\* "Once it is seen the exchange takes a buffer at least that new"
\* (retro_triple_buffer_take): a publish between the load and the exchange may
\* only make the frame newer.
AtLeastAsNew == [][TakeSwap => buf'[front'] >= seen]_vars

\* The frame the consumer shows never goes back in time.
NeverOlder == [][buf'[front'] >= buf[front]]_vars

\* The last frame is not forgotten: the consumer, which keeps calling, gets to
\* any frame the producer published, or to a newer one.
NewestShown ==
    \A f \in 1..MaxFrames : published = f ~> cpc = "reading" /\ buf[front] >= f

=============================================================================
