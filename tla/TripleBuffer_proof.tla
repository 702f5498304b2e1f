------------------------- MODULE TripleBuffer_proof -------------------------
(***************************************************************************)
(* The triple buffer's safety for any number of frames.  The invariant is  *)
(* IInv: every buffer has one owner, and the frame the consumer holds, the *)
(* one waiting and the one being filled are ordered the way the FRESH bit  *)
(* says.  Ownership alone is inductive; that no frame is torn or out of    *)
(* order needs Contents as well.                                           *)
(***************************************************************************)
EXTENDS TripleBuffer, TLAPS

\* The buffers and the FRESH word as retro_triple_buffer_init leaves them.
LEMMA InitIInv == Init => IInv
BY MaxFramesAssumption
   DEF Init, IInv, TypeOK, Ownership, Contents, Buffers, Torn

\* Every step of retro_triple_buffer_publish, _take and of the two sides'
\* use of their own buffers preserves the invariant.
LEMMA NextIInv == IInv /\ [Next]_vars => IInv'
<1> SUFFICES ASSUME IInv, [Next]_vars PROVE IInv'
  OBVIOUS
<1> USE MaxFramesAssumption DEF IInv, TypeOK, Ownership, Contents, Buffers, Torn
<1>1. CASE Back
  BY <1>1 DEF Back
<1>2. CASE Fill
  BY <1>2 DEF Fill
<1>3. CASE Publish
  BY <1>3 DEF Publish
<1>4. CASE TakeNothing
  BY <1>4 DEF TakeNothing
<1>5. CASE TakeFresh
  BY <1>5 DEF TakeFresh
<1>6. CASE TakeSwap
  BY <1>6 DEF TakeSwap
<1>7. CASE Release
  BY <1>7 DEF Release
<1>8. CASE UNCHANGED vars
  BY <1>8 DEF vars
<1> QED
  BY <1>1, <1>2, <1>3, <1>4, <1>5, <1>6, <1>7, <1>8
     DEF Next, Producer, Consumer

\* The inductive invariant holds of every behaviour of the two sides.
THEOREM Invariance == Spec => []IInv
BY InitIInv, NextIInv, PTL DEF Spec

\* The types of every field of retro_triple_buffer_t, and the frames, hold in
\* every reachable state.
THEOREM TypeCorrect == Spec => []TypeOK
<1>1. IInv => TypeOK
  BY DEF IInv
<1> QED
  BY <1>1, Invariance, PTL

\* The producer, the consumer and the middle never name the same buffer.
THEOREM OneOwner == Spec => []Ownership
<1>1. IInv => Ownership
  BY DEF IInv
<1> QED
  BY <1>1, Invariance, PTL

\* retro_triple_buffer_front never hands out a buffer that is being filled.
THEOREM Untorn == Spec => []NoTornRead
<1>1. IInv => NoTornRead
  BY DEF IInv, Contents, NoTornRead
<1> QED
  BY <1>1, Invariance, PTL

\* The exchange in retro_triple_buffer_take gets the frame whose FRESH bit was
\* seen, or a newer one.
THEOREM TakesAtLeastAsNew == Spec => AtLeastAsNew
<1>1. IInv /\ [Next]_vars => [TakeSwap => buf'[front'] >= seen]_vars
  BY DEF IInv, TypeOK, Contents, TakeSwap, Buffers, Torn
<1> QED
  BY <1>1, Invariance, PTL DEF Spec, AtLeastAsNew

\* What the consumer shows is never followed by an older frame.
THEOREM ShowsNeverOlder == Spec => NeverOlder
<1>1. ASSUME IInv, [Next]_vars PROVE [buf'[front'] >= buf[front]]_vars
  <2> USE DEF IInv, TypeOK, Ownership, Contents, Buffers, Torn
  <2>1. CASE Back
    BY <1>1, <2>1 DEF Back
  <2>2. CASE Fill
    BY <1>1, <2>2 DEF Fill
  <2>3. CASE TakeSwap
    BY <1>1, <2>3 DEF TakeSwap
  <2>4. CASE Publish \/ TakeNothing \/ TakeFresh \/ Release
    BY <1>1, <2>4 DEF Publish, TakeNothing, TakeFresh, Release
  <2> QED
    BY <1>1, <2>1, <2>2, <2>3, <2>4 DEF Next, Producer, Consumer
<1> QED
  BY <1>1, Invariance, PTL DEF Spec, NeverOlder
=============================================================================
