----------------------------- MODULE RetroSpsc ------------------------------
(***************************************************************************)
(* queues/retro_spsc.c: a byte ring between one producer and one consumer. *)
(* Each side owns one counter and reads the other's only when its private  *)
(* copy says there is too little room (or data).  The counters are size_t  *)
(* and wrap; a position in the buffer is the counter masked.  The buffer   *)
(* may be mapped twice in a row (the mirror), in which case a span never   *)
(* has to stop at its end.                                                 *)
(*                                                                         *)
(* A byte is the number of its turn in the stream, so that what the        *)
(* consumer is handed can be told from what it should be handed.  The      *)
(* atomic loads and stores of the other side's counter, and each memcpy,   *)
(* are steps of their own.                                                 *)
(***************************************************************************)
EXTENDS Integers, Sequences, FiniteSets

CONSTANTS
    InitCapacity,    \* what retro_spsc_init rounded the request up to
    MaxCapacity,     \* bound: what retro_spsc_grow may ask for
    Granule,         \* smallest buffer that can be mapped twice
    Mirrored,        \* whether the platform can map a buffer twice
    Wrap,            \* 2^w, the range of size_t
    PowersOfTwo,     \* 1, 2, 4, ..., at least up to Wrap
    Requests,        \* sizes the two sides ask for
    FrameBytes,      \* frame_bytes of retro_spsc_write_frames
    MaxBytes         \* bound: bytes written over the run

\* Of the powers of two only this is used: each divides the larger ones, so that a
\* mask and a wrapped counter agree, and there is one to round any size up to.
ASSUME SpscAssumption ==
    /\ PowersOfTwo \subseteq Nat \ {0}
    /\ \A p, q \in PowersOfTwo : p <= q => q % p = 0
    /\ \A v \in 1..MaxCapacity : \E p \in PowersOfTwo : v <= p /\ p < 2 * v
    /\ {InitCapacity, MaxCapacity, Granule, Wrap} \subseteq PowersOfTwo
    /\ InitCapacity <= MaxCapacity
    /\ 2 * MaxCapacity <= Wrap /\ 2 * Granule <= Wrap   \* SIZE_MAX / 2
    /\ Mirrored \in BOOLEAN
    /\ Requests \subseteq Nat \ {0}
    /\ FrameBytes \in Nat \ {0}
    /\ MaxBytes \in Nat

VARIABLES
    buffer, capacity, mirror,    \* mirror: the buffer is mapped twice
    head, tail,                  \* the shared counters
    cached_tail, cached_head,    \* the producer's and the consumer's copies
    ppc, pn,                     \* the producer's place and its byte count
    cpc, cn, dst,                \* the consumer's place, count and what it read
    written, taken               \* history: bytes ever published, ever consumed

producer == <<ppc, pn>>
consumer == <<cpc, cn, dst>>
shape    == <<capacity, mirror>>
vars == <<buffer, shape, head, tail, cached_tail, cached_head,
          producer, consumer, written, taken>>

Garbage == 0

Min2(a, b) == IF a < b THEN a ELSE b
Max2(a, b) == IF a < b THEN b ELSE a

\* size_t arithmetic.
Sub(a, b) == (a - b + Wrap) % Wrap
Add(a, n) == (a + n) % Wrap

\* mask + 1, and a counter's place in the buffer.
BufferSize(cap, m) == IF m THEN Max2(cap, Granule) ELSE cap
Size       == BufferSize(capacity, mirror)
Index(pos) == pos % Size

\* spsc_contig: (size_t)-1 with the mirror.
Contig(idx) == IF mirror THEN Wrap - 1 ELSE Size - idx

\* memcpy of n bytes of the stream, from its byte `first' on, to buffer + at.
Store(at, first, n) ==
    [a \in DOMAIN buffer |->
        LET i == (a - at + Size) % Size IN IF i < n THEN first + i ELSE buffer[a]]

\* memcpy of n bytes at buffer + at.
Load(at, n) == [i \in 1..n |-> buffer[(at + i - 1) % Size]]

\* Room for the producer and data for the consumer, given a copy of the other
\* side's counter.
Room(t) == capacity - Sub(head, t)
Avail(h) == Sub(h, tail)

\* retro_spsc_init, or retro_spsc_init_mirrored, which falls back on the former.
Init ==
    /\ capacity = InitCapacity
    /\ mirror \in {FALSE, Mirrored}
    /\ buffer = [a \in 0..(Size - 1) |-> Garbage]
    /\ head = 0 /\ tail = 0
    /\ cached_tail = 0 /\ cached_head = 0
    /\ ppc = "idle" /\ pn = 0
    /\ cpc = "idle" /\ cn = 0 /\ dst = <<>>
    /\ written = 0 /\ taken = 0

-----------------------------------------------------------------------------
(***************************************************************************)
(* Mutations: the mistakes the properties below are there to catch.        *)
(***************************************************************************)
\* A stale copy of tail is trusted: the producer gives up without looking.
Write_NoReload(n) ==
    /\ ppc = "idle"
    /\ written + n <= MaxBytes
    /\ pn' = Min2(n, Room(cached_tail))
    /\ ppc' = IF pn' = 0 THEN "idle" ELSE "copy"
    /\ UNCHANGED <<buffer, shape, head, tail, cached_tail, cached_head, consumer,
                   written, taken>>

\* retro_spsc_grow's loop minds the end of the new buffer only.
Run_PastOldEnd(pos, size, m) ==
    LET left == Sub(head, pos)
        to   == IF m THEN left ELSE size - (pos % size)
    IN  Min2(left, to)

\* retro_spsc_clear forgets the private copies.
Clear_KeepsCopies ==
    /\ ppc = "idle" /\ cpc = "idle"
    /\ head' = 0 /\ tail' = 0
    /\ taken' = written
    /\ UNCHANGED <<buffer, shape, cached_tail, cached_head, producer, consumer,
                   written>>

-----------------------------------------------------------------------------
(***************************************************************************)
(* The producer.                                                           *)
(***************************************************************************)
\* retro_spsc_write, up to the first memcpy: the private copy of tail first,
\* the real one only when that says too little.
Write(n) ==
    /\ ppc = "idle"
    /\ written + n <= MaxBytes
    /\ cached_tail' = IF Room(cached_tail) < n THEN tail ELSE cached_tail
    /\ pn' = Min2(n, Room(cached_tail'))
    /\ ppc' = IF pn' = 0 THEN "idle" ELSE "copy"
    /\ UNCHANGED <<buffer, shape, head, tail, cached_head, consumer, written, taken>>

FramesThatFit(t) == (Room(t) \div FrameBytes) * FrameBytes

\* retro_spsc_write_frames: the same, counted in whole frames.
WriteFrames(frames) ==
    /\ ppc = "idle"
    /\ written + frames * FrameBytes <= MaxBytes
    /\ cached_tail' = IF FramesThatFit(cached_tail) < frames * FrameBytes
                      THEN tail ELSE cached_tail
    /\ pn' = Min2(frames * FrameBytes, FramesThatFit(cached_tail'))
    /\ ppc' = IF pn' = 0 THEN "idle" ELSE "copy"
    /\ UNCHANGED <<buffer, shape, head, tail, cached_head, consumer, written, taken>>

CopyFirst ==
    /\ ppc = "copy"
    /\ buffer' = Store(Index(head), written + 1, Min2(Contig(Index(head)), pn))
    /\ ppc' = "rest"
    /\ UNCHANGED <<shape, head, tail, cached_tail, cached_head, pn, consumer,
                   written, taken>>

CopyRest ==
    /\ ppc = "rest"
    /\ LET first == Min2(Contig(Index(head)), pn)
       IN  buffer' = Store(0, written + first + 1, pn - first)
    /\ ppc' = "publish"
    /\ UNCHANGED <<shape, head, tail, cached_tail, cached_head, pn, consumer,
                   written, taken>>

\* The release store of head, also that of retro_spsc_write_end.
PublishHead ==
    /\ ppc = "publish"
    /\ head' = Add(head, pn)
    /\ written' = written + pn
    /\ ppc' = "idle" /\ pn' = 0
    /\ UNCHANGED <<buffer, shape, tail, cached_tail, cached_head, consumer, taken>>

\* retro_spsc_write_begin hands out a span ...
WriteBegin ==
    /\ ppc = "idle"
    /\ LET span == Contig(Index(head))
       IN  /\ cached_tail' = IF Room(cached_tail) < Min2(span, capacity)
                             THEN tail ELSE cached_tail
           /\ pn' = Min2(span, Room(cached_tail'))
    /\ ppc' = "span"
    /\ UNCHANGED <<buffer, shape, head, tail, cached_head, consumer, written, taken>>

\* ... and the caller fills n bytes of it before it calls retro_spsc_write_end,
\* which does nothing for n = 0.
FillSpan(n) ==
    /\ ppc = "span"
    /\ n <= pn /\ written + n <= MaxBytes
    /\ buffer' = Store(Index(head), written + 1, n)
    /\ pn' = n
    /\ ppc' = IF n = 0 THEN "idle" ELSE "publish"
    /\ UNCHANGED <<shape, head, tail, cached_tail, cached_head, consumer,
                   written, taken>>

(***************************************************************************)
(* The consumer.                                                           *)
(***************************************************************************)
\* retro_spsc_read, retro_spsc_peek and retro_spsc_skip start alike.
Look(n, then) ==
    /\ cpc = "idle"
    /\ cached_head' = IF Avail(cached_head) < n THEN head ELSE cached_head
    /\ cn' = Min2(n, Avail(cached_head'))
    /\ cpc' = IF cn' = 0 THEN "idle" ELSE then
    /\ dst' = <<>>
    /\ UNCHANGED <<buffer, shape, head, tail, cached_tail, producer, written, taken>>

Read(n) == Look(n, "copy")
Peek(n) == Look(n, "peek")
Skip(n) == Look(n, "skip")

\* retro_spsc_read_begin
ReadBegin ==
    /\ cpc = "idle"
    /\ LET span == Contig(Index(tail))
       IN  /\ cached_head' = IF Avail(cached_head) < Min2(span, capacity)
                             THEN head ELSE cached_head
           /\ cn' = Min2(span, Avail(cached_head'))
    /\ cpc' = "span"
    /\ dst' = <<>>
    /\ UNCHANGED <<buffer, shape, head, tail, cached_tail, producer, written, taken>>

\* The first memcpy out ...
ReadFirst ==
    /\ cpc \in {"copy", "peek"}
    /\ dst' = Load(Index(tail), Min2(Contig(Index(tail)), cn))
    /\ cpc' = IF cpc = "copy" THEN "rest" ELSE "peekrest"
    /\ UNCHANGED <<buffer, shape, head, tail, cached_tail, cached_head, producer,
                   cn, written, taken>>

\* ... and the second.
ReadRest ==
    /\ cpc \in {"rest", "peekrest"}
    /\ dst' = dst \o Load(0, cn - Len(dst))
    /\ cpc' = IF cpc = "rest" THEN "publish" ELSE "peeked"
    /\ UNCHANGED <<buffer, shape, head, tail, cached_tail, cached_head, producer,
                   cn, written, taken>>

\* retro_spsc_peek returns; nothing is consumed.
PeekReturn ==
    /\ cpc = "peeked"
    /\ cpc' = "idle" /\ cn' = 0 /\ dst' = <<>>
    /\ UNCHANGED <<buffer, shape, head, tail, cached_tail, cached_head, producer,
                   written, taken>>

\* The caller reads n bytes of the span, then calls retro_spsc_read_end.
UseSpan(n) ==
    /\ cpc = "span"
    /\ n <= cn
    /\ dst' = Load(Index(tail), n)
    /\ cn' = n
    /\ cpc' = IF n = 0 THEN "idle" ELSE "publish"
    /\ UNCHANGED <<buffer, shape, head, tail, cached_tail, cached_head, producer,
                   written, taken>>

\* The release store of tail.
PublishTail ==
    /\ cpc \in {"publish", "skip"}
    /\ tail' = Add(tail, cn)
    /\ taken' = taken + cn
    /\ cpc' = "idle" /\ cn' = 0 /\ dst' = <<>>
    /\ UNCHANGED <<buffer, shape, head, cached_tail, cached_head, producer, written>>

(***************************************************************************)
(* With both sides quiet, which their callers see to.                      *)
(***************************************************************************)
\* retro_spsc_clear
Clear ==
    /\ ppc = "idle" /\ cpc = "idle"
    /\ head' = 0 /\ tail' = 0
    /\ cached_tail' = 0 /\ cached_head' = 0
    /\ taken' = written
    /\ UNCHANGED <<buffer, shape, producer, consumer, written>>

\* One turn of retro_spsc_grow's loop copies the bytes from pos on up to head, but
\* not past the end of the old buffer nor past that of the new one, unless these are
\* mapped twice.
Run(pos, size, m) ==
    LET left == Sub(head, pos)
        from == IF mirror THEN left ELSE Size - Index(pos)
        to   == IF m THEN left ELSE size - (pos % size)
    IN  Min2(left, Min2(from, to))

\* The byte at buffer + i: past the end there is only a second mapping.
Old(i) == IF mirror \/ i < Size THEN buffer[i % Size] ELSE Garbage

\* memcpy of the run at pos into the new buffer, over what is in `bytes'.
CopyRun(bytes, pos, run, size, m) ==
    [a \in 0..(size - 1) |->
        LET i == IF m THEN (a - (pos % size) + size) % size ELSE a - (pos % size)
        IN  IF i \in 0..(run - 1) THEN Old(Index(pos) + i) ELSE bytes[a]]

\* What the loop leaves in the new buffer, from the turn with n bytes to go.
Moved(size, m) ==
    LET moved[n \in 0..Sub(head, tail)] ==
            IF n = 0 THEN [a \in 0..(size - 1) |-> Garbage]
            ELSE LET pos == Sub(head, n)
                     run == Run(pos, size, m)
                 IN  CopyRun(moved[n - run], pos, run, size, m)
    IN  moved[Sub(head, tail)]

\* spsc_round_up_pow2
RoundUpPow2(v) == CHOOSE p \in PowersOfTwo : v <= p /\ p < 2 * v

\* retro_spsc_grow.  A size that fits already changes nothing; a mirrored queue
\* stays mirrored if the larger mapping can be had.
Grow(min_capacity, m) ==
    /\ ppc = "idle" /\ cpc = "idle"
    /\ min_capacity > capacity
    /\ capacity' = RoundUpPow2(min_capacity)
    /\ mirror' = m
    /\ buffer' = Moved(BufferSize(capacity', m), m)
    /\ cached_tail' = tail /\ cached_head' = head
    /\ UNCHANGED <<head, tail, producer, consumer, written, taken>>

ProducerStep ==
    \/ \E n \in Requests : Write(n) \/ WriteFrames(n)
    \/ \E n \in Requests \cup {0} : FillSpan(n)
    \/ CopyFirst \/ CopyRest \/ PublishHead \/ WriteBegin

ConsumerStep ==
    \/ \E n \in Requests : Read(n) \/ Peek(n) \/ Skip(n)
    \/ \E n \in Requests \cup {0} : UseSpan(n)
    \/ ReadBegin \/ ReadFirst \/ ReadRest \/ PeekReturn \/ PublishTail

Next ==
    \/ ProducerStep \/ ConsumerStep
    \/ Clear
    \/ \E cap \in 1..MaxCapacity, m \in {FALSE, mirror} : Grow(cap, m)

Spec == Init /\ [][Next]_vars

-----------------------------------------------------------------------------

TypeOK ==
    /\ capacity \in PowersOfTwo /\ capacity <= MaxCapacity
    /\ buffer \in [0..(Size - 1) -> 0..MaxBytes]
    /\ mirror \in BOOLEAN
    /\ {head, tail, cached_tail, cached_head} \subseteq 0..(Wrap - 1)
    /\ ppc \in {"idle", "copy", "rest", "publish", "span"}
    /\ cpc \in {"idle", "copy", "rest", "publish", "skip", "span",
                "peek", "peekrest", "peeked"}
    /\ pn \in 0..(Wrap - 1) /\ cn \in 0..(Wrap - 1)
    /\ written \in 0..MaxBytes /\ taken \in 0..MaxBytes

\* "Invariant: 0 <= head - tail <= capacity" (retro_spsc_write_avail), with the
\* counters wrapped any number of times, and each side's copy of the other's
\* counter "never ahead of the real one".
CountersOrdered ==
    /\ Sub(head, tail) = written - taken
    /\ Sub(head, tail) <= capacity
    /\ Sub(cached_head, tail) <= Sub(head, tail)
    /\ Sub(head, tail) <= Sub(head, cached_tail)
    /\ Sub(head, cached_tail) <= capacity

\* Bytes between tail and head.
Unread == [i \in 1..Sub(head, tail) |-> buffer[Index(Add(tail, i - 1))]]

\* What a read, a peek or a span hands to the consumer is the next bytes of the
\* stream, though the producer writes meanwhile.
ReadsInOrder ==
    cpc \in {"publish", "peeked"} =>
        /\ Len(dst) = cn
        /\ \A i \in 1..cn : dst[i] = taken + i

\* The stream arrives whole and in order: the counters say how much of it is in
\* the ring, the ring holds that much of it, and what leaves it is what comes next.
StreamIntact ==
    /\ TypeOK
    /\ CountersOrdered
    /\ \A i \in DOMAIN Unread : Unread[i] = taken + i
    /\ ReadsInOrder

\* The bytes being copied in and the bytes being copied out never share a place.
NoDataRace ==
    ppc \in {"copy", "rest", "publish", "span"} /\ cpc # "idle" =>
        {Index(Add(head, i)) : i \in 0..(pn - 1)}
            \cap {Index(Add(tail, i)) : i \in 0..(cn - 1)} = {}

\* A call gives less than asked only when there really is no more: the copies
\* may be stale, the answer is not.
ShortOnlyWhenShort ==
    [][/\ \A n \in Requests : Write(n) /\ pn' < n => pn' = Room(tail)
       /\ \A n \in Requests :
             WriteFrames(n) /\ pn' < n * FrameBytes => pn' = FramesThatFit(tail)
       /\ WriteBegin /\ pn' < Contig(Index(head)) => pn' = Room(tail)
       /\ \A n \in Requests : Look(n, "copy") /\ cn' < n => cn' = Avail(head)
       /\ ReadBegin /\ cn' < Contig(Index(tail)) => cn' = Avail(head)]_vars

-----------------------------------------------------------------------------
(***************************************************************************)
(* What the above rests on: the inductive invariant of RetroSpsc_proof.    *)
(***************************************************************************)
\* Bytes the producer has copied in and not published.
Stored == IF ppc = "rest" THEN Min2(Contig(Index(head)), pn)
          ELSE IF ppc = "publish" THEN pn ELSE 0

\* The ring holds the stream from the consumer's next byte to the last one copied.
RingHolds ==
    \A k \in 0..(written - taken + Stored - 1) :
        buffer[Index(Add(tail, k))] = taken + 1 + k

\* What the producer is putting in fits, even by its copy of tail.
ProducerFits ==
    /\ ppc = "idle" => pn = 0
    /\ pn <= Room(cached_tail)
    /\ ppc \in {"copy", "rest", "publish"} => written + pn <= MaxBytes

\* What the consumer is taking out is there, even by its copy of head, and is what
\* comes next.
ConsumerHas ==
    /\ cpc = "idle" => cn = 0
    /\ cn <= Avail(cached_head)
    /\ dst \in Seq(0..MaxBytes)
    /\ cpc \in {"rest", "peekrest"} => Len(dst) = Min2(Contig(Index(tail)), cn)
    /\ cpc \in {"publish", "peeked"} => Len(dst) = cn
    /\ cpc \in {"rest", "peekrest", "publish", "peeked"} =>
           \A i \in 1..Len(dst) : dst[i] = taken + i

IInv == TypeOK /\ CountersOrdered /\ RingHolds /\ ProducerFits /\ ConsumerHas
=============================================================================
