--------------------------- MODULE RetroSpsc_proof ---------------------------
(***************************************************************************)
(* The byte ring for every capacity, every size of the counters, every     *)
(* request and with or without the mirror: the stream arrives whole, the   *)
(* two sides never touch the same byte, and a short answer is a true one.  *)
(*                                                                         *)
(* The counters wrap and are masked.  The first half turns both remainders *)
(* into additions: a counter k bytes past another is, in the buffer, k     *)
(* places on from it (IndexAt).  After that, where a byte is depends only  *)
(* on how far it is from tail, and the steps are linear arithmetic.        *)
(***************************************************************************)
EXTENDS RetroSpsc, SequenceTheorems, WellFoundedInduction, TLAPS

(***************************************************************************)
(* Remainders.                                                             *)
(***************************************************************************)
\* Below twice the modulus a remainder takes the modulus away at most once.
LEMMA ModLin ==
    ASSUME NEW m \in Nat \ {0}, NEW x \in 0..(2 * m - 1)
    PROVE  x % m = IF x < m THEN x ELSE x - m
<1>1. CASE x < m
  BY <1>1, SMT
<1>2. CASE x >= m
  <2>1. x - m \in 0..(m - 1) /\ x = 1 * m + (x - m)
    BY <1>2, SMT
  <2> QED
    BY <2>1, <1>2, SMT
<1> QED
  BY <1>1, <1>2, SMT

\* Quotient and remainder.
LEMMA DivMod ==
    ASSUME NEW m \in Nat \ {0}, NEW x \in Nat
    PROVE  /\ x = (x \div m) * m + (x % m)
           /\ x % m \in 0..(m - 1)
           /\ x \div m \in Nat
BY SMT

\* They are the only ones.
LEMMA ModUnique ==
    ASSUME NEW m \in Nat \ {0}, NEW q \in Nat, NEW r \in 0..(m - 1)
    PROVE  (q * m + r) % m = r
BY SMT

\* What the provers have to be told of products.
LEMMA Mul ==
    ASSUME NEW S \in Nat, NEW a \in Nat, NEW b \in Nat
    PROVE  /\ a * S \in Nat
           /\ (a + 1) * S = a * S + S
           /\ a <= b => a * S <= b * S
BY SMT

\* The subtraction of two counters.
LEMMA SubLin ==
    ASSUME NEW a \in 0..(Wrap - 1), NEW b \in 0..(Wrap - 1)
    PROVE  /\ Sub(a, b) = IF a >= b THEN a - b ELSE a - b + Wrap
           /\ Sub(a, b) \in 0..(Wrap - 1)
<1> DEFINE x == a - b + Wrap
<1>0. Wrap \in Nat \ {0}
  BY SpscAssumption
<1>1. x \in 0..(2 * Wrap - 1)
  BY <1>0
<1>2. x % Wrap = IF x < Wrap THEN x ELSE x - Wrap
  <2> HIDE DEF x
  <2> QED
    BY <1>0, <1>1, ModLin
<1> QED
  BY <1>0, <1>2, SMT DEF Sub

\* The advance of a counter.
LEMMA AddLin ==
    ASSUME NEW p \in 0..(Wrap - 1), NEW n \in 0..Wrap
    PROVE  /\ Add(p, n) = IF p + n < Wrap THEN p + n ELSE p + n - Wrap
           /\ Add(p, n) \in 0..(Wrap - 1)
<1> DEFINE x == p + n
<1>0. Wrap \in Nat \ {0}
  BY SpscAssumption
<1>1. x \in 0..(2 * Wrap - 1)
  BY <1>0
<1>2. x % Wrap = IF x < Wrap THEN x ELSE x - Wrap
  <2> HIDE DEF x
  <2> QED
    BY <1>0, <1>1, ModLin
<1> QED
  BY <1>0, <1>2, SMT DEF Add

\* A counter that advances, seen from behind and from ahead.
LEMMA SubAdd ==
    ASSUME NEW h \in 0..(Wrap - 1), NEW t \in 0..(Wrap - 1), NEW n \in 0..(Wrap - 1)
    PROVE  /\ Sub(h, t) + n < Wrap => Sub(Add(h, n), t) = Sub(h, t) + n
           /\ n <= Sub(h, t) => Sub(h, Add(t, n)) = Sub(h, t) - n
           /\ Add(h, n) \in 0..(Wrap - 1) /\ Add(t, n) \in 0..(Wrap - 1)
<1>0. Wrap \in Nat \ {0}
  BY SpscAssumption
<1>1. Wrap \in Nat \ {0} /\ n \in 0..Wrap
  BY <1>0
<1>2. /\ Add(h, n) = (IF h + n < Wrap THEN h + n ELSE h + n - Wrap)
      /\ Add(t, n) = (IF t + n < Wrap THEN t + n ELSE t + n - Wrap)
      /\ Add(h, n) \in 0..(Wrap - 1) /\ Add(t, n) \in 0..(Wrap - 1)
  BY <1>1, AddLin
<1>3. /\ Sub(h, t) = IF h >= t THEN h - t ELSE h - t + Wrap
      /\ Sub(Add(h, n), t) = IF Add(h, n) >= t THEN Add(h, n) - t ELSE Add(h, n) - t + Wrap
      /\ Sub(h, Add(t, n)) = IF h >= Add(t, n) THEN h - Add(t, n) ELSE h - Add(t, n) + Wrap
  BY <1>2, SubLin
<1> QED
  BY <1>1, <1>2, <1>3

\* Two advances are one.
LEMMA AddAdd ==
    ASSUME NEW p \in 0..(Wrap - 1), NEW j \in 0..Wrap, NEW k \in 0..Wrap, j + k <= Wrap
    PROVE  Add(Add(p, j), k) = Add(p, j + k)
<1>1. Wrap \in Nat \ {0}
  BY SpscAssumption
<1>2. j + k \in 0..Wrap
  BY <1>1
<1>3. /\ Add(p, j) = (IF p + j < Wrap THEN p + j ELSE p + j - Wrap)
      /\ Add(p, j) \in 0..(Wrap - 1)
      /\ Add(p, j + k) = IF p + (j + k) < Wrap THEN p + (j + k) ELSE p + (j + k) - Wrap
  BY <1>2, AddLin
<1>4. Add(Add(p, j), k) =
         IF Add(p, j) + k < Wrap THEN Add(p, j) + k ELSE Add(p, j) + k - Wrap
  BY <1>3, AddLin
<1> QED
  BY <1>1, <1>3, <1>4

\* k places on from place i of a buffer of S, and how far on from `at' place a is.
Place(i, S, k)   == IF i + k < S THEN i + k ELSE i + k - S
Offset(at, S, a) == IF a >= at THEN a - at ELSE a - at + S

\* A counter that wraps and is then masked: the mask divides the wrap, so that the
\* wrap does not show.
LEMMA MaskedAdd ==
    ASSUME NEW S \in Nat \ {0}, Wrap % S = 0, NEW p \in 0..(Wrap - 1), NEW n \in 0..S
    PROVE  Add(p, n) % S = Place(p % S, S, n)
<1> DEFINE a == p \div S
           i == p % S
           q == Wrap \div S
<1>w. Wrap \in Nat \ {0}
  BY SpscAssumption
<1>1. p = a * S + i /\ i \in 0..(S - 1) /\ a \in Nat /\ p % S = i
  <2>1. p \in Nat
    BY <1>w
  <2> QED
    BY <2>1, DivMod
<1>2. Wrap = q * S /\ q \in Nat
  <2>1. Wrap = (Wrap \div S) * S + (Wrap % S) /\ (Wrap \div S) \in Nat
    BY <1>w, DivMod
  <2> QED
    BY <2>1
<1> HIDE DEF a, i, q
<1>3. a * S \in Nat /\ (a + 1) \in Nat /\ (a + 1) * S = a * S + S
  BY <1>1, Mul
<1>4. S <= Wrap
  <2>1. q # 0
    BY <1>w, <1>2
  <2> QED
    BY <1>2, <2>1, Mul
<1>5. CASE p + n < Wrap
  <2>1. Add(p, n) = p + n
    BY <1>w, <1>4, <1>5, AddLin
  <2>2. CASE i + n < S
    <3>1. p + n = a * S + (i + n) /\ i + n \in 0..(S - 1)
      BY <1>1, <1>3, <2>2
    <3> QED
      BY <3>1, <2>1, <2>2, <1>1, ModUnique DEF Place
  <2>3. CASE i + n >= S
    <3>1. p + n = (a + 1) * S + (i + n - S) /\ i + n - S \in 0..(S - 1)
      BY <1>1, <1>3, <2>3
    <3>2. ((a + 1) * S + (i + n - S)) % S = i + n - S
      BY <3>1, <1>3, ModUnique
    <3> QED
      BY <3>1, <3>2, <2>1, <2>3, <1>1 DEF Place
  <2> QED
    BY <2>2, <2>3, <1>1
<1>6. CASE p + n >= Wrap
  <2>1. a + 1 = q
    <3>1. CASE a + 1 > q
      <4>1. q <= a
        BY <3>1, <1>1, <1>2
      <4>2. q * S <= a * S
        BY <4>1, <1>1, <1>2, Mul
      <4> QED
        BY <4>2, <1>1, <1>2, <1>3
    <3>2. CASE a + 2 <= q
      <4>1. (a + 2) * S <= q * S
        BY <3>2, <1>1, <1>2, Mul
      <4>2. (a + 2) * S = a * S + 2 * S
        BY <1>1, SMT
      <4> QED
        BY <4>1, <4>2, <1>1, <1>2, <1>3, <1>6
    <3> QED
      BY <3>1, <3>2, <1>1, <1>2
  <2>2. p + n - Wrap = i + n - S /\ i + n - S \in 0..(S - 1)
    BY <2>1, <1>1, <1>2, <1>3, <1>6
  <2>3. Add(p, n) = i + n - S
    BY <1>w, <1>4, <1>6, <2>2, AddLin
  <2>4. (i + n - S) % S = i + n - S
    BY <2>2
  <2> QED
    BY <2>2, <2>3, <2>4, <1>1 DEF Place
<1> QED
  BY <1>w, <1>5, <1>6

\* How far apart two places are.
LEMMA PlaceOffset ==
    ASSUME NEW S \in Nat \ {0}, NEW i \in 0..(S - 1), NEW d \in 0..S, NEW k \in 0..(S - 1)
    PROVE  /\ Place(i, S, k) \in 0..(S - 1) /\ Place(i, S, d) \in 0..(S - 1)
           /\ Offset(Place(i, S, d), S, Place(i, S, k)) = IF k >= d THEN k - d ELSE k - d + S
BY SMT DEF Place, Offset

-----------------------------------------------------------------------------
(***************************************************************************)
(* The buffer.                                                             *)
(***************************************************************************)
\* The buffer is a power of two, as large as the capacity or larger, and at most
\* half the range of the counters.
LEMMA Geometry ==
    ASSUME TypeOK
    PROVE  /\ Wrap \in Nat \ {0}
           /\ capacity \in Nat \ {0} /\ Size \in Nat \ {0}
           /\ capacity <= Size /\ 2 * Size <= Wrap
           /\ Wrap % Size = 0
<1>1. capacity \in Nat \ {0} /\ Wrap \in Nat \ {0} /\ Granule \in Nat \ {0}
      /\ MaxCapacity \in Nat \ {0}
  BY SpscAssumption DEF TypeOK
<1>2. Size \in PowersOfTwo /\ capacity <= Size /\ 2 * Size <= Wrap
  BY <1>1, SpscAssumption DEF TypeOK, Size, BufferSize, Max2
<1>3. Size \in Nat \ {0}
  BY <1>2, SpscAssumption
<1>4. Size <= Wrap
  BY <1>1, <1>2, <1>3
<1>5. Wrap % Size = 0
  BY <1>2, <1>4, SpscAssumption
<1> QED
  BY <1>1, <1>2, <1>3, <1>5

\* A position k bytes past another is k places on.
LEMMA IndexAt ==
    ASSUME TypeOK, NEW p \in 0..(Wrap - 1), NEW k \in 0..Size
    PROVE  /\ Index(p) \in 0..(Size - 1)
           /\ Index(Add(p, k)) = Place(Index(p), Size, k)
           /\ Add(p, k) \in 0..(Wrap - 1)
<1>1. /\ Wrap \in Nat \ {0} /\ Size \in Nat \ {0}
      /\ 2 * Size <= Wrap /\ Wrap % Size = 0
  BY Geometry
<1>2. p \in Nat /\ k \in 0..Wrap
  BY <1>1
<1>3. Index(p) \in 0..(Size - 1)
  BY <1>1, <1>2, DivMod DEF Index
<1>4. Add(p, k) % Size = Place(p % Size, Size, k)
  BY <1>1, MaskedAdd
<1>5. Add(p, k) \in 0..(Wrap - 1)
  BY <1>2, AddLin
<1> QED
  BY <1>3, <1>4, <1>5 DEF Index

\* What the invariant says of the counters, without a wrap in it: the unread bytes
\* and those being written fit the buffer, and head is as many places on from tail
\* as there are unread bytes.
LEMMA Distances ==
    ASSUME IInv
    PROVE  /\ written - taken \in 0..capacity /\ Sub(head, tail) = written - taken
           /\ head = Add(tail, written - taken)
           /\ Index(tail) \in 0..(Size - 1) /\ Index(head) \in 0..(Size - 1)
           /\ Index(head) = Place(Index(tail), Size, written - taken)
           /\ pn \in 0..(capacity - (written - taken))
           /\ cn \in 0..(written - taken)
           /\ Stored \in 0..pn
           /\ Contig(Index(head)) \in Nat \ {0} /\ Contig(Index(tail)) \in Nat \ {0}
<1> DEFINE d == written - taken
<1>1. TypeOK
  BY DEF IInv
<1>2. /\ head \in 0..(Wrap - 1) /\ tail \in 0..(Wrap - 1)
      /\ cached_tail \in 0..(Wrap - 1) /\ cached_head \in 0..(Wrap - 1)
      /\ written \in Nat /\ taken \in Nat
      /\ pn \in Nat /\ cn \in Nat /\ mirror \in BOOLEAN
  BY SpscAssumption DEF IInv, TypeOK
<1>3. /\ Wrap \in Nat \ {0} /\ capacity \in Nat \ {0} /\ Size \in Nat \ {0}
      /\ capacity <= Size /\ 2 * Size <= Wrap
  BY <1>1, Geometry
<1>4. /\ Sub(head, tail) = IF head >= tail THEN head - tail ELSE head - tail + Wrap
      /\ Sub(head, tail) \in 0..(Wrap - 1)
      /\ Sub(head, cached_tail) \in 0..(Wrap - 1)
      /\ Sub(cached_head, tail) \in 0..(Wrap - 1)
  BY <1>2, SubLin
<1>5. d \in 0..capacity /\ Sub(head, tail) = d
  BY <1>2, <1>3, <1>4 DEF IInv, CountersOrdered
<1>6. head = Add(tail, d)
  <2>1. d \in 0..Wrap
    BY <1>3, <1>5
  <2>2. Add(tail, d) = IF tail + d < Wrap THEN tail + d ELSE tail + d - Wrap
    BY <1>2, <2>1, AddLin
  <2> HIDE DEF d
  <2> QED
    BY <1>2, <1>3, <1>4, <1>5, <2>2
<1>7. /\ Index(tail) \in 0..(Size - 1) /\ Index(head) \in 0..(Size - 1)
      /\ Index(head) = Place(Index(tail), Size, d)
  <2>1. d \in 0..Size /\ 0 \in 0..Size
    BY <1>3, <1>5
  <2> HIDE DEF d
  <2> QED
    BY <1>1, <1>2, <1>6, <2>1, IndexAt
<1>8. pn \in 0..(capacity - d) /\ cn \in 0..d
  <2> HIDE DEF d
  <2> QED
    BY <1>2, <1>3, <1>4, <1>5 DEF IInv, CountersOrdered, ProducerFits, ConsumerHas, Room, Avail
<1>9. Contig(Index(head)) \in Nat \ {0} /\ Contig(Index(tail)) \in Nat \ {0}
  BY <1>2, <1>3, <1>7 DEF Contig
<1>10. Stored \in 0..pn
  BY <1>2, <1>9 DEF Stored, Min2
<1> QED
  BY <1>5, <1>6, <1>7, <1>8, <1>9, <1>10

\* The ring's contents by places instead of positions.
LEMMA ByPlace ==
    ASSUME IInv
    PROVE  /\ written - taken + Stored <= Size
           /\ \A k \in 0..(written - taken + Stored - 1) :
                 /\ k \in 0..(Size - 1)
                 /\ Index(Add(tail, k)) = Place(Index(tail), Size, k)
                 /\ buffer[Place(Index(tail), Size, k)] = taken + 1 + k
<1>1. TypeOK /\ tail \in 0..(Wrap - 1) /\ written \in Nat /\ taken \in Nat
  BY DEF IInv, TypeOK
<1>2. capacity \in Nat \ {0} /\ Size \in Nat \ {0} /\ capacity <= Size
  BY <1>1, Geometry
<1>3. /\ written - taken \in 0..capacity /\ Stored \in 0..pn
      /\ pn \in 0..(capacity - (written - taken))
  BY Distances
<1>4. written - taken + Stored <= Size
  BY <1>2, <1>3
<1>5. ASSUME NEW k \in 0..(written - taken + Stored - 1)
      PROVE  /\ k \in 0..(Size - 1)
             /\ Index(Add(tail, k)) = Place(Index(tail), Size, k)
             /\ buffer[Place(Index(tail), Size, k)] = taken + 1 + k
  <2>1. k \in 0..(Size - 1) /\ k \in 0..Size
    BY <1>1, <1>2, <1>3, <1>4
  <2>2. Index(Add(tail, k)) = Place(Index(tail), Size, k)
    BY <1>1, <2>1, IndexAt
  <2>3. buffer[Index(Add(tail, k))] = taken + 1 + k
    BY DEF IInv, RingHolds
  <2> QED
    BY <2>1, <2>2, <2>3
<1> QED
  BY <1>4, <1>5

\* memcpy into the ring, byte by byte.
LEMMA StoreAt ==
    ASSUME TypeOK, NEW at \in 0..(Size - 1), NEW first \in Nat, NEW n \in Nat,
           first + n <= MaxBytes + 1
    PROVE  /\ Store(at, first, n) \in [0..(Size - 1) -> 0..MaxBytes]
           /\ \A a \in 0..(Size - 1) :
                 Store(at, first, n)[a] =
                    IF Offset(at, Size, a) < n THEN first + Offset(at, Size, a) ELSE buffer[a]
<1>1. Size \in Nat \ {0} /\ MaxBytes \in Nat
  BY Geometry, SpscAssumption
<1>2. DOMAIN buffer = 0..(Size - 1)
  BY DEF TypeOK
<1> DEFINE Byte(a) == LET i == (a - at + Size) % Size IN IF i < n THEN first + i ELSE buffer[a]
<1>3. ASSUME NEW a \in 0..(Size - 1)
      PROVE  /\ Byte(a) = IF Offset(at, Size, a) < n THEN first + Offset(at, Size, a) ELSE buffer[a]
             /\ Byte(a) \in 0..MaxBytes
  <2> DEFINE x == a - at + Size
  <2>1. x \in 0..(2 * Size - 1)
    BY <1>1
  <2>2. x % Size = IF x < Size THEN x ELSE x - Size
    <3> HIDE DEF x
    <3> QED
      BY <1>1, <2>1, ModLin
  <2>3. x % Size = Offset(at, Size, a) /\ Offset(at, Size, a) \in Nat
    BY <1>1, <2>2 DEF Offset
  <2>4. buffer[a] \in 0..MaxBytes
    BY DEF TypeOK
  <2> QED
    BY <1>1, <2>3, <2>4
<1>4. Store(at, first, n) = [a \in 0..(Size - 1) |-> Byte(a)]
  BY <1>2 DEF Store
<1> HIDE DEF Byte
<1> QED
  BY <1>3, <1>4

\* memcpy out of the ring.
LEMMA LoadAt ==
    ASSUME TypeOK, NEW at \in 0..(Size - 1), NEW n \in 0..Size
    PROVE  /\ Load(at, n) \in Seq(0..MaxBytes) /\ Len(Load(at, n)) = n
           /\ \A i \in 1..n : Load(at, n)[i] = buffer[Place(at, Size, i - 1)]
<1>1. Size \in Nat \ {0}
  BY Geometry
<1>2. ASSUME NEW i \in 1..n
      PROVE  /\ (at + i - 1) % Size = Place(at, Size, i - 1)
             /\ buffer[(at + i - 1) % Size] \in 0..MaxBytes
  <2> DEFINE x == at + i - 1
  <2>1. x \in 0..(2 * Size - 1)
    BY <1>1
  <2>2. x % Size = (IF x < Size THEN x ELSE x - Size) /\ x % Size \in 0..(Size - 1)
    <3> HIDE DEF x
    <3>1. x % Size = IF x < Size THEN x ELSE x - Size
      BY <1>1, <2>1, ModLin
    <3> QED
      BY <1>1, <2>1, <3>1
  <2>3. buffer[x % Size] \in 0..MaxBytes
    BY <2>2 DEF TypeOK
  <2> QED
    BY <1>1, <2>2, <2>3 DEF Place
<1> DEFINE f == [i \in 1..n |-> buffer[(at + i - 1) % Size]]
<1>3. n \in Nat /\ Load(at, n) = f
  BY <1>1 DEF Load
<1>4. f \in [1..n -> 0..MaxBytes]
  BY <1>2
<1> HIDE DEF f
<1>5. f \in Seq(0..MaxBytes) /\ Len(f) = n
  <2>1. f \in Seq(0..MaxBytes)
    BY <1>3, <1>4, SeqDef, Zenon
  <2>2. DOMAIN f = 1..n
    BY <1>4
  <2> QED
    BY <1>3, <2>1, <2>2, LenProperties
<1>6. \A i \in 1..n : f[i] = buffer[Place(at, Size, i - 1)]
  BY <1>2 DEF f
<1> QED
  BY <1>3, <1>5, <1>6

\* The other side's counter, or the copy of it: the copy is the older, so that it
\* makes the room or the data look smaller, never larger.
LEMMA Copies ==
    ASSUME IInv
    PROVE  /\ \A t \in {tail, cached_tail} :
                 /\ t \in 0..(Wrap - 1)
                 /\ Sub(head, t) \in Sub(head, tail)..capacity
                 /\ Room(t) \in 0..capacity
           /\ \A h \in {head, cached_head} :
                 /\ h \in 0..(Wrap - 1)
                 /\ Sub(h, tail) \in 0..Sub(head, tail)
                 /\ Avail(h) \in 0..capacity
<1>1. /\ TypeOK /\ head \in 0..(Wrap - 1) /\ tail \in 0..(Wrap - 1)
      /\ cached_tail \in 0..(Wrap - 1) /\ cached_head \in 0..(Wrap - 1)
  BY DEF IInv, TypeOK
<1>2. Wrap \in Nat \ {0} /\ capacity \in Nat \ {0}
  BY <1>1, Geometry
<1>3. /\ Sub(head, tail) \in 0..(Wrap - 1) /\ Sub(head, cached_tail) \in 0..(Wrap - 1)
      /\ Sub(cached_head, tail) \in 0..(Wrap - 1)
  BY <1>1, SubLin
<1>4. /\ Sub(head, tail) <= capacity
      /\ Sub(cached_head, tail) <= Sub(head, tail)
      /\ Sub(head, tail) <= Sub(head, cached_tail)
      /\ Sub(head, cached_tail) <= capacity
  BY DEF IInv, CountersOrdered
<1>5. ASSUME NEW t \in {tail, cached_tail}
      PROVE  /\ t \in 0..(Wrap - 1)
             /\ Sub(head, t) \in Sub(head, tail)..capacity
             /\ Room(t) \in 0..capacity
  BY <1>1, <1>2, <1>3, <1>4 DEF Room
<1>6. ASSUME NEW h \in {head, cached_head}
      PROVE  /\ h \in 0..(Wrap - 1)
             /\ Sub(h, tail) \in 0..Sub(head, tail)
             /\ Avail(h) \in 0..capacity
  BY <1>1, <1>2, <1>3, <1>4 DEF Avail
<1> QED
  BY <1>5, <1>6

\* Only retro_spsc_grow changes where a position is.
LEMMA SameShape ==
    ASSUME UNCHANGED shape
    PROVE  /\ Size' = Size
           /\ \A p : Index(p)' = Index(p)
           /\ \A p : Contig(p)' = Contig(p)
BY DEF shape, Size, Index, Contig

-----------------------------------------------------------------------------
(***************************************************************************)
(* The producer.                                                           *)
(***************************************************************************)
\* retro_spsc_init and retro_spsc_init_mirrored leave an empty ring.
LEMMA InitIInv == Init => IInv
<1> SUFFICES ASSUME Init PROVE IInv
  OBVIOUS
<1>1. /\ Wrap \in Nat \ {0} /\ InitCapacity \in Nat \ {0} /\ Granule \in Nat \ {0}
      /\ MaxCapacity \in Nat \ {0} /\ MaxBytes \in Nat /\ InitCapacity <= MaxCapacity
  BY SpscAssumption
<1>2. /\ capacity = InitCapacity /\ mirror \in BOOLEAN /\ head = 0 /\ tail = 0
      /\ cached_tail = 0 /\ cached_head = 0 /\ ppc = "idle" /\ pn = 0
      /\ cpc = "idle" /\ cn = 0 /\ dst = <<>> /\ written = 0 /\ taken = 0
      /\ buffer = [a \in 0..(Size - 1) |-> Garbage]
  BY SpscAssumption DEF Init
<1>3. TypeOK
  <2>1. buffer \in [0..(Size - 1) -> 0..MaxBytes]
    BY <1>1, <1>2 DEF Garbage
  <2> QED
    BY <1>1, <1>2, <2>1, SpscAssumption DEF TypeOK
<1>4. Sub(0, 0) = 0
  BY <1>1, SubLin
<1>5. CountersOrdered
  BY <1>1, <1>2, <1>4 DEF CountersOrdered
<1>6. RingHolds
  BY <1>2 DEF RingHolds, Stored
<1>7. ProducerFits /\ ConsumerHas
  BY <1>1, <1>2, <1>4 DEF ProducerFits, ConsumerHas, Room, Avail
<1> QED
  BY <1>3, <1>5, <1>6, <1>7 DEF IInv

\* A producer that begins: it takes no more than its copy of tail leaves, and that
\* copy is tail itself or what it was.
LEMMA ProducerLooks ==
    ASSUME IInv, ppc = "idle",
           cached_tail' \in {tail, cached_tail}, pn' \in 0..Room(cached_tail'),
           ppc' \in {"idle", "copy", "span"}, ppc' = "idle" => pn' = 0,
           ppc' = "copy" => written + pn' <= MaxBytes,
           UNCHANGED <<buffer, shape, head, tail, cached_head, consumer, written, taken>>
    PROVE  IInv'
<1>1. TypeOK
  BY DEF IInv
<1>2. /\ Wrap \in Nat \ {0} /\ capacity \in Nat \ {0} /\ Size \in Nat \ {0}
      /\ capacity <= Size /\ 2 * Size <= Wrap
  BY <1>1, Geometry
<1>3. Size' = Size /\ (\A p : Index(p)' = Index(p)) /\ (\A p : Contig(p)' = Contig(p))
  BY SameShape
<1>4. /\ cached_tail' \in 0..(Wrap - 1)
      /\ Sub(head, cached_tail') \in Sub(head, tail)..capacity
      /\ Room(cached_tail') \in 0..capacity
  BY Copies
<1>5. pn' \in 0..(Wrap - 1)
  BY <1>2, <1>4
<1>6. TypeOK'
  BY <1>1, <1>3, <1>4, <1>5 DEF TypeOK, shape, consumer
<1>7. CountersOrdered'
  BY <1>4 DEF IInv, CountersOrdered, shape, Sub
<1>8. RingHolds'
  <2>1. Stored = 0 /\ Stored' = 0
    BY DEF Stored
  <2> QED
    BY <1>3, <2>1 DEF IInv, RingHolds, Add
<1>9. ProducerFits'
  BY <1>5 DEF ProducerFits, Room, Sub, shape
<1>10. ConsumerHas'
  BY <1>3 DEF IInv, ConsumerHas, Avail, Sub, consumer
<1> QED
  BY <1>6, <1>7, <1>8, <1>9, <1>10 DEF IInv

\* retro_spsc_write, from the load of the indices to the start of its copy, keeps the
\* invariant: what it is about to copy fits.
LEMMA WriteIInv ==
    ASSUME IInv, NEW n \in Requests, Write(n)
    PROVE  IInv'
<1>1. n \in Nat /\ written \in Nat /\ MaxBytes \in Nat
  BY SpscAssumption DEF IInv, TypeOK
<1>3. cached_tail' \in {tail, cached_tail}
  BY DEF Write
<1>4. Room(cached_tail') \in Nat
  <2>1. Room(cached_tail') \in 0..capacity /\ capacity \in Nat
    BY <1>3, Copies, Geometry DEF IInv
  <2> QED
    BY <2>1
<1>5. pn' \in 0..Room(cached_tail') /\ pn' <= n
  BY <1>1, <1>4 DEF Write, Min2
<1>6. written + pn' <= MaxBytes
  BY <1>1, <1>4, <1>5 DEF Write
<1> QED
  BY <1>3, <1>5, <1>6, ProducerLooks DEF Write

\* retro_spsc_write_frames, which counts in whole frames, keeps it likewise.
LEMMA WriteFramesIInv ==
    ASSUME IInv, NEW n \in Requests, WriteFrames(n)
    PROVE  IInv'
<1>1. /\ n \in Nat /\ written \in Nat /\ MaxBytes \in Nat /\ FrameBytes \in Nat \ {0}
      /\ n * FrameBytes \in Nat
  BY SpscAssumption, Mul DEF IInv, TypeOK
<1>2. cached_tail' \in {tail, cached_tail}
  BY DEF WriteFrames
<1>3. Room(cached_tail') \in Nat
  <2>1. Room(cached_tail') \in 0..capacity /\ capacity \in Nat
    BY <1>2, Copies, Geometry DEF IInv
  <2> QED
    BY <2>1
<1>4. FramesThatFit(cached_tail') \in 0..Room(cached_tail')
  <2> DEFINE r == Room(cached_tail')
  <2>1. /\ r = (r \div FrameBytes) * FrameBytes + (r % FrameBytes)
        /\ r % FrameBytes \in 0..(FrameBytes - 1) /\ r \div FrameBytes \in Nat
    <3> HIDE DEF r
    <3>1. r \in Nat
      BY <1>3 DEF r
    <3> QED
      BY <1>1, <3>1, DivMod
  <2>2. (r \div FrameBytes) * FrameBytes \in Nat
    BY <1>1, <2>1, Mul
  <2> QED
    BY <1>1, <1>3, <2>1, <2>2 DEF FramesThatFit
<1>5. pn' \in 0..Room(cached_tail') /\ pn' <= n * FrameBytes
  BY <1>1, <1>3, <1>4 DEF WriteFrames, Min2
<1>6. written + pn' <= MaxBytes
  BY <1>1, <1>3, <1>5 DEF WriteFrames
<1> QED
  BY <1>2, <1>5, <1>6, ProducerLooks DEF WriteFrames

\* retro_spsc_write_begin keeps the invariant: the span it hands out fits.
LEMMA WriteBeginIInv ==
    ASSUME IInv, WriteBegin
    PROVE  IInv'
<1>1. cached_tail' \in {tail, cached_tail}
  BY DEF WriteBegin
<1>2. Room(cached_tail') \in Nat
  <2>1. Room(cached_tail') \in 0..capacity /\ capacity \in Nat
    BY <1>1, Copies, Geometry DEF IInv
  <2> QED
    BY <2>1
<1>3. Contig(Index(head)) \in Nat
  BY Distances
<1>4. pn' \in 0..Room(cached_tail')
  BY <1>2, <1>3 DEF WriteBegin, Min2
<1> QED
  BY <1>1, <1>4, ProducerLooks DEF WriteBegin

\* n bytes of the stream copied in at head: the unread ones are as they were and
\* the n follow them.
LEMMA CopyIn ==
    ASSUME IInv, NEW n \in 0..pn, written + n <= MaxBytes,
           buffer' = Store(Index(head), written + 1, n)
    PROVE  /\ buffer' \in [0..(Size - 1) -> 0..MaxBytes]
           /\ \A k \in 0..(written - taken + n - 1) :
                 buffer'[Index(Add(tail, k))] = taken + 1 + k
<1> DEFINE d == written - taken
           i == Index(tail)
<1>1. TypeOK /\ tail \in 0..(Wrap - 1) /\ written \in Nat /\ taken \in Nat /\ MaxBytes \in Nat
  BY SpscAssumption DEF IInv, TypeOK
<1>2. capacity \in Nat \ {0} /\ Size \in Nat \ {0} /\ capacity <= Size
  BY <1>1, Geometry
<1>3. /\ d \in 0..capacity /\ pn \in 0..(capacity - d) /\ i \in 0..(Size - 1)
      /\ Index(head) \in 0..(Size - 1) /\ Index(head) = Place(i, Size, d) /\ Stored \in 0..pn
  BY Distances
<1> HIDE DEF d, i
<1>4. /\ buffer' \in [0..(Size - 1) -> 0..MaxBytes]
      /\ \A a \in 0..(Size - 1) :
            buffer'[a] = IF Offset(Index(head), Size, a) < n
                         THEN written + 1 + Offset(Index(head), Size, a) ELSE buffer[a]
  <2>1. n \in Nat /\ written + 1 \in Nat /\ written + 1 + n <= MaxBytes + 1
    BY <1>1, <1>2, <1>3
  <2>2. Index(head) \in 0..(Size - 1)
    BY <1>3
  <2> QED
    BY <1>1, <2>1, <2>2, StoreAt
<1>6. ASSUME NEW k \in 0..(d + n - 1) PROVE buffer'[Index(Add(tail, k))] = taken + 1 + k
  <2>1. k \in 0..(Size - 1) /\ k \in 0..Size /\ d \in 0..Size
    BY <1>2, <1>3
  <2>2. Index(Add(tail, k)) = Place(i, Size, k)
    BY <1>1, <2>1, IndexAt DEF i
  <2>3. /\ Place(i, Size, k) \in 0..(Size - 1)
        /\ Offset(Place(i, Size, d), Size, Place(i, Size, k)) =
              IF k >= d THEN k - d ELSE k - d + Size
    <3>1. Size \in Nat \ {0} /\ i \in 0..(Size - 1)
      BY <1>2, <1>3
    <3> QED
      BY <2>1, <3>1, PlaceOffset
  <2>4. k < d => buffer[Place(i, Size, k)] = taken + 1 + k
    <3>1. k < d => k \in 0..(written - taken + Stored - 1)
      BY <1>1, <1>2, <1>3, <2>1 DEF d
    <3> QED
      BY <3>1, ByPlace DEF i
  <2>5. buffer'[Place(i, Size, k)] =
           IF (IF k >= d THEN k - d ELSE k - d + Size) < n
           THEN written + 1 + (IF k >= d THEN k - d ELSE k - d + Size)
           ELSE buffer[Place(i, Size, k)]
    BY <1>3, <1>4, <2>3
  <2>6. d = written - taken
    BY DEF d
  <2> QED
    BY <1>1, <1>2, <1>3, <2>1, <2>2, <2>4, <2>5, <2>6
<1> QED
  BY <1>4, <1>6 DEF d

\* The rest of them, from the start of the buffer on.
LEMMA CopyInRest ==
    ASSUME IInv, ppc = "rest",
           buffer' = Store(0, written + Min2(Contig(Index(head)), pn) + 1,
                           pn - Min2(Contig(Index(head)), pn))
    PROVE  /\ buffer' \in [0..(Size - 1) -> 0..MaxBytes]
           /\ \A k \in 0..(written - taken + pn - 1) :
                 buffer'[Index(Add(tail, k))] = taken + 1 + k
<1> DEFINE d == written - taken
           i == Index(tail)
           f == Min2(Contig(Index(head)), pn)
<1>1. TypeOK /\ tail \in 0..(Wrap - 1) /\ written \in Nat /\ taken \in Nat /\ MaxBytes \in Nat
      /\ written + pn <= MaxBytes /\ mirror \in BOOLEAN
  BY SpscAssumption DEF IInv, TypeOK, ProducerFits
<1>2. /\ capacity \in Nat \ {0} /\ Size \in Nat \ {0} /\ capacity <= Size
      /\ Wrap \in Nat \ {0} /\ 2 * Size <= Wrap
  BY <1>1, Geometry
<1>3. /\ d \in 0..capacity /\ pn \in 0..(capacity - d) /\ i \in 0..(Size - 1)
      /\ Index(head) \in 0..(Size - 1) /\ Index(head) = Place(i, Size, d)
  BY Distances
<1>4. f \in 0..pn /\ Stored = f /\ (f = pn \/ f = Size - Index(head))
  BY <1>1, <1>2, <1>3 DEF Stored, Min2, Contig
<1> HIDE DEF f, d, i
<1>5. /\ buffer' \in [0..(Size - 1) -> 0..MaxBytes]
      /\ \A a \in 0..(Size - 1) :
            buffer'[a] = IF a < pn - f THEN written + f + 1 + a ELSE buffer[a]
  <2>1. /\ 0 \in 0..(Size - 1) /\ buffer' = Store(0, written + f + 1, pn - f)
        /\ written + f + 1 \in Nat /\ pn - f \in Nat
        /\ (written + f + 1) + (pn - f) <= MaxBytes + 1
    BY <1>1, <1>2, <1>3, <1>4 DEF f
  <2>2. \A a \in 0..(Size - 1) : Offset(0, Size, a) = a
    BY <1>2 DEF Offset
  <2>3. /\ buffer' \in [0..(Size - 1) -> 0..MaxBytes]
        /\ \A a \in 0..(Size - 1) :
              buffer'[a] = IF Offset(0, Size, a) < pn - f
                           THEN (written + f + 1) + Offset(0, Size, a) ELSE buffer[a]
    BY <1>1, <2>1, StoreAt
  <2> QED
    BY <2>2, <2>3
<1>7. ASSUME NEW k \in 0..(d + pn - 1) PROVE buffer'[Index(Add(tail, k))] = taken + 1 + k
  <2>1. k \in 0..(Size - 1) /\ k \in 0..Size
    BY <1>2, <1>3
  <2>2. Index(Add(tail, k)) = Place(i, Size, k)
    BY <1>1, <2>1, IndexAt DEF i
  <2>3. Place(i, Size, k) \in 0..(Size - 1)
    BY <1>2, <1>3, <2>1, PlaceOffset
  <2>4. k < d + f => buffer[Place(i, Size, k)] = taken + 1 + k
    <3>1. k < d + f => k \in 0..(written - taken + Stored - 1)
      BY <1>1, <1>2, <1>3, <1>4, <2>1 DEF d
    <3> QED
      BY <3>1, ByPlace DEF i
  <2>5. k < d + f => ~ (Place(i, Size, k) < pn - f)
    BY <1>2, <1>3, <1>4, <2>1 DEF Place
  <2>6. ~ (k < d + f) => Place(i, Size, k) = k - d - f /\ k - d - f < pn - f
    BY <1>2, <1>3, <1>4, <2>1 DEF Place
  <2>7. buffer'[Place(i, Size, k)] =
           IF Place(i, Size, k) < pn - f THEN written + f + 1 + Place(i, Size, k)
           ELSE buffer[Place(i, Size, k)]
    BY <1>5, <2>3
  <2>8. d = written - taken
    BY DEF d
  <2> QED
    BY <1>1, <1>2, <1>3, <1>4, <2>1, <2>2, <2>4, <2>5, <2>6, <2>7, <2>8
<1> QED
  BY <1>5, <1>7 DEF d

\* Either way the invariant goes on from what the ring now holds.
LEMMA ProducerStored ==
    ASSUME IInv, pn' \in 0..pn,
           ppc' \in {"idle", "rest", "publish"}, ppc' = "idle" => pn' = 0,
           ppc' # "idle" => written + pn' <= MaxBytes,
           buffer' \in [0..(Size - 1) -> 0..MaxBytes],
           \A k \in 0..(written - taken + Stored' - 1) :
              buffer'[Index(Add(tail, k))] = taken + 1 + k,
           UNCHANGED <<shape, head, tail, cached_tail, cached_head, consumer, written, taken>>
    PROVE  IInv'
<1>1. TypeOK /\ pn \in 0..(Wrap - 1)
  BY DEF IInv, TypeOK
<1>2. Wrap \in Nat \ {0} /\ capacity \in Nat \ {0} /\ Size \in Nat \ {0}
  BY <1>1, Geometry
<1>3. Size' = Size /\ (\A p : Index(p)' = Index(p)) /\ (\A p : Contig(p)' = Contig(p))
  BY SameShape
<1>4. TypeOK'
  BY <1>1, <1>2, <1>3 DEF TypeOK, shape, consumer
<1>5. CountersOrdered'
  BY DEF IInv, CountersOrdered, shape, Sub
<1>6. RingHolds'
  BY <1>3 DEF RingHolds, Add
<1>7. ProducerFits'
  <2>1. Room(cached_tail) \in 0..capacity /\ pn <= Room(cached_tail)
    BY Copies DEF IInv, ProducerFits
  <2>2. Room(cached_tail)' = Room(cached_tail)
    BY DEF Room, Sub, shape
  <2> QED
    BY <1>1, <1>2, <2>1, <2>2 DEF ProducerFits
<1>8. ConsumerHas'
  BY <1>3 DEF IInv, ConsumerHas, Avail, Sub, consumer
<1> QED
  BY <1>4, <1>5, <1>6, <1>7, <1>8 DEF IInv

\* The first memcpy of a write keeps the invariant: it stays in the bytes that are free.
LEMMA CopyFirstIInv ==
    ASSUME IInv, CopyFirst
    PROVE  IInv'
<1> DEFINE f == Min2(Contig(Index(head)), pn)
<1>1. f \in 0..pn /\ written \in Nat /\ MaxBytes \in Nat /\ pn \in Nat /\ written + pn <= MaxBytes
  <2>1. pn \in Nat /\ written \in Nat /\ MaxBytes \in Nat
    <3>1. Wrap \in Nat /\ MaxBytes \in Nat
      BY SpscAssumption
    <3> QED
      BY <3>1 DEF IInv, TypeOK
  <2>2. Contig(Index(head)) \in Nat
    BY Distances
  <2> QED
    BY <2>1, <2>2 DEF CopyFirst, Min2, IInv, ProducerFits
<1>2. Stored' = f
  BY SameShape DEF CopyFirst, Stored
<1>3. /\ buffer' \in [0..(Size - 1) -> 0..MaxBytes]
      /\ \A k \in 0..(written - taken + f - 1) :
            buffer'[Index(Add(tail, k))] = taken + 1 + k
  <2>1. written + f <= MaxBytes
    BY <1>1
  <2> QED
    BY <1>1, <2>1, CopyIn DEF CopyFirst
<1> QED
  BY <1>1, <1>2, <1>3, ProducerStored DEF CopyFirst

\* So does the second, at the start of the buffer.
LEMMA CopyRestIInv ==
    ASSUME IInv, CopyRest
    PROVE  IInv'
<1>1. pn \in Nat /\ written + pn <= MaxBytes
  BY SpscAssumption DEF CopyRest, IInv, TypeOK, ProducerFits
<1>2. Stored' = pn
  BY DEF CopyRest, Stored
<1>3. /\ buffer' \in [0..(Size - 1) -> 0..MaxBytes]
      /\ \A k \in 0..(written - taken + pn - 1) :
            buffer'[Index(Add(tail, k))] = taken + 1 + k
  BY CopyInRest DEF CopyRest
<1> QED
  BY <1>1, <1>2, <1>3, ProducerStored DEF CopyRest

\* The producer filling the span it was handed keeps the invariant.
LEMMA FillSpanIInv ==
    ASSUME IInv, NEW n \in Requests \cup {0}, FillSpan(n)
    PROVE  IInv'
<1>1. n \in 0..pn /\ written + n <= MaxBytes /\ written \in Nat /\ taken \in Nat
  BY SpscAssumption DEF FillSpan, IInv, TypeOK
<1>2. Stored' = n
  BY <1>1 DEF FillSpan, Stored
<1>3. /\ buffer' \in [0..(Size - 1) -> 0..MaxBytes]
      /\ \A k \in 0..(written - taken + n - 1) :
            buffer'[Index(Add(tail, k))] = taken + 1 + k
  BY <1>1, CopyIn DEF FillSpan
<1> QED
  BY <1>1, <1>2, <1>3, ProducerStored DEF FillSpan

\* The release store of head publishes exactly the bytes that were copied.
LEMMA PublishHeadIInv ==
    ASSUME IInv, PublishHead
    PROVE  IInv'
<1> DEFINE d == written - taken
<1>1. /\ TypeOK /\ written \in Nat /\ taken \in Nat /\ written + pn <= MaxBytes
      /\ head \in 0..(Wrap - 1) /\ tail \in 0..(Wrap - 1) /\ cached_tail \in 0..(Wrap - 1)
      /\ cached_head \in 0..(Wrap - 1) /\ pn \in 0..(Wrap - 1)
  BY SpscAssumption DEF IInv, TypeOK, PublishHead, ProducerFits
<1>2. /\ Wrap \in Nat \ {0} /\ capacity \in Nat \ {0} /\ Size \in Nat \ {0}
      /\ capacity <= Size /\ 2 * Size <= Wrap
  BY <1>1, Geometry
<1>3. Size' = Size /\ (\A p : Index(p)' = Index(p)) /\ (\A p : Contig(p)' = Contig(p))
  BY SameShape DEF PublishHead
<1>4. /\ Sub(head, tail) = d /\ d \in 0..capacity /\ pn \in 0..(capacity - d)
  BY Distances
<1>5. /\ Sub(head, cached_tail) \in d..capacity /\ pn <= capacity - Sub(head, cached_tail)
      /\ Sub(cached_head, tail) \in 0..d
  BY <1>4, Copies DEF IInv, ProducerFits, Room
<1> HIDE DEF d
<1>6. /\ Sub(Add(head, pn), tail) = d + pn
      /\ Sub(Add(head, pn), cached_tail) = Sub(head, cached_tail) + pn
      /\ Add(head, pn) \in 0..(Wrap - 1)
  <2>1. Sub(head, tail) + pn < Wrap /\ Sub(head, cached_tail) + pn < Wrap
    BY <1>1, <1>2, <1>4, <1>5
  <2>2. /\ Sub(Add(head, pn), tail) = Sub(head, tail) + pn
        /\ Sub(Add(head, pn), cached_tail) = Sub(head, cached_tail) + pn
        /\ Add(head, pn) \in 0..(Wrap - 1)
    BY <1>1, <2>1, SubAdd
  <2> QED
    BY <1>4, <2>2
<1>7. TypeOK'
  <2>1. written + pn \in 0..MaxBytes /\ MaxBytes \in Nat
    BY <1>1, SpscAssumption
  <2> QED
    BY <1>1, <1>2, <1>3, <1>6, <2>1 DEF TypeOK, PublishHead, shape, consumer
<1>8. CountersOrdered'
  <2>1. /\ Sub(head', tail') = d + pn /\ Sub(head', cached_tail') = Sub(head, cached_tail) + pn
        /\ Sub(cached_head', tail') = Sub(cached_head, tail)
        /\ capacity' = capacity /\ written' = written + pn /\ taken' = taken
    BY <1>6 DEF PublishHead, shape
  <2>2. written' - taken' = d + pn
    BY <1>1, <2>1 DEF d
  <2> QED
    BY <1>1, <1>2, <1>4, <1>5, <2>1, <2>2 DEF CountersOrdered, Sub
<1>9. RingHolds'
  <2>1. Stored = pn /\ Stored' = 0
    BY DEF Stored, PublishHead
  <2>2. written' - taken' + 0 - 1 = written - taken + pn - 1
    BY <1>1 DEF PublishHead
  <2> QED
    BY <1>3, <2>1, <2>2 DEF IInv, RingHolds, PublishHead, Add
<1>10. ProducerFits'
  <2>1. Sub(head', cached_tail') = Sub(head, cached_tail) + pn /\ capacity' = capacity
    BY <1>6 DEF PublishHead, shape
  <2>2. 0 <= capacity - (Sub(head, cached_tail) + pn)
    BY <1>1, <1>2, <1>4, <1>5
  <2> QED
    BY <2>1, <2>2 DEF ProducerFits, PublishHead, Room, Sub
<1>11. ConsumerHas'
  BY <1>3 DEF IInv, ConsumerHas, Avail, Sub, consumer, PublishHead
<1> QED
  BY <1>7, <1>8, <1>9, <1>10, <1>11 DEF IInv

-----------------------------------------------------------------------------
(***************************************************************************)
(* The consumer.                                                           *)
(***************************************************************************)
\* A consumer that begins takes no more than its copy of head shows, and that copy
\* is head itself or what it was.
LEMMA ConsumerLooks ==
    ASSUME IInv, cpc = "idle",
           cached_head' \in {head, cached_head}, cn' \in 0..Avail(cached_head'),
           cpc' \in {"idle", "copy", "peek", "skip", "span"}, cpc' = "idle" => cn' = 0,
           dst' = <<>>,
           UNCHANGED <<buffer, shape, head, tail, cached_tail, producer, written, taken>>
    PROVE  IInv'
<1>1. TypeOK
  BY DEF IInv
<1>2. /\ Wrap \in Nat \ {0} /\ capacity \in Nat \ {0} /\ Size \in Nat \ {0}
      /\ capacity <= Size /\ 2 * Size <= Wrap
  BY <1>1, Geometry
<1>3. Size' = Size /\ (\A p : Index(p)' = Index(p)) /\ (\A p : Contig(p)' = Contig(p))
  BY SameShape
<1>4. /\ cached_head' \in 0..(Wrap - 1)
      /\ Sub(cached_head', tail) \in 0..Sub(head, tail)
      /\ Avail(cached_head') \in 0..capacity
  BY Copies
<1>5. cn' \in 0..(Wrap - 1)
  BY <1>2, <1>4
<1>6. TypeOK'
  BY <1>1, <1>3, <1>4, <1>5 DEF TypeOK, shape, producer
<1>7. CountersOrdered'
  BY <1>4 DEF IInv, CountersOrdered, shape, Sub
<1>8. RingHolds'
  <2>1. Stored' = Stored
    BY <1>3 DEF Stored, producer
  <2> QED
    BY <1>3, <2>1 DEF IInv, RingHolds, Add
<1>9. ProducerFits'
  BY DEF IInv, ProducerFits, Room, Sub, shape, producer
<1>10. ConsumerHas'
  <2>1. Avail(cached_head') = Avail(cached_head)'
    BY DEF Avail, Sub
  <2> QED
    BY <1>5, <2>1 DEF ConsumerHas
<1> QED
  BY <1>6, <1>7, <1>8, <1>9, <1>10 DEF IInv

\* retro_spsc_read, retro_spsc_peek and retro_spsc_skip.
LEMMA LookIInv ==
    ASSUME IInv, NEW n \in Requests, NEW then \in {"copy", "peek", "skip"}, Look(n, then)
    PROVE  IInv'
<1>1. n \in Nat
  BY SpscAssumption
<1>2. cached_head' \in {head, cached_head}
  BY DEF Look
<1>3. Avail(cached_head') \in Nat
  <2>1. Avail(cached_head') \in 0..capacity /\ capacity \in Nat
    BY <1>2, Copies, Geometry DEF IInv
  <2> QED
    BY <2>1
<1>4. cn' \in 0..Avail(cached_head')
  BY <1>1, <1>3 DEF Look, Min2
<1> QED
  BY <1>2, <1>4, ConsumerLooks DEF Look

\* retro_spsc_read_begin keeps the invariant: the span it hands out is stored.
LEMMA ReadBeginIInv ==
    ASSUME IInv, ReadBegin
    PROVE  IInv'
<1>1. cached_head' \in {head, cached_head}
  BY DEF ReadBegin
<1>2. Avail(cached_head') \in Nat
  <2>1. Avail(cached_head') \in 0..capacity /\ capacity \in Nat
    BY <1>1, Copies, Geometry DEF IInv
  <2> QED
    BY <2>1
<1>3. Contig(Index(tail)) \in Nat
  BY Distances
<1>4. cn' \in 0..Avail(cached_head')
  BY <1>2, <1>3 DEF ReadBegin, Min2
<1> QED
  BY <1>1, <1>4, ConsumerLooks DEF ReadBegin

\* n bytes copied out at tail are the next n of the stream.
LEMMA CopyOut ==
    ASSUME IInv, NEW n \in 0..cn
    PROVE  /\ Load(Index(tail), n) \in Seq(0..MaxBytes)
           /\ Len(Load(Index(tail), n)) = n
           /\ \A i \in 1..n : Load(Index(tail), n)[i] = taken + i
<1>1. TypeOK /\ written \in Nat /\ taken \in Nat
  BY DEF IInv, TypeOK
<1>2. capacity \in Nat \ {0} /\ Size \in Nat \ {0} /\ capacity <= Size
  BY <1>1, Geometry
<1>3. /\ written - taken \in 0..capacity /\ cn \in 0..(written - taken)
      /\ Index(tail) \in 0..(Size - 1) /\ Stored \in Nat
  BY Distances
<1>4. n \in 0..Size
  BY <1>1, <1>2, <1>3
<1>5. /\ Load(Index(tail), n) \in Seq(0..MaxBytes) /\ Len(Load(Index(tail), n)) = n
      /\ \A i \in 1..n : Load(Index(tail), n)[i] = buffer[Place(Index(tail), Size, i - 1)]
  <2>1. Index(tail) \in 0..(Size - 1)
    BY <1>3
  <2> QED
    BY <1>1, <1>4, <2>1, LoadAt
<1>6. ASSUME NEW i \in 1..n
      PROVE  buffer[Place(Index(tail), Size, i - 1)] = taken + i
  <2>1. i - 1 \in 0..(written - taken + Stored - 1)
    BY <1>1, <1>2, <1>3
  <2>2. buffer[Place(Index(tail), Size, i - 1)] = taken + 1 + (i - 1)
    BY <2>1, ByPlace
  <2> QED
    BY <1>1, <1>3, <2>2
<1> QED
  BY <1>5, <1>6

\* Past the end of the buffer they are the ones at its start.
LEMMA CopyOutRest ==
    ASSUME IInv, cpc \in {"rest", "peekrest"}
    PROVE  /\ dst \o Load(0, cn - Len(dst)) \in Seq(0..MaxBytes)
           /\ Len(dst \o Load(0, cn - Len(dst))) = cn
           /\ \A i \in 1..cn : (dst \o Load(0, cn - Len(dst)))[i] = taken + i
<1> DEFINE f == Len(dst)
           r == Load(0, cn - f)
<1>0. /\ TypeOK /\ written \in Nat /\ taken \in Nat /\ mirror \in BOOLEAN
  BY DEF IInv, TypeOK
<1>1. /\ TypeOK /\ written \in Nat /\ taken \in Nat /\ mirror \in BOOLEAN
      /\ dst \in Seq(0..MaxBytes) /\ f = Min2(Contig(Index(tail)), cn)
      /\ \A i \in 1..f : dst[i] = taken + i
  BY <1>0 DEF IInv, ConsumerHas
<1>2. /\ capacity \in Nat \ {0} /\ Size \in Nat \ {0} /\ capacity <= Size
      /\ Wrap \in Nat \ {0} /\ 2 * Size <= Wrap
  BY <1>1, Geometry
<1>3. /\ written - taken \in 0..capacity /\ cn \in 0..(written - taken)
      /\ Index(tail) \in 0..(Size - 1) /\ Stored \in Nat
  BY Distances
<1>4. f \in 0..cn /\ (f = cn \/ f = Size - Index(tail))
  BY <1>1, <1>2, <1>3 DEF Min2, Contig
<1> HIDE DEF f
<1>5. cn \in Nat /\ cn - f \in 0..Size /\ 0 \in 0..(Size - 1)
  BY <1>1, <1>2, <1>3, <1>4
<1>6. /\ r \in Seq(0..MaxBytes) /\ Len(r) = cn - f
      /\ \A i \in 1..(cn - f) : r[i] = buffer[Place(0, Size, i - 1)]
  BY <1>1, <1>5, LoadAt
<1> HIDE DEF r
<1>7. ASSUME NEW i \in 1..(cn - f)
      PROVE  r[i] = taken + f + i
  <2>1. f + i - 1 \in 0..(written - taken + Stored - 1)
    BY <1>1, <1>2, <1>3, <1>4, <1>5
  <2>2. buffer[Place(Index(tail), Size, f + i - 1)] = taken + 1 + (f + i - 1)
    BY <2>1, ByPlace
  <2>3. Place(0, Size, i - 1) = Place(Index(tail), Size, f + i - 1)
    <3>1. f = Size - Index(tail) /\ i - 1 < Size /\ i \in Nat /\ Index(tail) \in Nat
      BY <1>2, <1>3, <1>4, <1>5
    <3> QED
      BY <1>2, <3>1 DEF Place
  <2> QED
    <3>1. r[i] = buffer[Place(0, Size, i - 1)]
      BY <1>6
    <3>2. taken + 1 + (f + i - 1) = taken + f + i
      BY <1>0, <1>4, <1>5
    <3> QED
      BY <2>2, <2>3, <3>1, <3>2
<1> DEFINE c == dst \o r
<1>8. /\ c \in Seq(0..MaxBytes) /\ Len(c) = cn
      /\ \A i \in 1..cn : c[i] = IF i <= f THEN dst[i] ELSE r[i - f]
  <2>1. /\ c \in Seq(0..MaxBytes) /\ Len(c) = Len(dst) + Len(r)
        /\ \A i \in 1..(Len(dst) + Len(r)) : c[i] = IF i <= Len(dst) THEN dst[i] ELSE r[i - Len(dst)]
    BY <1>1, <1>6, ConcatProperties, Zenon
  <2>2. Len(dst) + Len(r) = cn
    BY <1>4, <1>5, <1>6 DEF f
  <2> HIDE DEF c
  <2> QED
    BY <2>1, <2>2 DEF f
<1> HIDE DEF c
<1>10. ASSUME NEW i \in 1..cn PROVE c[i] = taken + i
  <2>1. CASE i <= f
    BY <1>1, <1>4, <1>5, <1>8, <2>1
  <2>2. CASE ~ (i <= f)
    <3>1. i - f \in 1..(cn - f) /\ c[i] = r[i - f]
      BY <1>4, <1>5, <1>8, <2>2
    <3> QED
      BY <1>1, <1>4, <1>5, <1>7, <3>1
  <2> QED
    BY <2>1, <2>2
<1> QED
  BY <1>8, <1>10 DEF c, r, f

\* A copy out touches nothing of the ring.
LEMMA ConsumerCopied ==
    ASSUME IInv, cn' \in 0..cn,
           cpc' \in {"idle", "rest", "peekrest", "publish", "peeked"}, cpc' = "idle" => cn' = 0,
           dst' \in Seq(0..MaxBytes),
           cpc' \in {"rest", "peekrest"} => Len(dst') = Min2(Contig(Index(tail)), cn'),
           cpc' \in {"publish", "peeked"} => Len(dst') = cn',
           \A i \in 1..Len(dst') : dst'[i] = taken + i,
           UNCHANGED <<buffer, shape, head, tail, cached_tail, cached_head, producer,
                       written, taken>>
    PROVE  IInv'
<1>1. TypeOK /\ cn \in 0..(Wrap - 1)
  BY DEF IInv, TypeOK
<1>2. Wrap \in Nat \ {0} /\ capacity \in Nat \ {0} /\ Size \in Nat \ {0}
  BY <1>1, Geometry
<1>3. Size' = Size /\ (\A p : Index(p)' = Index(p)) /\ (\A p : Contig(p)' = Contig(p))
  BY SameShape
<1>4. TypeOK'
  BY <1>1, <1>2, <1>3 DEF TypeOK, shape, producer
<1>5. CountersOrdered'
  BY DEF IInv, CountersOrdered, shape, Sub
<1>6. RingHolds'
  <2>1. Stored' = Stored
    BY <1>3 DEF Stored, producer
  <2> QED
    BY <1>3, <2>1 DEF IInv, RingHolds, Add
<1>7. ProducerFits'
  BY DEF IInv, ProducerFits, Room, Sub, shape, producer
<1>8. ConsumerHas'
  <2>1. Avail(cached_head) \in 0..capacity /\ cn <= Avail(cached_head)
    BY Copies DEF IInv, ConsumerHas
  <2>2. Avail(cached_head)' = Avail(cached_head)
    BY DEF Avail, Sub
  <2>3. cn' <= Avail(cached_head)'
    BY <1>1, <1>2, <2>1, <2>2
  <2>4. cpc' \in {"rest", "peekrest"} => Len(dst') = Min2(Contig(Index(tail)), cn)'
    BY <1>3 DEF Min2
  <2> QED
    BY <2>3, <2>4 DEF ConsumerHas
<1> QED
  BY <1>4, <1>5, <1>6, <1>7, <1>8 DEF IInv

\* The first memcpy of a read keeps the invariant: it finds the oldest bytes stored.
LEMMA ReadFirstIInv ==
    ASSUME IInv, ReadFirst
    PROVE  IInv'
<1> DEFINE n == Min2(Contig(Index(tail)), cn)
<1>1. cn \in Nat
  <2>1. Wrap \in Nat
    BY SpscAssumption
  <2> QED
    BY <2>1 DEF IInv, TypeOK
<1>2. n \in 0..cn
  <2>1. Contig(Index(tail)) \in Nat
    BY Distances
  <2> QED
    BY <1>1, <2>1 DEF Min2
<1>3. /\ dst' \in Seq(0..MaxBytes) /\ Len(dst') = n
      /\ \A i \in 1..n : dst'[i] = taken + i
  <2> HIDE DEF n
  <2>1. dst' = Load(Index(tail), n)
    BY DEF ReadFirst, n
  <2> QED
    BY <1>2, <2>1, CopyOut
<1> QED
  BY <1>1, <1>3, ConsumerCopied DEF ReadFirst

\* So does the second, at the start of the buffer.
LEMMA ReadRestIInv ==
    ASSUME IInv, ReadRest
    PROVE  IInv'
<1>1. cn \in Nat
  <2>1. Wrap \in Nat
    BY SpscAssumption
  <2> QED
    BY <2>1 DEF IInv, TypeOK
<1>2. /\ dst' \in Seq(0..MaxBytes) /\ Len(dst') = cn
      /\ \A i \in 1..cn : dst'[i] = taken + i
  BY CopyOutRest DEF ReadRest
<1> QED
  BY <1>1, <1>2, ConsumerCopied DEF ReadRest

\* The consumer reading the span it was handed keeps the invariant.
LEMMA UseSpanIInv ==
    ASSUME IInv, NEW n \in Requests \cup {0}, UseSpan(n)
    PROVE  IInv'
<1>1. n \in 0..cn
  <2>1. Wrap \in Nat /\ Requests \subseteq Nat
    BY SpscAssumption
  <2> QED
    BY <2>1 DEF IInv, TypeOK, UseSpan
<1>2. /\ dst' \in Seq(0..MaxBytes) /\ Len(dst') = n
      /\ \A i \in 1..n : dst'[i] = taken + i
  BY <1>1, CopyOut DEF UseSpan
<1> QED
  BY <1>1, <1>2, ConsumerCopied DEF UseSpan

\* retro_spsc_peek returning keeps the invariant: it moves no index.
LEMMA PeekReturnIInv ==
    ASSUME IInv, PeekReturn
    PROVE  IInv'
<1>1. 0 \in 0..cn
  <2>1. Wrap \in Nat
    BY SpscAssumption
  <2> QED
    BY <2>1 DEF IInv, TypeOK
<1> QED
  BY <1>1, ConsumerCopied DEF PeekReturn

\* The release store of tail gives back exactly the bytes that were taken; the ones
\* after them are where they were.
LEMMA PublishTailIInv ==
    ASSUME IInv, PublishTail
    PROVE  IInv'
<1> DEFINE d == written - taken
<1>1. /\ TypeOK /\ written \in Nat /\ taken \in Nat
      /\ head \in 0..(Wrap - 1) /\ tail \in 0..(Wrap - 1) /\ cached_tail \in 0..(Wrap - 1)
      /\ cached_head \in 0..(Wrap - 1) /\ cn \in 0..(Wrap - 1)
  BY DEF IInv, TypeOK
<1>2. /\ Wrap \in Nat \ {0} /\ capacity \in Nat \ {0} /\ Size \in Nat \ {0}
      /\ capacity <= Size /\ 2 * Size <= Wrap
  BY <1>1, Geometry
<1>3. Size' = Size /\ (\A p : Index(p)' = Index(p)) /\ (\A p : Contig(p)' = Contig(p))
  BY SameShape DEF PublishTail
<1>4. /\ Sub(head, tail) = d /\ d \in 0..capacity /\ cn \in 0..d
      /\ pn \in 0..(capacity - d) /\ Stored \in 0..pn
  BY Distances
<1>5. /\ Sub(head, cached_tail) \in d..capacity
      /\ Sub(cached_head, tail) \in 0..d /\ cn <= Sub(cached_head, tail)
  BY <1>4, Copies DEF IInv, ConsumerHas, Avail
<1> HIDE DEF d
<1>6. /\ Sub(head, Add(tail, cn)) = d - cn
      /\ Sub(cached_head, Add(tail, cn)) = Sub(cached_head, tail) - cn
      /\ Add(tail, cn) \in 0..(Wrap - 1)
  <2>1. cn <= Sub(head, tail)
    BY <1>1, <1>2, <1>4
  <2>2. /\ Sub(head, Add(tail, cn)) = Sub(head, tail) - cn
        /\ Sub(cached_head, Add(tail, cn)) = Sub(cached_head, tail) - cn
        /\ Add(tail, cn) \in 0..(Wrap - 1)
    BY <1>1, <1>5, <2>1, SubAdd
  <2> QED
    BY <1>4, <2>2
<1>7. TypeOK'
  <2>1. taken + cn \in 0..MaxBytes
    <3>1. MaxBytes \in Nat
      BY SpscAssumption
    <3> QED
      BY <1>1, <1>2, <1>4, <3>1 DEF TypeOK, d
  <2> QED
    BY <1>1, <1>2, <1>3, <1>6, <2>1 DEF TypeOK, PublishTail, shape, producer
<1>8. CountersOrdered'
  <2>1. /\ Sub(head', tail') = d - cn /\ Sub(cached_head', tail') = Sub(cached_head, tail) - cn
        /\ Sub(head', cached_tail') = Sub(head, cached_tail)
        /\ capacity' = capacity /\ written' = written /\ taken' = taken + cn
    BY <1>6 DEF PublishTail, shape
  <2>2. written' - taken' = d - cn
    BY <1>1, <1>2, <1>4, <2>1 DEF d
  <2> QED
    BY <1>1, <1>2, <1>4, <1>5, <2>1, <2>2 DEF CountersOrdered, Sub
<1>9. RingHolds'
  <2>1. Stored' = Stored
    BY <1>3 DEF Stored, PublishTail, producer
  <2>2. written' - taken' = d - cn /\ taken' = taken + cn
    BY <1>1, <1>2, <1>4 DEF PublishTail, d
  <2>3. ASSUME NEW k \in 0..(d - cn + Stored - 1)
        PROVE  buffer[Index(Add(Add(tail, cn), k))] = taken + cn + 1 + k
    <3>1. cn + k \in 0..(d + Stored - 1) /\ cn \in 0..Wrap /\ k \in 0..Wrap /\ cn + k <= Wrap
      BY <1>1, <1>2, <1>4
    <3>2. Add(Add(tail, cn), k) = Add(tail, cn + k)
      BY <1>1, <3>1, AddAdd
    <3>3. buffer[Index(Add(tail, cn + k))] = taken + 1 + (cn + k)
      BY <3>1 DEF IInv, RingHolds, d
    <3> QED
      BY <1>1, <1>2, <1>4, <3>2, <3>3
  <2>4. \A k : Index(Add(tail, k))' = Index(Add(Add(tail, cn), k))
    BY <1>3 DEF PublishTail, Add
  <2> QED
    BY <2>1, <2>2, <2>3, <2>4 DEF RingHolds, PublishTail
<1>10. ProducerFits'
  BY DEF IInv, ProducerFits, Room, Sub, shape, producer, PublishTail
<1>11. ConsumerHas'
  <2>1. Avail(cached_head)' = Sub(cached_head, tail) - cn
    BY <1>6 DEF Avail, PublishTail, Sub
  <2>2. 0 <= Sub(cached_head, tail) - cn
    BY <1>1, <1>2, <1>4, <1>5
  <2> QED
    BY <2>1, <2>2 DEF ConsumerHas, PublishTail
<1> QED
  BY <1>7, <1>8, <1>9, <1>10, <1>11 DEF IInv

-----------------------------------------------------------------------------
(***************************************************************************)
(* With both sides quiet.                                                  *)
(***************************************************************************)
LEMMA ClearIInv ==
    ASSUME IInv, Clear
    PROVE  IInv'
<1>1. TypeOK /\ written \in Nat /\ pn = 0 /\ cn = 0
  BY DEF IInv, TypeOK, Clear, ProducerFits, ConsumerHas
<1>2. Wrap \in Nat \ {0} /\ capacity \in Nat \ {0}
  BY <1>1, Geometry
<1>3. Size' = Size
  BY SameShape DEF Clear
<1>4. Sub(0, 0) = 0
  BY <1>2, SubLin
<1>5. TypeOK'
  BY <1>1, <1>2, <1>3 DEF TypeOK, Clear, shape, producer, consumer
<1>6. CountersOrdered'
  BY <1>1, <1>2, <1>4 DEF CountersOrdered, Clear, shape, Sub
<1>7. RingHolds'
  BY <1>1 DEF RingHolds, Stored, Clear, producer
<1>8. ProducerFits'
  BY <1>1, <1>2, <1>4 DEF ProducerFits, Room, Sub, Clear, shape, producer
<1>9. ConsumerHas'
  BY <1>1, <1>4 DEF IInv, ConsumerHas, Avail, Sub, Clear, consumer
<1> QED
  BY <1>5, <1>6, <1>7, <1>8, <1>9 DEF IInv

\* spsc_round_up_pow2 finds its power of two, and never past the largest capacity.
LEMMA RoundUp ==
    ASSUME NEW v \in 1..MaxCapacity
    PROVE  /\ RoundUpPow2(v) \in PowersOfTwo
           /\ v <= RoundUpPow2(v) /\ RoundUpPow2(v) <= MaxCapacity
<1> DEFINE p == RoundUpPow2(v)
<1>1. p \in PowersOfTwo /\ v <= p /\ p < 2 * v
  <2>1. \E q \in PowersOfTwo : v <= q /\ q < 2 * v
    BY SpscAssumption
  <2> QED
    BY <2>1 DEF RoundUpPow2
<1> HIDE DEF p
<1>2. /\ p \in Nat \ {0} /\ MaxCapacity \in Nat \ {0} /\ MaxCapacity \in PowersOfTwo
  BY <1>1, SpscAssumption
<1>3. CASE p > MaxCapacity
  <2> DEFINE q == p \div MaxCapacity
  <2>1. p % MaxCapacity = 0
    BY <1>1, <1>2, <1>3, SpscAssumption
  <2>2. p = q * MaxCapacity + (p % MaxCapacity) /\ q \in Nat
    BY <1>2, DivMod
  <2> HIDE DEF q
  <2>3. q >= 2
    <3>1. q # 0 /\ q # 1
      BY <1>2, <1>3, <2>1, <2>2
    <3> QED
      BY <2>2, <3>1
  <2>4. 2 * MaxCapacity <= q * MaxCapacity
    BY <1>2, <2>2, <2>3, Mul
  <2> QED
    BY <1>1, <1>2, <2>1, <2>2, <2>4
<1> QED
  BY <1>1, <1>2, <1>3 DEF p

\* A set of naturals that is not empty has a least member.
LEMMA LeastNat ==
    ASSUME NEW T \in SUBSET Nat, T # {}
    PROVE  \E x \in T : \A y \in T : x <= y
<1>1. PICK x \in T : \A y \in T : ~ (<<y, x>> \in OpToRel(<, Nat))
  BY NatLessThanWellFounded, WFMin, Zenon
<1>2. ASSUME NEW y \in T PROVE x <= y
  <2>1. x \in Nat /\ y \in Nat
    OBVIOUS
  <2>2. ~ (y < x)
    BY <2>1, <1>1 DEF OpToRel
  <2> QED
    BY <2>1, <2>2, SMT
<1> QED
  BY <1>2

\* A turn of retro_spsc_grow's loop copies at least a byte, and passes neither head
\* nor the end of a buffer that is mapped once.
LEMMA RunAt ==
    ASSUME IInv, NEW m \in BOOLEAN, NEW size \in Nat \ {0},
           NEW n \in 1..(written - taken)
    PROVE  LET pos == Sub(head, n)
               run == Run(pos, size, m)
           IN  /\ pos \in 0..(Wrap - 1)
               /\ pos = Add(tail, written - taken - n)
               /\ run \in 1..n
               /\ ~ mirror => run <= Size - Index(pos)
               /\ ~ m => run <= size - (pos % size)
<1> DEFINE d    == written - taken
           pos  == Sub(head, n)
           from == IF mirror THEN n ELSE Size - Index(pos)
           to   == IF m THEN n ELSE size - (pos % size)
<1>1. /\ TypeOK /\ written \in Nat /\ taken \in Nat
      /\ head \in 0..(Wrap - 1) /\ tail \in 0..(Wrap - 1) /\ mirror \in BOOLEAN
  BY SpscAssumption DEF IInv, TypeOK
<1>2. /\ Wrap \in Nat \ {0} /\ capacity \in Nat \ {0} /\ Size \in Nat \ {0}
      /\ capacity <= Size /\ 2 * Size <= Wrap
  BY <1>1, Geometry
<1>3. Sub(head, tail) = d /\ d \in 0..capacity /\ n \in 1..d
  BY <1>1, Distances
<1>4. n \in 0..(Wrap - 1) /\ d \in 0..(Wrap - 1) /\ d - n \in 0..(Wrap - 1)
  BY <1>2, <1>3
<1>5. /\ pos \in 0..(Wrap - 1)
      /\ pos = (IF head >= n THEN head - n ELSE head - n + Wrap)
  BY <1>1, <1>4, SubLin
<1>6. pos = Add(tail, d - n)
  <2>1. d = (IF head >= tail THEN head - tail ELSE head - tail + Wrap)
    BY <1>1, <1>3, SubLin
  <2>2. Add(tail, d - n) =
           IF tail + (d - n) < Wrap THEN tail + (d - n) ELSE tail + (d - n) - Wrap
    <3> DEFINE e == d - n
    <3>1. e \in 0..Wrap
      BY <1>2, <1>4
    <3> HIDE DEF e
    <3>2. Add(tail, e) = IF tail + e < Wrap THEN tail + e ELSE tail + e - Wrap
      BY <1>1, <3>1, AddLin
    <3> QED
      BY <3>2 DEF e
  <2> HIDE DEF d, pos
  <2> QED
    BY <1>1, <1>2, <1>3, <1>4, <1>5, <2>1, <2>2
<1>7. Sub(head, pos) = n
  <2>1. Sub(head, pos) = IF head >= pos THEN head - pos ELSE head - pos + Wrap
    BY <1>1, <1>5, SubLin
  <2> HIDE DEF pos
  <2> QED
    BY <1>1, <1>2, <1>4, <1>5, <2>1
<1>8. Index(pos) \in 0..(Size - 1) /\ pos % size \in 0..(size - 1)
  <2>1. pos \in Nat
    BY <1>2, <1>5
  <2> QED
    BY <1>2, <2>1, DivMod DEF Index
<1>9. Run(pos, size, m) = Min2(n, Min2(from, to))
  BY <1>7 DEF Run
<1> HIDE DEF pos
<1>10. /\ from \in Nat \ {0} /\ to \in Nat \ {0}
       /\ ~ mirror => from = Size - Index(pos)
       /\ ~ m => to = size - (pos % size)
  BY <1>1, <1>2, <1>8
<1> HIDE DEF from, to
<1>11. /\ Run(pos, size, m) \in 1..n
       /\ Run(pos, size, m) <= from /\ Run(pos, size, m) <= to
  BY <1>4, <1>9, <1>10 DEF Min2
<1> QED
  BY <1>5, <1>6, <1>10, <1>11 DEF pos, d

\* The turn with n bytes to go.
RunOf(n, size, m)   == Run(Sub(head, n), size, m)
Turn(b, n, size, m) == CopyRun(b, Sub(head, n), RunOf(n, size, m), size, m)

\* The last n unread bytes are at their places in the new buffer.
Filled(bytes, n, size) ==
    /\ bytes \in [0..(size - 1) -> 0..MaxBytes]
    /\ \A k \in (written - taken - n)..(written - taken - 1) :
           bytes[Add(tail, k) % size] = taken + 1 + k

\* It puts each byte of the run at its place in the new buffer, and leaves the bytes
\* of the later turns alone.
LEMMA CopyRunAt ==
    ASSUME IInv, NEW m \in BOOLEAN, NEW size \in Nat \ {0}, Wrap % size = 0,
           capacity <= size, NEW n \in 1..(written - taken),
           NEW bytes, Filled(bytes, n - RunOf(n, size, m), size)
    PROVE  Filled(Turn(bytes, n, size, m), n, size)
<1> DEFINE d    == written - taken
           pos  == Sub(head, n)
           run  == RunOf(n, size, m)
           t    == pos % size
           i(a) == IF m THEN (a - t + size) % size ELSE a - t
           At(k) == Add(tail, k) % size
<1>1. /\ TypeOK /\ written \in Nat /\ taken \in Nat /\ mirror \in BOOLEAN
      /\ tail \in 0..(Wrap - 1)
  BY SpscAssumption DEF IInv, TypeOK
<1>2. /\ Wrap \in Nat \ {0} /\ capacity \in Nat \ {0} /\ Size \in Nat \ {0}
      /\ capacity <= Size /\ 2 * Size <= Wrap
  BY <1>1, Geometry
<1>3. d \in 0..capacity /\ n \in 1..d /\ Stored \in Nat /\ d \in Nat
  <2>1. pn \in Nat
    BY SpscAssumption DEF IInv, TypeOK
  <2> QED
    BY <1>1, <1>2, <2>1, Distances
<1>4. /\ pos \in 0..(Wrap - 1) /\ pos = Add(tail, d - n) /\ run \in 1..n
      /\ ~ mirror => run <= Size - Index(pos)
      /\ ~ m => run <= size - t
  BY RunAt DEF RunOf
<1>5. t \in 0..(size - 1) /\ Index(pos) \in 0..(Size - 1)
  <2>1. pos \in Nat
    BY <1>2, <1>4
  <2> QED
    BY <1>2, <2>1, DivMod DEF Index
<1>6. \A x \in Nat : Old(x) \in 0..MaxBytes
  <2>1. \A x \in Nat : x % Size \in 0..(Size - 1)
    BY <1>2, DivMod
  <2>2. buffer \in [0..(Size - 1) -> 0..MaxBytes] /\ MaxBytes \in Nat
    BY <1>1, SpscAssumption DEF TypeOK
  <2>3. \A x \in Nat : buffer[x % Size] \in 0..MaxBytes
    BY <2>1, <2>2
  <2>4. 0 \in 0..MaxBytes
    BY <2>2
  <2> QED
    BY <2>3, <2>4, Zenon DEF Old, Garbage
<1>7. Turn(bytes, n, size, m) =
        [a \in 0..(size - 1) |-> IF i(a) \in 0..(run - 1) THEN Old(Index(pos) + i(a)) ELSE bytes[a]]
  BY DEF CopyRun, Turn
<1> DEFINE Copied == Turn(bytes, n, size, m)
<1> HIDE DEF Copied, i, d, t, pos, run
<1>f. /\ bytes \in [0..(size - 1) -> 0..MaxBytes]
      /\ \A k \in (d - (n - run))..(d - 1) : bytes[Add(tail, k) % size] = taken + 1 + k
  BY DEF Filled, d, run
<1>8. Copied \in [0..(size - 1) -> 0..MaxBytes]
  <2>1. ASSUME NEW a \in 0..(size - 1)
        PROVE  (IF i(a) \in 0..(run - 1) THEN Old(Index(pos) + i(a)) ELSE bytes[a]) \in 0..MaxBytes
    <3>1. CASE i(a) \in 0..(run - 1)
      <4>1. Index(pos) + i(a) \in Nat
        BY <3>1, <1>2, <1>3, <1>4, <1>5
      <4> QED
        BY <3>1, <4>1, <1>6
    <3>2. CASE i(a) \notin 0..(run - 1)
      BY <1>f, <3>2
    <3> QED
      BY <3>1, <3>2
  <2> QED
    BY <1>7, <2>1 DEF Copied
\* A byte j after pos: where it goes, and what the memcpy finds there.
<1>9. ASSUME NEW j \in 0..(n - 1)
      PROVE  /\ At(d - n + j) = Place(t, size, j)
             /\ At(d - n + j) \in 0..(size - 1)
             /\ Copied[At(d - n + j)] = taken + 1 + (d - n + j)
  <2>1. Add(tail, d - n + j) = Add(pos, j)
    <3>1. /\ d - n \in 0..Wrap /\ j \in 0..Wrap /\ (d - n) + j <= Wrap
      BY <1>2, <1>3
    <3> QED
      BY <1>1, <1>4, <3>1, AddAdd
  <2>2. j \in 0..size /\ j \in 0..(size - 1) /\ j \in 0..Size
    BY <1>2, <1>3
  <2>3. At(d - n + j) = Place(t, size, j)
    BY <1>4, <2>1, <2>2, MaskedAdd DEF t
  <2>4. Place(t, size, j) \in 0..(size - 1)
    BY <1>5, <2>2 DEF Place
  <2>5. /\ Copied[At(d - n + j)] =
             IF i(At(d - n + j)) \in 0..(run - 1) THEN Old(Index(pos) + i(At(d - n + j)))
             ELSE bytes[At(d - n + j)]
    BY <1>7, <2>3, <2>4 DEF Copied
  <2>6. CASE j < run
    <3>1. i(Place(t, size, j)) = j
      <4>1. CASE m
        <5> DEFINE x == Place(t, size, j) - t + size
        <5>1. x = j \/ x = j + size
          <6>1. t \in Nat /\ size \in Nat /\ j \in Nat
            BY <1>5, <2>2
          <6> QED
            BY <6>1 DEF Place
        <5>2. x \in 0..(2 * size - 1)
          BY <5>1, <2>2
        <5> HIDE DEF x
        <5>m. x % size = IF x < size THEN x ELSE x - size
          BY <5>2, ModLin
        <5>3. x % size = j
          BY <5>1, <5>m, <2>2
        <5> QED
          BY <4>1, <5>3 DEF i, x
      <4>2. CASE ~ m
        <5>1. t + j < size
          BY <1>4, <1>5, <2>2, <2>6, <4>2
        <5> QED
          BY <4>2, <5>1, <1>5, <2>2 DEF i, Place
      <4> QED
        BY <4>1, <4>2
    <3>2. Copied[At(d - n + j)] = Old(Index(pos) + j)
      <4>1. j \in 0..(run - 1)
        BY <2>6, <1>3, <1>4
      <4> QED
        BY <2>3, <2>5, <3>1, <4>1
    <3>3. Index(Add(pos, j)) = Place(Index(pos), Size, j)
      BY <1>1, <1>4, <2>2, IndexAt
    <3>4. Old(Index(pos) + j) = buffer[Index(Add(pos, j))]
      <4>1. CASE mirror
        <5> DEFINE x == Index(pos) + j
        <5>1. x \in 0..(2 * Size - 1)
          BY <1>2, <1>3, <1>5
        <5> HIDE DEF x
        <5>m. x % Size = IF x < Size THEN x ELSE x - Size
          BY <1>2, <5>1, ModLin
        <5>p. Place(Index(pos), Size, j) = IF x < Size THEN x ELSE x - Size
          BY <1>2, <1>5, <2>2 DEF Place, x
        <5>q. x % Size = Place(Index(pos), Size, j)
          BY <5>m, <5>p
        <5>2. (Index(pos) + j) % Size = Place(Index(pos), Size, j)
          BY <5>q DEF x
        <5> QED
          BY <4>1, <3>3, <5>2 DEF Old
      <4>2. CASE ~ mirror
        <5>1. Index(pos) + j < Size
          BY <1>2, <1>3, <1>4, <1>5, <2>6, <4>2
        <5>2. (Index(pos) + j) % Size = Index(pos) + j
          <6>1. Index(pos) + j \in 0..(Size - 1)
            BY <5>1, <1>2, <1>3, <1>5
          <6>2. Index(pos) + j \in 0..(2 * Size - 1)
            BY <6>1, <1>2
          <6> QED
            BY <1>2, <6>1, <6>2, ModLin
        <5> QED
          BY <3>3, <5>1, <5>2 DEF Old, Place
      <4> QED
        BY <4>1, <4>2
    <3>5. d - n + j \in 0..(d + Stored - 1)
      BY <1>3
    <3>6. buffer[Index(Add(tail, d - n + j))] = taken + 1 + (d - n + j)
      BY <3>5 DEF IInv, RingHolds, d
    <3> QED
      BY <2>1, <2>3, <2>4, <3>2, <3>4, <3>6
  <2>7. CASE j >= run
    <3>1. i(Place(t, size, j)) \notin 0..(run - 1)
      <4>1. CASE m
        <5> DEFINE x == Place(t, size, j) - t + size
        <5>1. x = j \/ x = j + size
          <6>1. t \in Nat /\ size \in Nat /\ j \in Nat
            BY <1>5, <2>2
          <6> QED
            BY <6>1 DEF Place
        <5>2. x \in 0..(2 * size - 1)
          BY <5>1, <2>2
        <5> HIDE DEF x
        <5>m. x % size = IF x < size THEN x ELSE x - size
          BY <5>2, ModLin
        <5>3. x % size = j
          BY <5>1, <5>m, <2>2
        <5>4. i(Place(t, size, j)) = j
          BY <4>1, <5>3 DEF i, x
        <5> QED
          BY <5>4, <2>7, <1>3, <1>4
      <4>2. CASE ~ m
        <5>1. i(Place(t, size, j)) = j \/ i(Place(t, size, j)) < 0
          BY <4>2, <1>5, <2>2 DEF i, Place
        <5> QED
          BY <5>1, <2>7, <2>2, <1>3, <1>4
      <4> QED
        BY <4>1, <4>2
    <3>2. Copied[At(d - n + j)] = bytes[At(d - n + j)]
      BY <2>3, <2>5, <3>1
    <3>3. d - n + j \in (d - (n - run))..(d - 1)
      BY <2>7, <1>3, <1>4
    <3>4. bytes[Add(tail, d - n + j) % size] = taken + 1 + (d - n + j)
      BY <1>f, <3>3
    <3> QED
      BY <2>3, <2>4, <3>2, <3>4
  <2> QED
    BY <2>6, <2>7, <1>3, <1>4
<1>10. ASSUME NEW k \in (d - n)..(d - 1)
       PROVE  Copied[At(k)] = taken + 1 + k
  <2>1. k - (d - n) \in 0..(n - 1) /\ d - n + (k - (d - n)) = k
    BY <1>3
  <2>2. Copied[At(d - n + (k - (d - n)))] = taken + 1 + (d - n + (k - (d - n)))
    BY <2>1, <1>9
  <2> QED
    BY <2>1, <2>2
<1> QED
  BY <1>8, <1>10 DEF Copied, d, Filled

\* The loop of retro_spsc_grow comes to its end, and then each unread byte is at its
\* place in the new buffer.
LEMMA MovedAt ==
    ASSUME IInv, NEW m \in BOOLEAN, NEW size \in Nat \ {0}, Wrap % size = 0,
           capacity <= size
    PROVE  /\ Moved(size, m) \in [0..(size - 1) -> 0..MaxBytes]
           /\ \A k \in 0..(written - taken - 1) :
                 Moved(size, m)[Add(tail, k) % size] = taken + 1 + k
<1> DEFINE N        == written - taken
           R(n)     == RunOf(n, size, m)
           Body(g, n) == IF n = 0 THEN [a \in 0..(size - 1) |-> Garbage]
                         ELSE Turn(g[n - R(n)], n, size, m)
           Built(g, k) == g = [n \in 0..k |-> Body(g, n)]
           moved == CHOOSE g : g = [n \in 0..N |-> Body(g, n)]
<1>0. N \in Nat /\ Sub(head, tail) = N /\ MaxBytes \in Nat
  <2>1. Sub(head, tail) = N /\ N \in 0..capacity
    BY Distances
  <2>2. capacity \in Nat
    BY Geometry DEF IInv
  <2> QED
    BY <2>1, <2>2, SpscAssumption
<1>1. Moved(size, m) = moved[N]
  BY <1>0, Zenon DEF Moved, Turn, RunOf
<1>r. \A n \in 1..N : R(n) \in 1..n
  BY RunAt DEF RunOf
<1>b. \A g, n : n # 0 => Body(g, n) = Turn(g[n - R(n)], n, size, m)
  OBVIOUS
<1>z. \A g : Body(g, 0) = [a \in 0..(size - 1) |-> Garbage]
  OBVIOUS
<1> HIDE DEF N, R
<1>2. \A k \in 0..N : \E g : Built(g, k)
  <2> DEFINE T == {k \in 0..N : ~ \E g : Built(g, k)}
  <2> SUFFICES ASSUME T # {} PROVE FALSE
    OBVIOUS
  <2>1. PICK k \in T : \A j \in T : k <= j
    <3>1. T \in SUBSET Nat
      BY <1>0
    <3> HIDE DEF T
    <3> QED
      BY <3>1, LeastNat
  <2>2. k \in 0..N /\ ~ \E g : Built(g, k)
    BY <2>1
  <2>3. CASE k = 0
    <3> DEFINE g == [n \in 0..k |-> [a \in 0..(size - 1) |-> Garbage]]
    <3>1. g = [n \in 0..k |-> Body(g, n)]
      BY <2>3
    <3> QED
      BY <2>2, <3>1
  <2>4. CASE k # 0
    <3>1. k - 1 \in 0..N /\ k - 1 \notin T
      <4> HIDE DEF T
      <4> QED BY <1>0, <2>1, <2>2, <2>4
    <3>2. PICK g : Built(g, k - 1)
      BY <3>1
    <3>3. \A n \in 0..(k - 1) : g[n] = Body(g, n)
      <4> HIDE DEF Body
      <4> QED BY <3>2
    <3> DEFINE h == [n \in 0..k |-> IF n = k THEN Turn(g[k - R(k)], k, size, m) ELSE g[n]]
    <3>4. ASSUME NEW n \in 0..k PROVE h[n] = Body(h, n)
      <4>1. CASE n = 0
        <5>1. h[n] = g[n] /\ n \in 0..(k - 1)
          BY <4>1, <2>2, <2>4
        <5> HIDE DEF h, Body
        <5> QED
          BY <4>1, <5>1, <3>3, <1>z
      <4>2. CASE n # 0
        <5>r. R(n) \in 1..n
          <6>1. n \in 1..N
            BY <1>0, <4>2, <2>2
          <6> QED
            BY <1>r, <6>1
        <5>1. n - R(n) \in 0..(k - 1) /\ h[n - R(n)] = g[n - R(n)]
          BY <5>r, <4>2, <2>2
        <5>0. Body(h, n) = Turn(h[n - R(n)], n, size, m) /\ Body(g, n) = Turn(g[n - R(n)], n, size, m)
          <6> HIDE DEF h, Body
          <6> QED BY <1>b, <4>2
        <5>2. CASE n = k
          <6>1. h[n] = Turn(g[n - R(n)], n, size, m)
            BY <5>2
          <6> HIDE DEF h, Body
          <6> QED
            BY <5>0, <5>1, <6>1
        <5>3. CASE n # k
          <6>1. n \in 0..(k - 1) /\ h[n] = g[n]
            BY <5>3, <2>2
          <6> HIDE DEF h, Body
          <6> QED
            BY <5>0, <5>1, <6>1, <3>3
        <5> QED
          BY <5>2, <5>3
      <4> QED
        BY <4>1, <4>2
    <3>5. h = [n \in 0..k |-> Body(h, n)]
      <4>1. h = [n \in 0..k |-> h[n]]
        OBVIOUS
      <4> HIDE DEF h, Body
      <4> QED
        BY <3>4, <4>1, Zenon
    <3> QED
      BY <2>2, <3>5
  <2> QED
    BY <2>3, <2>4
<1>3. moved = [n \in 0..N |-> Body(moved, n)]
  <2>1. \E g : g = [n \in 0..N |-> Body(g, n)]
    <3>1. N \in 0..N
      BY <1>0
    <3> HIDE DEF Body
    <3> QED
      BY <3>1, <1>2, Zenon
  <2> HIDE DEF Body
  <2> QED
    BY <2>1, Zenon
<1> HIDE DEF moved
<1>4. /\ moved[0] = [a \in 0..(size - 1) |-> Garbage]
      /\ \A n \in 1..N : moved[n] = Turn(moved[n - R(n)], n, size, m)
  <2>1. \A n \in 0..N : moved[n] = Body(moved, n)
    <3> HIDE DEF Body
    <3> QED BY <1>3
  <2> HIDE DEF Body
  <2> QED
    BY <1>0, <1>b, <1>z, <2>1
<1> DEFINE Good(n) == Filled(moved[n], n, size)
<1>5. \A n \in 0..N : Good(n)
  <2> DEFINE T == {n \in 0..N : ~ Good(n)}
  <2> SUFFICES ASSUME T # {} PROVE FALSE
    OBVIOUS
  <2>1. PICK n \in T : \A j \in T : n <= j
    <3>1. T \in SUBSET Nat
      BY <1>0
    <3> HIDE DEF T
    <3> QED
      BY <3>1, LeastNat
  <2>2. n \in 0..N /\ ~ Good(n)
    BY <2>1
  <2>3. CASE n = 0
    <3>1. \A k \in (written - taken - n)..(written - taken - 1) : FALSE
      BY <2>3, <1>0 DEF N
    <3>2. moved[n] \in [0..(size - 1) -> 0..MaxBytes]
      BY <1>0, <1>4, <2>3 DEF Garbage
    <3> QED
      BY <2>2, <3>1, <3>2 DEF Filled
  <2>4. CASE n # 0
    <3>1. n \in 1..N /\ R(n) \in 1..n /\ n - R(n) \in 0..N /\ n - R(n) < n
      BY <1>0, <1>r, <2>2, <2>4
    <3>2. Good(n - R(n))
      <4>1. n - R(n) \notin T
        <5> HIDE DEF T
        <5> QED BY <1>0, <2>1, <2>2, <3>1
      <4> QED
        BY <3>1, <4>1
    <3>4. Filled(Turn(moved[n - R(n)], n, size, m), n, size)
      <4>1. n \in 1..(written - taken)
        BY <3>1 DEF N
      <4>2. Filled(moved[n - R(n)], n - RunOf(n, size, m), size)
        BY <3>2 DEF R
      <4> HIDE DEF T
      <4> QED
        BY <4>1, <4>2, CopyRunAt, Zenon
    <3> QED
      BY <1>4, <2>2, <3>1, <3>4
  <2> QED
    BY <2>3, <2>4
<1> QED
  <2>1. Filled(Moved(size, m), N, size) /\ N - N = 0
    BY <1>0, <1>1, <1>5
  <2> QED
    BY <2>1 DEF N, Filled

\* The copy to a larger buffer keeps the invariant.
LEMMA GrowIInv ==
    ASSUME IInv, NEW cap \in 1..MaxCapacity, NEW m \in {FALSE, mirror}, Grow(cap, m)
    PROVE  IInv'
<1> DEFINE d == written - taken
           size == BufferSize(capacity', m)
<1>1. /\ TypeOK /\ written \in Nat /\ taken \in Nat /\ pn = 0 /\ cn = 0
      /\ head \in 0..(Wrap - 1) /\ tail \in 0..(Wrap - 1)
  BY DEF IInv, TypeOK, Grow, ProducerFits, ConsumerHas
<1>m. m \in BOOLEAN
  BY DEF IInv, TypeOK
<1>2. Wrap \in Nat \ {0} /\ capacity \in Nat \ {0}
  BY <1>1, Geometry
<1>3. /\ capacity' \in PowersOfTwo /\ capacity' <= MaxCapacity /\ capacity < capacity'
      /\ capacity' \in Nat \ {0}
  <2>1. /\ capacity' \in PowersOfTwo /\ cap <= capacity' /\ capacity' <= MaxCapacity
    BY RoundUp DEF Grow
  <2>2. capacity' \in Nat \ {0} /\ capacity < cap
    BY <2>1, SpscAssumption DEF Grow
  <2>3. cap \in Nat
    BY SpscAssumption
  <2> QED
    BY <1>2, <2>1, <2>2, <2>3
<1>4. Size' = size
  BY DEF Grow, Size
<1>5. size \in PowersOfTwo /\ capacity' <= size /\ size <= Wrap
  <2>1. Granule \in Nat \ {0} /\ MaxCapacity \in Nat \ {0}
    BY SpscAssumption
  <2> QED
    BY <1>1, <1>m, <1>2, <1>3, <2>1, SpscAssumption DEF BufferSize, Max2
<1> HIDE DEF size
<1>6. size \in Nat \ {0} /\ Wrap % size = 0 /\ capacity <= size
  BY <1>2, <1>3, <1>5, SpscAssumption
<1>7. /\ buffer' \in [0..(size - 1) -> 0..MaxBytes]
      /\ \A k \in 0..(d - 1) : buffer'[Add(tail, k) % size] = taken + 1 + k
  <2>1. buffer' = Moved(size, m)
    BY DEF Grow, size
  <2> QED
    BY <1>m, <1>6, <2>1, MovedAt
<1>8. Sub(head, tail) = d /\ d \in 0..capacity
  BY Distances
<1>9. TypeOK'
  BY <1>1, <1>m, <1>3, <1>4, <1>7 DEF TypeOK, Grow, producer, consumer
<1>10. CountersOrdered'
  <2>1. /\ Sub(head', tail') = d /\ Sub(head', cached_tail') = d /\ Sub(cached_head', tail') = d
        /\ written' = written /\ taken' = taken
    BY <1>8 DEF Grow
  <2>2. d <= capacity'
    BY <1>2, <1>3, <1>8
  <2> QED
    BY <1>1, <1>2, <1>8, <2>1, <2>2 DEF CountersOrdered, Sub
<1>11. RingHolds'
  <2>1. Stored' = 0 /\ written' = written /\ taken' = taken /\ tail' = tail
    BY DEF Stored, Grow, producer
  <2>2. \A k : Index(Add(tail, k))' = Add(tail, k) % size
    BY <1>4, <2>1 DEF Index, Add
  <2>3. d + 0 - 1 = d - 1
    BY <1>1
  <2> QED
    BY <1>7, <2>1, <2>2, <2>3 DEF RingHolds
<1>12. ProducerFits'
  <2>1. Room(cached_tail)' = capacity' - Sub(head, tail)
    <3>1. head' = head /\ cached_tail' = tail
      BY DEF Grow
    <3> QED
      BY <3>1 DEF Room, Sub
  <2>2. 0 <= capacity' - Sub(head, tail)
    <3>1. Sub(head, tail) \in 0..capacity
      BY <1>8
    <3> QED
      BY <1>2, <1>3, <3>1
  <2> QED
    BY <1>1, <2>1, <2>2 DEF ProducerFits, Grow, producer
<1>13. ConsumerHas'
  <2>1. Avail(cached_head)' = d
    BY <1>8 DEF Avail, Sub, Grow
  <2> QED
    BY <1>1, <1>2, <1>8, <2>1 DEF IInv, ConsumerHas, Grow, consumer
<1> QED
  BY <1>9, <1>10, <1>11, <1>12, <1>13 DEF IInv

-----------------------------------------------------------------------------
(***************************************************************************)
(* The theorems.                                                           *)
(***************************************************************************)
\* Every call of either side, and clear and grow between calls, keep the invariant.
THEOREM Invariance == Spec => []IInv
<1>1. IInv /\ [Next]_vars => IInv'
  <2> SUFFICES ASSUME IInv, [Next]_vars PROVE IInv'
    OBVIOUS
  <2>1. CASE UNCHANGED vars
    BY <2>1 DEF vars, shape, producer, consumer, IInv, TypeOK, CountersOrdered, RingHolds,
         ProducerFits, ConsumerHas, Stored, Room, Avail, Index, Contig, Size, Add, Sub
  <2>2. CASE ProducerStep
    BY <2>2, WriteIInv, WriteFramesIInv, WriteBeginIInv, CopyFirstIInv, CopyRestIInv,
       PublishHeadIInv, FillSpanIInv, Zenon DEF ProducerStep
  <2>3. CASE ConsumerStep
    BY <2>3, LookIInv, ReadBeginIInv, ReadFirstIInv, ReadRestIInv, PeekReturnIInv,
       UseSpanIInv, PublishTailIInv, Zenon DEF ConsumerStep, Read, Peek, Skip
  <2> QED
    BY <2>1, <2>2, <2>3, ClearIInv, GrowIInv, Zenon DEF Next
<1> QED
  BY InitIInv, <1>1, PTL DEF Spec

\* retro_spsc_write, _read, _peek, _skip, the span calls and retro_spsc_grow together:
\* the stream arrives whole and in order, however often the counters wrap.
THEOREM StreamArrives == Spec => []StreamIntact
<1>1. IInv => StreamIntact
  <2> SUFFICES ASSUME IInv PROVE StreamIntact
    OBVIOUS
  <2>1. TypeOK /\ CountersOrdered /\ taken \in Nat /\ written \in Nat
    BY DEF IInv, TypeOK
  <2>2. Sub(head, tail) = written - taken /\ written - taken \in Nat /\ Stored \in Nat
    <3>1. /\ Sub(head, tail) = written - taken /\ written - taken \in 0..capacity
          /\ pn \in 0..(capacity - (written - taken)) /\ Stored \in 0..pn
      BY Distances
    <3>2. capacity \in Nat
      BY <2>1, Geometry
    <3> QED
      BY <2>1, <3>1, <3>2
  <2>3. ASSUME NEW i \in 1..Sub(head, tail)
        PROVE  buffer[Index(Add(tail, i - 1))] = taken + i
    <3>1. i - 1 \in 0..(written - taken + Stored - 1)
      BY <2>1, <2>2
    <3>2. buffer[Index(Add(tail, i - 1))] = taken + 1 + (i - 1)
      BY <3>1 DEF IInv, RingHolds
    <3> QED
      BY <2>1, <2>2, <3>2
  <2>4. \A i \in DOMAIN Unread : Unread[i] = taken + i
    BY <2>3 DEF Unread
  <2>5. ReadsInOrder
    BY DEF IInv, ConsumerHas, ReadsInOrder
  <2> QED
    BY <2>1, <2>4, <2>5 DEF StreamIntact
<1> QED
  BY Invariance, <1>1, PTL

\* The two sides share no lock: the bytes one memcpy writes are never those the other
\* one's reads.
THEOREM NoRace == Spec => []NoDataRace
<1>1. IInv => NoDataRace
  <2> SUFFICES ASSUME IInv, NEW j \in 0..(pn - 1), NEW k \in 0..(cn - 1),
                      Index(Add(head, j)) = Index(Add(tail, k))
               PROVE  FALSE
    BY DEF NoDataRace
  <2> DEFINE d == written - taken
             i == Index(tail)
  <2>1. /\ TypeOK /\ tail \in 0..(Wrap - 1) /\ head \in 0..(Wrap - 1)
        /\ written \in Nat /\ taken \in Nat
    BY DEF IInv, TypeOK
  <2>2. /\ Wrap \in Nat \ {0} /\ capacity \in Nat \ {0} /\ Size \in Nat \ {0}
        /\ capacity <= Size /\ 2 * Size <= Wrap
    BY <2>1, Geometry
  <2>3. /\ d \in 0..capacity /\ pn \in 0..(capacity - d) /\ cn \in 0..d
        /\ head = Add(tail, d) /\ i \in 0..(Size - 1)
    BY Distances
  <2>4. d + j \in 0..(Size - 1) /\ k \in 0..(Size - 1) /\ k < d + j
    BY <2>1, <2>2, <2>3
  <2>5. Add(head, j) = Add(tail, d + j)
    <3>1. d \in 0..Wrap /\ j \in 0..Wrap /\ d + j <= Wrap
      BY <2>1, <2>2, <2>3
    <3> HIDE DEF d
    <3>2. Add(Add(tail, d), j) = Add(tail, d + j)
      BY <2>1, <3>1, AddAdd
    <3> QED
      BY <2>3, <3>2
  <2> HIDE DEF d, i
  <2>6. /\ Index(Add(tail, d + j)) = Place(i, Size, d + j)
        /\ Index(Add(tail, k)) = Place(i, Size, k)
    <3>1. d + j \in 0..Size /\ k \in 0..Size
      BY <2>2, <2>4
    <3> QED
      BY <2>1, <3>1, IndexAt DEF i
  <2>7. Place(i, Size, d + j) = Place(i, Size, k)
    BY <2>5, <2>6
  <2> QED
    BY <2>2, <2>3, <2>4, <2>7 DEF Place
<1> QED
  BY Invariance, <1>1, PTL

\* A short count is a true one, though it was reckoned from a copy: the copy is
\* looked at again before the call gives less than it was asked.
THEOREM ShortIsTrue == Spec => ShortOnlyWhenShort
<1> DEFINE Short ==
      /\ \A n \in Requests : Write(n) /\ pn' < n => pn' = Room(tail)
      /\ \A n \in Requests :
            WriteFrames(n) /\ pn' < n * FrameBytes => pn' = FramesThatFit(tail)
      /\ WriteBegin /\ pn' < Contig(Index(head)) => pn' = Room(tail)
      /\ \A n \in Requests : Look(n, "copy") /\ cn' < n => cn' = Avail(head)
      /\ ReadBegin /\ cn' < Contig(Index(tail)) => cn' = Avail(head)
<1>1. ASSUME IInv PROVE Short
  <2>1. /\ Room(tail) \in 0..capacity /\ Room(cached_tail) \in 0..capacity
        /\ Avail(head) \in 0..capacity /\ Avail(cached_head) \in 0..capacity
        /\ Sub(head, cached_tail) \in Sub(head, tail)..capacity
        /\ Sub(cached_head, tail) \in 0..Sub(head, tail)
        /\ Sub(head, tail) \in 0..capacity
    BY <1>1, Copies DEF Avail
  <2>2. capacity \in Nat /\ \A n \in Requests : n \in Nat
    BY <1>1, Geometry, SpscAssumption DEF IInv
  <2>3. Contig(Index(head)) \in Nat /\ Contig(Index(tail)) \in Nat
    BY <1>1, Distances
  <2>4. ASSUME NEW n \in Requests, Write(n), pn' < n PROVE pn' = Room(tail)
    BY <2>1, <2>2, <2>4 DEF Write, Min2
  <2>5. ASSUME NEW n \in Requests, WriteFrames(n), pn' < n * FrameBytes
        PROVE  pn' = FramesThatFit(tail)
    <3>1. FrameBytes \in Nat \ {0} /\ n * FrameBytes \in Nat
      BY <2>2, SpscAssumption, Mul
    <3>2. ASSUME NEW t \in {tail, cached_tail} PROVE FramesThatFit(t) \in Nat
      <4>1. Room(t) \in Nat
        BY <2>1, <2>2
      <4>2. Room(t) \div FrameBytes \in Nat
        BY <3>1, <4>1, DivMod
      <4> QED
        BY <3>1, <4>2, Mul DEF FramesThatFit
    <3> QED
      BY <2>5, <3>1, <3>2 DEF WriteFrames, Min2
  <2>6. ASSUME WriteBegin, pn' < Contig(Index(head)) PROVE pn' = Room(tail)
    BY <2>1, <2>2, <2>3, <2>6 DEF WriteBegin, Min2, Room
  <2>7. ASSUME NEW n \in Requests, Look(n, "copy"), cn' < n PROVE cn' = Avail(head)
    BY <2>1, <2>2, <2>7 DEF Look, Min2
  <2>8. ASSUME ReadBegin, cn' < Contig(Index(tail)) PROVE cn' = Avail(head)
    BY <2>1, <2>2, <2>3, <2>8 DEF ReadBegin, Min2, Avail
  <2> QED
    BY <2>4, <2>5, <2>6, <2>7, <2>8
<1>2. IInv => [Short]_vars
  BY <1>1
<1> QED
  BY Invariance, <1>2, PTL DEF ShortOnlyWhenShort
=============================================================================
