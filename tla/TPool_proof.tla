----------------------------- MODULE TPool_proof ----------------------------
(***************************************************************************)
(* The thread pool of tpool.c, for any number of workers, posters and      *)
(* clients, any size of the ring and any number of jobs.                   *)
(*                                                                         *)
(* The two positions of the ring wrap, so the proof reads them as ones     *)
(* that do not: the last QueueSize positions are a window that says of     *)
(* each slot whose turn it is and who may write there (Ring, Tries).  A    *)
(* job that left its poster is in one slot, in the list of the overflow,   *)
(* in one taker's hands, or is over (Apart, Fates).  The two counts are    *)
(* the numbers of the threads and jobs at certain places (Counts), and a   *)
(* step moves one of those numbers by at most one.  A worker that will     *)
(* sleep has its mark or a wake on its way (Marks), so that with something *)
(* queued one worker looks into the pool again (Awake).  tpool_destroy is  *)
(* alone with the workers and empties the pool first (Shut).               *)
(*                                                                         *)
(* The compare-and-swap of tpool_try_add_work would win wrongly if 2^32    *)
(* jobs were posted since it read its position.  The theorems are about    *)
(* the behaviours in which that does not happen ([][TryIsBrief]_vars).     *)
(***************************************************************************)
EXTENDS TPool, FiniteSetTheorems, SequenceTheorems, TLAPS

(***************************************************************************)
(* Positions.                                                              *)
(***************************************************************************)
\* The sizes.
LEMMA Sizes ==
    /\ QueueSize \in Nat /\ QueueSize >= 2
    /\ Wrap \in Nat /\ Wrap >= 2 * QueueSize /\ Wrap >= 4
    /\ QueueSize \in Nat \ {0} /\ Wrap \in Nat \ {0}
BY TPoolAssumption

\* Quotient and remainder ...
LEMMA QuotientRemainder ==
    ASSUME NEW m \in Nat \ {0}, NEW x \in Nat
    PROVE  /\ x = (x \div m) * m + (x % m)
           /\ x % m \in 0..(m - 1)
           /\ x \div m \in Nat
BY SMT

\* ... are the only ones.
LEMMA RemainderUnique ==
    ASSUME NEW m \in Nat \ {0}, NEW q \in Nat, NEW r \in 0..(m - 1)
    PROVE  (q * m + r) % m = r
BY SMT

\* Whole rounds do not change a remainder.
LEMMA Rounds ==
    ASSUME NEW m \in Nat \ {0}, NEW x \in Nat, NEW k \in Nat
    PROVE  (x + k * m) % m = x % m
<1> DEFINE q == x \div m
           r == x % m
<1>1. x = q * m + r /\ r \in 0..(m - 1) /\ q \in Nat
  BY QuotientRemainder
<1> HIDE DEF q, r
<1>2. q + k \in Nat /\ x + k * m = (q + k) * m + r
  BY <1>1, SMT
<1>3. ((q + k) * m + r) % m = r
  BY <1>1, <1>2, RemainderUnique
<1> QED
  BY <1>2, <1>3 DEF r

\* Two numbers less than a round apart with the same remainder are one.
LEMMA SameRemainder ==
    ASSUME NEW m \in Nat \ {0}, NEW x \in Nat, NEW y \in Nat, x <= y, y < x + m,
           x % m = y % m
    PROVE  x = y
<1> DEFINE q == x \div m
           p == y \div m
           r == x % m
<1>1. x = q * m + r /\ r \in 0..(m - 1) /\ q \in Nat
  BY QuotientRemainder
<1>2. y = p * m + r /\ p \in Nat
  BY QuotientRemainder
<1> HIDE DEF q, p, r
<1>3. q * m <= p * m /\ p * m < q * m + m
  BY <1>1, <1>2
<1>4. p = q
  <2>1. CASE p > q
    <3>1. PICK d \in Nat : p = q + 1 + d
      <4>1. p - q - 1 \in Nat /\ p = q + 1 + (p - q - 1)
        BY <2>1, <1>1, <1>2
      <4> QED
        BY <4>1
    <3>2. p * m = q * m + m + d * m /\ d * m \in Nat
      BY <3>1, <1>1, SMT
    <3>3. q * m \in Nat
      BY <1>1, SMT
    <3> QED
      BY <3>2, <3>3, <1>3
  <2>2. CASE p < q
    <3>1. PICK d \in Nat : q = p + 1 + d
      <4>1. q - p - 1 \in Nat /\ q = p + 1 + (q - p - 1)
        BY <2>2, <1>1, <1>2
      <4> QED
        BY <4>1
    <3>2. q * m = p * m + m + d * m /\ d * m \in Nat
      BY <3>1, <1>2, SMT
    <3>3. p * m \in Nat
      BY <1>2, SMT
    <3> QED
      BY <3>2, <3>3, <1>3
  <2> QED
    BY <2>1, <2>2, <1>1, <1>2
<1> QED
  BY <1>1, <1>2, <1>4

\* Turns and slots.
LEMMA TurnsAndSlots ==
    ASSUME NEW x \in Nat
    PROVE  /\ Turn(x) \in 0..(Wrap - 1)
           /\ SlotOf(x) \in Slots
           /\ SlotOf(x + QueueSize) = SlotOf(x)
           /\ SlotOf(Turn(x)) = SlotOf(x)
           /\ Turn(x) % QueueSize = SlotOf(x)
<1>1. Turn(x) \in 0..(Wrap - 1)
  BY Sizes, QuotientRemainder DEF Turn
<1>2. SlotOf(x) \in Slots
  BY Sizes, QuotientRemainder DEF SlotOf, Slots
<1>3. SlotOf(x + QueueSize) = SlotOf(x)
  <2>1. (x + 1 * QueueSize) % QueueSize = x % QueueSize
    BY Sizes, Rounds
  <2>2. x + 1 * QueueSize = x + QueueSize
    BY Sizes
  <2> QED
    BY <2>1, <2>2 DEF SlotOf
<1>4. SlotOf(Turn(x)) = SlotOf(x)
  <2> DEFINE k == Wrap \div QueueSize
             q == x \div Wrap
             r == x % Wrap
  <2>1. Wrap = k * QueueSize + (Wrap % QueueSize) /\ k \in Nat
    BY Sizes, QuotientRemainder
  <2>2. Wrap = k * QueueSize
    <3>1. Wrap % QueueSize = 0
      BY TPoolAssumption
    <3> DEFINE kq == k * QueueSize
    <3>2. kq \in Nat
      <4> HIDE DEF k
      <4> QED
        BY <2>1, Sizes, SMT
    <3>3. Wrap = kq + (Wrap % QueueSize)
      BY <2>1
    <3> HIDE DEF kq
    <3>4. Wrap = kq
      BY <3>1, <3>2, <3>3
    <3> QED
      BY <3>4 DEF kq
  <2>3. x = q * Wrap + r /\ q \in Nat /\ r \in Nat
    BY Sizes, QuotientRemainder
  <2> HIDE DEF k, q, r
  <2>4. x = r + (q * k) * QueueSize /\ q * k \in Nat
    BY <2>1, <2>2, <2>3, Sizes, SMT
  <2>5. (r + (q * k) * QueueSize) % QueueSize = r % QueueSize
    BY <2>3, <2>4, Sizes, Rounds
  <2> QED
    BY <2>4, <2>5 DEF r, SlotOf, Turn
<1> QED
  BY <1>1, <1>2, <1>3, <1>4 DEF SlotOf

\* In a window of a round each position has its own slot ...
LEMMA OwnSlot ==
    ASSUME NEW x \in Nat, NEW y \in Nat, x < y + QueueSize, y < x + QueueSize,
           SlotOf(x) = SlotOf(y)
    PROVE  x = y
<1>1. CASE x <= y
  BY <1>1, Sizes, SameRemainder DEF SlotOf
<1>2. CASE y <= x
  BY <1>2, Sizes, SameRemainder DEF SlotOf
<1> QED
  BY <1>1, <1>2

\* ... and its own turn.
LEMMA OwnTurn ==
    ASSUME NEW x \in Nat, NEW y \in Nat, x < y + Wrap, y < x + Wrap,
           Turn(x) = Turn(y)
    PROVE  x = y
<1>1. CASE x <= y
  BY <1>1, Sizes, SameRemainder DEF Turn
<1>2. CASE y <= x
  BY <1>2, Sizes, SameRemainder DEF Turn
<1> QED
  BY <1>1, <1>2

\* Every slot has a position in a window.
LEMMA EverySlot ==
    ASSUME NEW E \in Nat, E >= QueueSize, NEW i \in Slots
    PROVE  \E x \in (E - QueueSize)..(E - 1) : SlotOf(x) = i
<1> DEFINE n == E - 1 - i
           m == n % QueueSize
           q == n \div QueueSize
<1>1. n \in Nat /\ i \in Nat
  BY Sizes DEF Slots
<1>2. n = q * QueueSize + m /\ m \in 0..(QueueSize - 1) /\ q \in Nat
  <2> HIDE DEF n
  <2> QED
    BY <1>1, Sizes, QuotientRemainder
<1>3. E - 1 - m = i + q * QueueSize
  <2> DEFINE qq == q * QueueSize
  <2>1. qq \in Nat
    <3> HIDE DEF q
    <3> QED
      BY <1>2, Sizes, SMT
  <2>2. n = qq + m
    BY <1>2
  <2> HIDE DEF qq, m
  <2>3. E - 1 - m = i + qq
    BY <1>1, <1>2, <2>1, <2>2, Sizes
  <2> QED
    BY <2>3 DEF qq
<1>4. (i + q * QueueSize) % QueueSize = i % QueueSize
  <2> HIDE DEF q
  <2> QED
    BY <1>1, <1>2, Sizes, Rounds
<1>5. i % QueueSize = i
  BY Sizes, SMT DEF Slots
<1>6. SlotOf(E - 1 - m) = i
  BY <1>3, <1>4, <1>5 DEF SlotOf
<1>7. E - 1 - m \in (E - QueueSize)..(E - 1)
  <2> HIDE DEF m
  <2> QED
    BY <1>2, Sizes
<1> QED
  BY <1>6, <1>7

\* The position n further on.
LEMMA TurnPlus ==
    ASSUME NEW x \in Nat, NEW n \in Nat
    PROVE  Plus(Turn(x), n) = Turn(x + n)
<1> DEFINE q == x \div Wrap
           r == x % Wrap
<1>1. x = q * Wrap + r /\ q \in Nat /\ r \in Nat
  BY Sizes, QuotientRemainder
<1> HIDE DEF q, r
<1>2. x + n = (r + n) + q * Wrap /\ r + n \in Nat
  BY <1>1, Sizes, SMT
<1>3. ((r + n) + q * Wrap) % Wrap = (r + n) % Wrap
  BY <1>1, <1>2, Sizes, Rounds
<1> QED
  BY <1>2, <1>3 DEF r, Plus, Turn

\* The difference of two positions within half a round of each other.
LEMMA DifTurn ==
    ASSUME NEW x \in Nat, NEW y \in Nat
    PROVE  /\ x <= y /\ y <= x + QueueSize => Dif(Turn(x), Turn(y)) = x - y
           /\ y <= x /\ x < y + QueueSize => Dif(Turn(x), Turn(y)) = x - y
<1> DEFINE a == Turn(x)
           b == Turn(y)
           d == (a - b + Wrap) % Wrap
<1>1. a \in 0..(Wrap - 1) /\ b \in 0..(Wrap - 1)
  BY TurnsAndSlots
<1>2. ASSUME NEW e \in 0..(Wrap - 1), Turn(y + e) = Turn(x) PROVE d = e
  <2>1. Plus(b, e) = a
    BY <1>2, TurnPlus
  <2> DEFINE z == a - b + Wrap
  <2>2. z \in Nat
    BY <1>1, Sizes
  <2>3. d \in 0..(Wrap - 1)
    <3> HIDE DEF z
    <3> QED
      BY <2>2, Sizes, QuotientRemainder DEF z
  <2>4. Turn(b + d) = Turn(b + z) /\ Turn(b + z) = Turn(a)
    <3> HIDE DEF a, b
    <3>1. Plus(Turn(z), b) = Turn(z + b)
      BY <2>2, <1>1, TurnPlus, Sizes
    <3>2. Turn(z + b) = Turn(a)
      <4>1. (a + 1 * Wrap) % Wrap = a % Wrap
        BY <1>1, Sizes, Rounds
      <4>2. a + 1 * Wrap = z + b
        BY <1>1, Sizes
      <4> QED
        BY <4>1, <4>2 DEF Turn
    <3>3. d + b = b + d /\ z + b = b + z
      BY <1>1, <2>2, <2>3, Sizes
    <3> QED
      BY <3>1, <3>2, <3>3 DEF Plus, Turn
  <2>5. Turn(b + e) = Turn(a)
    <3>1. a % Wrap = a
      <4> HIDE DEF a
      <4> QED
        BY <1>1, Sizes, SMT
    <3> QED
      BY <2>1, <3>1 DEF Plus, Turn
  <2> HIDE DEF a, b, d, z
  <2>6. b + d \in Nat /\ b + e \in Nat /\ b + d < b + e + Wrap /\ b + e < b + d + Wrap
    BY <1>1, <2>3, Sizes
  <2>7. b + d = b + e
    BY <2>4, <2>5, <2>6, OwnTurn
  <2> QED
    BY <2>7, <1>1, <2>3, Sizes
<1>3. ASSUME x = y PROVE d = 0
  <2>1. y + 0 = x /\ 0 \in 0..(Wrap - 1)
    BY <1>3, Sizes
  <2> HIDE DEF d
  <2> QED
    BY <2>1, <1>2
<1>4. Dif(a, b) = IF d < Wrap \div 2 THEN d ELSE d - Wrap
  BY DEF Dif
<1>5. ASSUME NEW W \in Nat, W >= 2 * QueueSize PROVE QueueSize <= W \div 2 /\ W - QueueSize >= W \div 2
  BY <1>5, Sizes, SMT
<1>6. QueueSize <= Wrap \div 2 /\ Wrap - QueueSize >= Wrap \div 2 /\ Wrap \div 2 \in Nat
  BY <1>5, Sizes, SMT
<1>7. ASSUME x < y, y <= x + QueueSize PROVE Dif(a, b) = x - y
  <2>1. Wrap - (y - x) \in 0..(Wrap - 1) /\ y + (Wrap - (y - x)) = x + 1 * Wrap
    BY <1>7, Sizes
  <2>2. Turn(x + 1 * Wrap) = Turn(x)
    BY Sizes, Rounds DEF Turn
  <2>3. d = Wrap - (y - x)
    <3> HIDE DEF d
    <3> QED
      BY <2>1, <2>2, <1>2
  <2> DEFINE h == Wrap \div 2
  <2>4. h \in Nat /\ Wrap - QueueSize >= h
    BY <1>6
  <2> HIDE DEF d, a, b, h
  <2>5. Dif(a, b) = IF d < h THEN d ELSE d - Wrap
    BY <1>4 DEF h
  <2> QED
    BY <2>3, <2>4, <2>5, <1>7, Sizes
<1>8. ASSUME y <= x, x < y + QueueSize PROVE Dif(a, b) = x - y
  <2>1. x - y \in 0..(Wrap - 1) /\ y + (x - y) = x
    BY <1>8, Sizes
  <2>2. d = x - y
    <3> HIDE DEF d
    <3> QED
      BY <2>1, <1>2
  <2> DEFINE h == Wrap \div 2
  <2>4. h \in Nat /\ QueueSize <= h
    BY <1>6
  <2> HIDE DEF d, a, b, h
  <2>5. Dif(a, b) = IF d < h THEN d ELSE d - Wrap
    BY <1>4 DEF h
  <2> QED
    BY <2>2, <2>4, <2>5, <1>8, Sizes
<1> QED
  BY <1>7, <1>8, Sizes

(***************************************************************************)
(* The ring.                                                               *)
(***************************************************************************)
\* A position's turn, the next one's and the next round's are three.
LEMMA ThreeTurns ==
    ASSUME NEW x \in Nat
    PROVE  /\ Turn(x) # Turn(x + 1)
           /\ Turn(x) # Turn(x + QueueSize)
           /\ Turn(x + 1) # Turn(x + QueueSize)
           /\ SlotOf(x + 1) # SlotOf(x)
<1>1. Turn(x) # Turn(x + 1)
  BY Sizes, OwnTurn
<1>2. Turn(x) # Turn(x + QueueSize)
  <2>1. x + QueueSize \in Nat /\ x + QueueSize < x + Wrap /\ x < x + QueueSize + Wrap
        /\ x # x + QueueSize
    BY Sizes
  <2> QED
    BY <2>1, OwnTurn
<1>3. Turn(x + 1) # Turn(x + QueueSize)
  <2>1. /\ x + QueueSize \in Nat /\ x + 1 \in Nat /\ x + QueueSize < x + 1 + Wrap
        /\ x + 1 < x + QueueSize + Wrap /\ x + 1 # x + QueueSize
    BY Sizes
  <2> QED
    BY <2>1, OwnTurn
<1>4. SlotOf(x + 1) # SlotOf(x)
  BY Sizes, OwnSlot
<1> QED
  BY <1>1, <1>2, <1>3, <1>4

\* The window: its positions, their slots, and what the shared positions point to.
LEMMA Window ==
    ASSUME NEW E \in Nat, NEW D \in Nat, RingAt(E, D)
    PROVE  /\ \A x \in (E - QueueSize)..(E - 1) : x \in Nat /\ SlotOf(x) \in Slots
           /\ \A x, y \in (E - QueueSize)..(E - 1) :
                 x # y => SlotOf(x) # SlotOf(y) /\ Turn(x) # Turn(y)
           /\ \A x \in (E - QueueSize)..(E - 1) : Turn(x) # Turn(E)
           /\ enq % QueueSize = SlotOf(E) /\ deq % QueueSize = SlotOf(D)
           /\ SeqAt(enq) = seq[SlotOf(E)] /\ SeqAt(deq) = seq[SlotOf(D)]
           /\ Plus(enq, 1) = Turn(E + 1) /\ Plus(deq, 1) = Turn(D + 1)
           /\ E - QueueSize \in (E - QueueSize)..(E - 1)
           /\ SlotOf(E - QueueSize) = SlotOf(E)
<1>1. QueueSize <= D /\ D <= E /\ E <= D + QueueSize /\ enq = Turn(E) /\ deq = Turn(D)
  BY DEF RingAt
<1>2. \A x \in (E - QueueSize)..(E - 1) : x \in Nat
  BY <1>1, Sizes
<1>3. \A x \in (E - QueueSize)..(E - 1) : SlotOf(x) \in Slots
  BY <1>2, TurnsAndSlots
<1>4. ASSUME NEW x \in (E - QueueSize)..(E - 1), NEW y \in (E - QueueSize)..(E - 1), x # y
      PROVE  SlotOf(x) # SlotOf(y) /\ Turn(x) # Turn(y)
  <2>1. /\ x \in Nat /\ y \in Nat /\ x < y + QueueSize /\ y < x + QueueSize
        /\ x < y + Wrap /\ y < x + Wrap
    BY <1>2, Sizes
  <2> QED
    BY <2>1, <1>4, OwnSlot, OwnTurn
<1>5. ASSUME NEW x \in (E - QueueSize)..(E - 1) PROVE Turn(x) # Turn(E)
  <2>1. x \in Nat /\ x < E + Wrap /\ E < x + Wrap /\ x # E
    BY <1>2, Sizes
  <2> QED
    BY <2>1, OwnTurn
<1>6. enq % QueueSize = SlotOf(E) /\ deq % QueueSize = SlotOf(D)
  BY <1>1, TurnsAndSlots
<1>7. Plus(enq, 1) = Turn(E + 1) /\ Plus(deq, 1) = Turn(D + 1)
  BY <1>1, TurnPlus
<1>8. E - QueueSize \in (E - QueueSize)..(E - 1) /\ SlotOf(E - QueueSize) = SlotOf(E)
  <2>1. E - QueueSize \in Nat /\ E - QueueSize + QueueSize = E
        /\ E - QueueSize \in (E - QueueSize)..(E - 1)
    BY <1>1, Sizes
  <2> QED
    BY <2>1, TurnsAndSlots
<1> QED
  BY <1>2, <1>3, <1>4, <1>5, <1>6, <1>7, <1>8 DEF SeqAt

\* Which slots are full, which being emptied.
LEMMA SlotKinds ==
    ASSUME NEW E \in Nat, NEW D \in Nat, RingAt(E, D), Shape,
           NEW x \in (E - QueueSize)..(E - 1)
    PROVE  /\ SlotOf(x) \in Full <=> seq[SlotOf(x)] = Turn(x + 1)
           /\ SlotOf(x) \in Emptying <=> x < D /\ seq[SlotOf(x)] = Turn(x + 1)
           /\ SlotOf(x) \in Emptying <=> \E t \in Takers : pc[t] = "empty" /\ pos[t] = Turn(x)
<1>1. x \in Nat /\ SlotOf(x) \in Slots
  BY Window
<1>2. seq[SlotOf(x)] \in {Turn(x), Turn(x + 1), Turn(x + QueueSize)}
  BY DEF RingAt
<1>3. /\ Turn(x) % QueueSize = SlotOf(x) /\ Turn(x + 1) % QueueSize = SlotOf(x + 1)
      /\ Turn(x + QueueSize) % QueueSize = SlotOf(x)
  <2>1. x + 1 \in Nat /\ x + QueueSize \in Nat
    BY <1>1, Sizes
  <2> QED
    BY <1>1, <2>1, TurnsAndSlots
<1>4. SlotOf(x) \in Full <=> seq[SlotOf(x)] = Turn(x + 1)
  BY <1>1, <1>2, <1>3, ThreeTurns DEF Full
<1>5. ASSUME NEW t \in Takers, pc[t] = "empty", SlotOf(x) = pos[t] % QueueSize
      PROVE  pos[t] = Turn(x) /\ x < D /\ seq[SlotOf(x)] = Turn(x + 1)
  <2>1. PICK y \in (E - QueueSize)..(D - 1) :
           pos[t] = Turn(y) /\ seq[SlotOf(y)] = Turn(y + 1)
    BY <1>5 DEF RingAt
  <2>2. y \in (E - QueueSize)..(E - 1)
    BY Sizes DEF RingAt
  <2>3. y \in Nat /\ pos[t] % QueueSize = SlotOf(y)
    BY <2>1, <2>2, Window, TurnsAndSlots
  <2>4. x = y
    BY <1>5, <2>2, <2>3, Window
  <2> QED
    BY <2>1, <2>4, <1>1
<1>6. ASSUME x < D, seq[SlotOf(x)] = Turn(x + 1)
      PROVE  \E t \in Takers : pc[t] = "empty" /\ pos[t] = Turn(x)
  <2>1. Turn(x + 1) # Turn(x) /\ Turn(x + 1) # Turn(x + QueueSize) /\ ~ (x >= D)
    BY <1>1, <1>6, ThreeTurns
  <2> QED
    BY <2>1, <1>6 DEF RingAt
<1>7. ASSUME NEW t \in Takers, pc[t] = "empty", pos[t] = Turn(x)
      PROVE  SlotOf(x) \in Emptying
  BY <1>3, <1>7 DEF Emptying
<1>8. ASSUME SlotOf(x) \in Emptying
      PROVE  \E t \in Takers : pc[t] = "empty" /\ SlotOf(x) = pos[t] % QueueSize
  BY <1>8 DEF Emptying
<1> QED
  BY <1>4, <1>5, <1>6, <1>7, <1>8

\* A slot that is being emptied is full.
LEMMA EmptyingFull ==
    ASSUME Shape, Ring
    PROVE  Emptying \subseteq Full
<1>1. PICK E \in Nat, D \in Nat : RingAt(E, D)
  BY DEF Ring
<1>2. ASSUME NEW t \in Takers, pc[t] = "empty" PROVE pos[t] % QueueSize \in Full
  <2>1. PICK x \in (E - QueueSize)..(D - 1) :
           pos[t] = Turn(x) /\ seq[SlotOf(x)] = Turn(x + 1)
    BY <1>1, <1>2 DEF RingAt
  <2>2. x \in (E - QueueSize)..(E - 1)
    BY <1>1, Sizes DEF RingAt
  <2>3. x \in Nat /\ pos[t] % QueueSize = SlotOf(x)
    BY <1>1, <2>1, <2>2, Window, TurnsAndSlots
  <2> QED
    BY <1>1, <2>1, <2>2, <2>3, SlotKinds
<1> QED
  BY <1>2 DEF Emptying

\* The jobs in the ring that no taker has claimed are those of the full slots that
\* nobody empties.
LEMMA InRingIs ==
    ASSUME Shape, Ring
    PROVE  InRing = {slot[i] : i \in Full \ Emptying}
<1>1. PICK E \in Nat, D \in Nat : RingAt(E, D)
  BY DEF Ring
<1> DEFINE P(i) == \E p \in 0..(Wrap - 1) :
                      p % QueueSize = i /\ seq[i] = Plus(p, 1) /\ Dif(p, deq) >= 0
<1>0. QueueSize <= D /\ D <= E /\ E <= D + QueueSize /\ deq = Turn(D)
  BY <1>1 DEF RingAt
<1>2. ASSUME NEW i \in Slots PROVE P(i) <=> i \in Full \ Emptying
  <2>1. PICK x \in (E - QueueSize)..(E - 1) : SlotOf(x) = i
    <3>1. E >= QueueSize
      BY <1>0, Sizes
    <3> QED
      BY <3>1, EverySlot
  <2>2. x \in Nat /\ x + 1 \in Nat
    BY <1>1, Window
  <2>3. Dif(Turn(x), deq) >= 0 <=> x >= D
    <3>1. CASE x >= D
      <4>1. Dif(Turn(x), deq) = x - D
        BY <1>0, <2>2, <3>1, Sizes, DifTurn
      <4> QED
        BY <4>1, <3>1, <2>2
    <3>2. CASE x < D
      <4>1. Dif(Turn(x), deq) = x - D
        BY <1>0, <2>2, <3>2, Sizes, DifTurn
      <4> QED
        BY <4>1, <3>2, <2>2
    <3> QED
      BY <3>1, <3>2, <2>2
  <2>4. Turn(x) \in 0..(Wrap - 1) /\ Turn(x) % QueueSize = i /\ Plus(Turn(x), 1) = Turn(x + 1)
    BY <2>1, <2>2, TurnsAndSlots, TurnPlus
  <2>5. i \in Full \ Emptying <=> seq[i] = Turn(x + 1) /\ x >= D
    BY <1>1, <2>1, <2>2, SlotKinds
  <2>6. ASSUME i \in Full \ Emptying PROVE P(i)
    BY <2>3, <2>4, <2>5, <2>6
  <2>7. ASSUME NEW p \in 0..(Wrap - 1), p % QueueSize = i, seq[i] = Plus(p, 1),
               Dif(p, deq) >= 0
        PROVE  i \in Full \ Emptying
    <3>1. p \in Nat /\ Turn(p) = p /\ SlotOf(p) = i
      <4>1. p % Wrap = p
        BY Sizes, SMT
      <4> QED
        BY <4>1, <2>7, Sizes DEF Turn, SlotOf
    <3>2. seq[i] = Turn(p + 1) /\ Turn(p + 1) % QueueSize = SlotOf(p + 1)
      BY <3>1, <2>7, TurnPlus, TurnsAndSlots
    <3>3. i \in Full
      BY <3>1, <3>2, ThreeTurns DEF Full
    <3>4. seq[i] = Turn(x + 1)
      BY <1>1, <2>1, <3>3, SlotKinds
    <3>5. p = Turn(x)
      <4>1. Plus(Turn(p + 1), Wrap - 1) = Turn(p + 1 + (Wrap - 1))
            /\ Plus(Turn(x + 1), Wrap - 1) = Turn(x + 1 + (Wrap - 1))
        BY <2>2, <3>1, Sizes, TurnPlus
      <4>2. p + 1 + (Wrap - 1) = p + 1 * Wrap /\ x + 1 + (Wrap - 1) = x + 1 * Wrap
        BY <2>2, <3>1, Sizes
      <4>3. Turn(p + 1 * Wrap) = Turn(p) /\ Turn(x + 1 * Wrap) = Turn(x)
        BY <2>2, <3>1, Sizes, Rounds DEF Turn
      <4> QED
        BY <4>1, <4>2, <4>3, <3>1, <3>2, <3>4
    <3> QED
      BY <3>4, <3>5, <2>3, <2>5, <2>7
  <2> QED
    BY <2>6, <2>7
<1>3. Full \subseteq Slots
  BY DEF Full
<1>4. {i \in Slots : P(i)} = Full \ Emptying
  BY <1>2, <1>3
<1>5. InRing = {slot[i] : i \in {i \in Slots : P(i)}}
  BY DEF InRing
<1> QED
  BY <1>4, <1>5

(***************************************************************************)
(* The steps of the ring.                                                  *)
(***************************************************************************)
\* A step that is none of the ring's.
LEMMA RingStays ==
    ASSUME Ring, UNCHANGED <<enq, deq, seq>>,
           \A t \in Threads :
              /\ \A k \in {"fill", "empty"} : pc'[t] = k <=> pc[t] = k
              /\ pc[t] \in {"fill", "empty"} => pos'[t] = pos[t]
    PROVE  Ring' /\ Full' = Full /\ Emptying' = Emptying
<1>1. PICK E \in Nat, D \in Nat : RingAt(E, D)
  BY DEF Ring
<1>0. Posters \subseteq Threads /\ Takers \subseteq Threads
  BY DEF Threads
<1>2. RingAt(E, D)'
  <2>1. /\ QueueSize <= D /\ D <= E /\ E <= D + QueueSize
        /\ enq' = Turn(E) /\ deq' = Turn(D)
    BY <1>1 DEF RingAt
  <2>2. ASSUME NEW x \in (E - QueueSize)..(E - 1)
        PROVE \/ /\ x >= D /\ seq'[SlotOf(x)] = Turn(x)
                 /\ \E p \in Posters : pc'[p] = "fill" /\ pos'[p] = Turn(x)
              \/ x >= D /\ seq'[SlotOf(x)] = Turn(x + 1)
              \/ /\ x < D /\ seq'[SlotOf(x)] = Turn(x + 1)
                 /\ \E t \in Takers : pc'[t] = "empty" /\ pos'[t] = Turn(x)
              \/ x < D /\ seq'[SlotOf(x)] = Turn(x + QueueSize)
    <3>1. ASSUME NEW p \in Posters, pc[p] = "fill", pos[p] = Turn(x)
          PROVE  pc'[p] = "fill" /\ pos'[p] = Turn(x)
      BY <1>0, <3>1
    <3>2. ASSUME NEW t \in Takers, pc[t] = "empty", pos[t] = Turn(x)
          PROVE  pc'[t] = "empty" /\ pos'[t] = Turn(x)
      BY <1>0, <3>2
    <3> QED
      BY <1>1, <3>1, <3>2 DEF RingAt
  <2>3. ASSUME NEW p \in Posters, pc'[p] = "fill"
        PROVE  \E x \in D..(E - 1) : pos'[p] = Turn(x) /\ seq'[SlotOf(x)] = Turn(x)
    <3>1. pc[p] = "fill" /\ pos'[p] = pos[p]
      BY <1>0, <2>3
    <3> QED
      BY <3>1, <1>1 DEF RingAt
  <2>4. ASSUME NEW t \in Takers, pc'[t] = "empty"
        PROVE  \E x \in (E - QueueSize)..(D - 1) :
                  pos'[t] = Turn(x) /\ seq'[SlotOf(x)] = Turn(x + 1)
    <3>1. pc[t] = "empty" /\ pos'[t] = pos[t]
      BY <1>0, <2>4
    <3> QED
      BY <3>1, <1>1 DEF RingAt
  <2>5. ASSUME NEW t \in Threads, NEW u \in Threads, t # u, pc'[t] = pc'[u],
               pc'[t] \in {"fill", "empty"}
        PROVE  pos'[t] # pos'[u]
    <3>1. pc[t] = pc'[t] /\ pc[u] = pc'[u] /\ pos'[t] = pos[t] /\ pos'[u] = pos[u]
      BY <2>5
    <3> QED
      BY <3>1, <2>5, <1>1 DEF RingAt
  <2> QED
    BY <2>1, <2>2, <2>3, <2>4, <2>5 DEF RingAt
<1>3. Full' = Full
  BY DEF Full
<1>4. Emptying' = Emptying
  <2>1. \A t \in Takers : (pc'[t] = "empty" <=> pc[t] = "empty")
                          /\ (pc[t] = "empty" => pos'[t] = pos[t])
    BY <1>0
  <2>2. ASSUME NEW i PROVE i \in Emptying' <=> i \in Emptying
    BY <2>1 DEF Emptying
  <2> QED
    BY <2>2
<1> QED
  BY <1>2, <1>3, <1>4 DEF Ring

\* What one thread's step leaves of the others.
LEMMA Elsewhere ==
    ASSUME Shape, NEW t \in Threads, NEW to, pc' = [pc EXCEPT ![t] = to]
    PROVE  pc'[t] = to /\ \A u \in Threads : u # t => pc'[u] = pc[u]
BY DEF Shape

\* tpool_queue_put and tpool_try_add_work claim the slot that was given back.
LEMMA RingClaim ==
    ASSUME Shape, Ring, NEW p \in Posters, SeqAt(enq) = enq,
           pc[p] # "fill", pc' = [pc EXCEPT ![p] = "fill"],
           pos'[p] = enq, \A t \in Threads : t # p => pos'[t] = pos[t],
           enq' = Plus(enq, 1), UNCHANGED <<deq, seq>>
    PROVE  Ring' /\ Full' = Full /\ Emptying' = Emptying
<1>1. PICK E \in Nat, D \in Nat : RingAt(E, D)
  BY DEF Ring
<1>0. /\ Posters \subseteq Threads /\ Takers \subseteq Threads
      /\ \A t \in Takers : t # p
      /\ pc[p] # "empty"
  BY TPoolAssumption DEF Threads, Shape, PosterPlaces, Posting, HandedOver
<1>a. pc'[p] = "fill" /\ \A u \in Threads : u # p => pc'[u] = pc[u]
  BY <1>0, Elsewhere
<1>2. QueueSize <= D /\ D <= E /\ E <= D + QueueSize /\ enq = Turn(E) /\ deq = Turn(D)
  BY <1>1 DEF RingAt
<1>3. /\ E - QueueSize \in (E - QueueSize)..(E - 1) /\ E - QueueSize \in Nat
      /\ seq[SlotOf(E)] = Turn(E) /\ SlotOf(E - QueueSize) = SlotOf(E)
      /\ (E - QueueSize) + QueueSize = E
  <2>1. (E - QueueSize) + QueueSize = E
    BY Sizes
  <2> QED
    BY <2>1, <1>1, <1>2, Window
<1>4. /\ Turn(E - QueueSize) # Turn(E) /\ Turn(E - QueueSize + 1) # Turn(E)
  BY <1>3, ThreeTurns
<1>5. E - QueueSize < D
  BY <1>1, <1>3, <1>4 DEF RingAt
<1>6. RingAt(E + 1, D)'
  <2>1. /\ QueueSize <= D /\ D <= E + 1 /\ E + 1 <= D + QueueSize
        /\ enq' = Turn(E + 1) /\ deq' = Turn(D)
    <3>1. enq' = Turn(E + 1)
      BY <1>1, Window
    <3> QED
      BY <3>1, <1>2, <1>5, Sizes
  <2>2. ASSUME NEW x \in ((E + 1) - QueueSize)..((E + 1) - 1)
        PROVE \/ /\ x >= D /\ seq'[SlotOf(x)] = Turn(x)
                 /\ \E q \in Posters : pc'[q] = "fill" /\ pos'[q] = Turn(x)
              \/ x >= D /\ seq'[SlotOf(x)] = Turn(x + 1)
              \/ /\ x < D /\ seq'[SlotOf(x)] = Turn(x + 1)
                 /\ \E t \in Takers : pc'[t] = "empty" /\ pos'[t] = Turn(x)
              \/ x < D /\ seq'[SlotOf(x)] = Turn(x + QueueSize)
    <3>1. CASE x = E
      BY <3>1, <1>a, <1>2, <1>3
    <3>2. CASE x # E
      <4>1. x \in (E - QueueSize)..(E - 1)
        BY <3>2, Sizes
      <4>2. ASSUME NEW q \in Posters, pc[q] = "fill", pos[q] = Turn(x)
            PROVE  pc'[q] = "fill" /\ pos'[q] = Turn(x)
        BY <1>0, <1>a, <4>2
      <4>3. ASSUME NEW t \in Takers, pc[t] = "empty", pos[t] = Turn(x)
            PROVE  pc'[t] = "empty" /\ pos'[t] = Turn(x)
        BY <1>0, <1>a, <4>3
      <4> QED
        BY <1>1, <4>1, <4>2, <4>3 DEF RingAt
    <3> QED
      BY <3>1, <3>2
  <2>3. ASSUME NEW q \in Posters, pc'[q] = "fill"
        PROVE  \E x \in D..((E + 1) - 1) : pos'[q] = Turn(x) /\ seq'[SlotOf(x)] = Turn(x)
    <3>1. CASE q = p
      <4>1. E \in D..((E + 1) - 1)
        BY <1>2
      <4> QED
        BY <4>1, <3>1, <1>2, <1>3
    <3>2. CASE q # p
      <4>1. pc[q] = "fill" /\ pos'[q] = pos[q]
        BY <1>0, <1>a, <2>3, <3>2
      <4>2. PICK x \in D..(E - 1) : pos[q] = Turn(x) /\ seq[SlotOf(x)] = Turn(x)
        BY <1>1, <4>1 DEF RingAt
      <4>3. x \in D..((E + 1) - 1)
        OBVIOUS
      <4> QED
        BY <4>1, <4>2, <4>3
    <3> QED
      BY <3>1, <3>2
  <2>4. ASSUME NEW t \in Takers, pc'[t] = "empty"
        PROVE  \E x \in ((E + 1) - QueueSize)..(D - 1) :
                  pos'[t] = Turn(x) /\ seq'[SlotOf(x)] = Turn(x + 1)
    <3>1. pc[t] = "empty" /\ pos'[t] = pos[t]
      BY <1>0, <1>a, <2>4
    <3>2. PICK x \in (E - QueueSize)..(D - 1) :
             pos[t] = Turn(x) /\ seq[SlotOf(x)] = Turn(x + 1)
      BY <1>1, <3>1 DEF RingAt
    <3>3. x # E - QueueSize
      BY <3>2, <1>3, <1>4
    <3>4. x \in ((E + 1) - QueueSize)..(D - 1)
      BY <3>3, Sizes
    <3> QED
      BY <3>1, <3>2, <3>4
  <2>5. ASSUME NEW t \in Threads, NEW u \in Threads, t # u, pc'[t] = pc'[u],
               pc'[t] \in {"fill", "empty"}
        PROVE  pos'[t] # pos'[u]
    <3>1. ASSUME NEW v \in Threads, v # p, pc'[v] = "fill" PROVE pos'[v] # enq
      <4>1. v \in Posters /\ pc[v] = "fill" /\ pos'[v] = pos[v]
        BY <1>a, <3>1 DEF Threads, Takers, Shape, WorkerPlaces, ClientPlaces, DestroyerPlaces,
                          TakerPlaces, Taking, Taken
      <4>2. PICK x \in D..(E - 1) : pos[v] = Turn(x)
        BY <1>1, <4>1 DEF RingAt
      <4>3. x \in (E - QueueSize)..(E - 1)
        BY <1>2, Sizes
      <4> QED
        BY <1>1, <1>2, <4>1, <4>2, <4>3, Window
    <3>2. CASE t # p /\ u # p
      BY <3>2, <1>a, <2>5, <1>1 DEF RingAt
    <3>3. CASE t = p
      BY <3>3, <3>1, <1>a, <2>5
    <3>4. CASE u = p
      BY <3>4, <3>1, <1>a, <2>5
    <3> QED
      BY <3>2, <3>3, <3>4
  <2>6. E + 1 \in Nat
    OBVIOUS
  <2> QED
    BY <2>1, <2>2, <2>3, <2>4, <2>5, <2>6 DEF RingAt
<1>7. Full' = Full
  BY DEF Full
<1>8. Emptying' = Emptying
  <2>1. \A t \in Takers : pc'[t] = pc[t] /\ pos'[t] = pos[t]
    BY <1>0, <1>a
  <2> QED
    BY <2>1 DEF Emptying
<1> QED
  BY <1>6, <1>7, <1>8 DEF Ring

\* A thread at "fill" posts, one at "empty" takes.
LEMMA RingRoles ==
    ASSUME Shape
    PROVE  /\ Posters \subseteq Threads /\ Takers \subseteq Threads /\ Posters \cap Takers = {}
           /\ \A t \in Threads : pc[t] = "fill" => t \in Posters
           /\ \A t \in Threads : pc[t] = "empty" => t \in Takers
<1>1. Posters \subseteq Threads /\ Takers \subseteq Threads /\ Posters \cap Takers = {}
  BY TPoolAssumption DEF Threads
<1>2. \A t \in Takers : pc[t] # "fill"
  BY DEF Takers, Shape, WorkerPlaces, ClientPlaces, DestroyerPlaces, TakerPlaces, Taking, Taken
<1>3. \A t \in Posters : pc[t] # "empty"
  BY DEF Shape, PosterPlaces, Posting, HandedOver
<1> QED
  BY <1>1, <1>2, <1>3 DEF Threads

\* The job is in its slot, and the slot's turn passes on.
LEMMA RingFill ==
    ASSUME Shape, Ring, NEW p \in Posters, pc[p] = "fill",
           pc' = [pc EXCEPT ![p] = "count"],
           seq' = [seq EXCEPT ![pos[p] % QueueSize] = Plus(pos[p], 1)],
           UNCHANGED <<enq, deq, pos>>
    PROVE  /\ Ring'
           /\ pos[p] % QueueSize \in Slots \ Full
           /\ Full' = Full \cup {pos[p] % QueueSize}
           /\ Emptying' = Emptying
<1>1. PICK E \in Nat, D \in Nat : RingAt(E, D)
  BY DEF Ring
<1>0. Posters \subseteq Threads /\ Takers \subseteq Threads /\ Posters \cap Takers = {}
  BY RingRoles
<1>a. pc'[p] = "count" /\ \A u \in Threads : u # p => pc'[u] = pc[u]
  BY <1>0, Elsewhere
<1>2. QueueSize <= D /\ D <= E /\ E <= D + QueueSize /\ enq = Turn(E) /\ deq = Turn(D)
  BY <1>1 DEF RingAt
<1>3. PICK z \in D..(E - 1) : pos[p] = Turn(z) /\ seq[SlotOf(z)] = Turn(z)
  BY <1>1 DEF RingAt
<1>4. z \in (E - QueueSize)..(E - 1) /\ z \in Nat /\ z >= D
  BY <1>2, Sizes
<1>5. pos[p] % QueueSize = SlotOf(z) /\ Plus(pos[p], 1) = Turn(z + 1) /\ SlotOf(z) \in Slots
  BY <1>3, <1>4, TurnsAndSlots, TurnPlus
<1>6. /\ seq'[SlotOf(z)] = Turn(z + 1)
      /\ \A i \in Slots : i # SlotOf(z) => seq'[i] = seq[i]
  BY <1>5 DEF Shape
<1>7. \A x \in (E - QueueSize)..(E - 1) : x # z => seq'[SlotOf(x)] = seq[SlotOf(x)]
  BY <1>1, <1>4, <1>6, Window
<1>8. RingAt(E, D)'
  <2>1. enq' = Turn(E) /\ deq' = Turn(D)
    BY <1>2
  <2>2. ASSUME NEW x \in (E - QueueSize)..(E - 1)
        PROVE \/ /\ x >= D /\ seq'[SlotOf(x)] = Turn(x)
                 /\ \E q \in Posters : pc'[q] = "fill" /\ pos'[q] = Turn(x)
              \/ x >= D /\ seq'[SlotOf(x)] = Turn(x + 1)
              \/ /\ x < D /\ seq'[SlotOf(x)] = Turn(x + 1)
                 /\ \E t \in Takers : pc'[t] = "empty" /\ pos'[t] = Turn(x)
              \/ x < D /\ seq'[SlotOf(x)] = Turn(x + QueueSize)
    <3>1. CASE x = z
      BY <3>1, <1>4, <1>6
    <3>2. CASE x # z
      <4>1. seq'[SlotOf(x)] = seq[SlotOf(x)]
        BY <1>7, <3>2
      <4>2. ASSUME NEW q \in Posters, pc[q] = "fill", pos[q] = Turn(x)
            PROVE  pc'[q] = "fill" /\ pos'[q] = Turn(x)
        <5>1. q # p
          BY <1>1, <1>3, <1>4, <3>2, <4>2, Window
        <5> QED
          BY <5>1, <1>0, <1>a, <4>2
      <4>3. ASSUME NEW t \in Takers, pc[t] = "empty", pos[t] = Turn(x)
            PROVE  pc'[t] = "empty" /\ pos'[t] = Turn(x)
        BY <1>0, <1>a, <4>3
      <4> QED
        BY <1>1, <4>1, <4>2, <4>3 DEF RingAt
    <3> QED
      BY <3>1, <3>2
  <2>3. ASSUME NEW q \in Posters, pc'[q] = "fill"
        PROVE  \E x \in D..(E - 1) : pos'[q] = Turn(x) /\ seq'[SlotOf(x)] = Turn(x)
    <3>1. q # p /\ pc[q] = "fill" /\ pos'[q] = pos[q]
      BY <1>0, <1>a, <2>3
    <3>2. PICK x \in D..(E - 1) : pos[q] = Turn(x) /\ seq[SlotOf(x)] = Turn(x)
      BY <1>1, <3>1 DEF RingAt
    <3>3. pos[q] # pos[p]
      BY <1>0, <1>1, <3>1 DEF RingAt
    <3>4. x # z /\ x \in (E - QueueSize)..(E - 1)
      BY <1>2, <1>3, <3>2, <3>3, Sizes
    <3> QED
      BY <1>7, <3>1, <3>2, <3>4
  <2>4. ASSUME NEW t \in Takers, pc'[t] = "empty"
        PROVE  \E x \in (E - QueueSize)..(D - 1) :
                  pos'[t] = Turn(x) /\ seq'[SlotOf(x)] = Turn(x + 1)
    <3>1. pc[t] = "empty" /\ pos'[t] = pos[t]
      BY <1>0, <1>a, <2>4
    <3>2. PICK x \in (E - QueueSize)..(D - 1) :
             pos[t] = Turn(x) /\ seq[SlotOf(x)] = Turn(x + 1)
      BY <1>1, <3>1 DEF RingAt
    <3>3. x # z /\ x \in (E - QueueSize)..(E - 1)
      BY <1>2, <1>4, Sizes
    <3> QED
      BY <1>7, <3>1, <3>2, <3>3
  <2>5. ASSUME NEW t \in Threads, NEW u \in Threads, t # u, pc'[t] = pc'[u],
               pc'[t] \in {"fill", "empty"}
        PROVE  pos'[t] # pos'[u]
    BY <1>1, <1>a, <2>5 DEF RingAt
  <2> QED
    BY <1>2, <2>1, <2>2, <2>3, <2>4, <2>5 DEF RingAt
<1>9. SlotOf(z) \notin Full
  BY <1>1, <1>3, <1>4, SlotKinds, ThreeTurns
<1>10. Full' = Full \cup {SlotOf(z)}
  <2>1. seq'[SlotOf(z)] % QueueSize # SlotOf(z)
    <3>1. Turn(z + 1) % QueueSize = SlotOf(z + 1)
      BY <1>4, TurnsAndSlots
    <3> QED
      BY <3>1, <1>4, <1>6, ThreeTurns
  <2> QED
    BY <2>1, <1>5, <1>6 DEF Full
<1>11. Emptying' = Emptying
  <2>1. \A t \in Takers : pc'[t] = pc[t] /\ pos'[t] = pos[t]
    BY <1>0, <1>a
  <2> QED
    BY <2>1 DEF Emptying
<1> QED
  BY <1>5, <1>8, <1>9, <1>10, <1>11 DEF Ring

\* tpool_queue_take claims the head's slot.
LEMMA RingTake ==
    ASSUME Shape, Ring, NEW t \in Takers, Dif(SeqAt(deq), Plus(deq, 1)) = 0,
           pc[t] # "empty", pc' = [pc EXCEPT ![t] = "empty"],
           pos' = [pos EXCEPT ![t] = deq], deq' = Plus(deq, 1), UNCHANGED <<enq, seq>>
    PROVE  /\ Ring'
           /\ deq % QueueSize \in Full \ Emptying
           /\ Full' = Full
           /\ Emptying' = Emptying \cup {deq % QueueSize}
<1>1. PICK E \in Nat, D \in Nat : RingAt(E, D)
  BY DEF Ring
<1>0. /\ Posters \subseteq Threads /\ Takers \subseteq Threads /\ Posters \cap Takers = {}
      /\ t \in Threads /\ pc[t] # "fill"
  BY RingRoles
<1>a. pc'[t] = "empty" /\ \A u \in Threads : u # t => pc'[u] = pc[u]
  BY <1>0, Elsewhere
<1>b. pos'[t] = deq /\ \A u \in Threads : u # t => pos'[u] = pos[u]
  BY <1>0 DEF Shape
<1>2. QueueSize <= D /\ D <= E /\ E <= D + QueueSize /\ enq = Turn(E) /\ deq = Turn(D)
  BY <1>1 DEF RingAt
<1>3. /\ deq % QueueSize = SlotOf(D) /\ SeqAt(deq) = seq[SlotOf(D)]
      /\ Plus(deq, 1) = Turn(D + 1)
  BY <1>1, Window
<1>4. D < E
  <2>1. SUFFICES ASSUME D = E PROVE FALSE
    BY <1>2
  <2> DEFINE x == E - QueueSize
  <2>2. x \in (E - QueueSize)..(E - 1) /\ SlotOf(x) = SlotOf(E)
    BY <1>1, Window
  <2>3. x \in Nat /\ x + QueueSize = E /\ x < D
    BY <1>2, <2>1, Sizes
  <2>4. seq[SlotOf(E)] \in {Turn(x + 1), Turn(E)}
    <3> HIDE DEF x
    <3> QED
      BY <1>1, <2>2, <2>3 DEF RingAt
  <2>5. Dif(Turn(x + 1), Turn(E + 1)) = (x + 1) - (E + 1)
    <3> HIDE DEF x
    <3>1. x + 1 \in Nat /\ E + 1 \in Nat /\ x + 1 <= E + 1 /\ E + 1 <= x + 1 + QueueSize
      BY <2>3, Sizes
    <3> QED
      BY <3>1, DifTurn
  <2>6. Dif(Turn(E), Turn(E + 1)) = E - (E + 1)
    <3>1. E + 1 \in Nat /\ E <= E + 1 /\ E + 1 <= E + QueueSize
      BY Sizes
    <3> QED
      BY <3>1, DifTurn
  <2> HIDE DEF x
  <2> QED
    BY <1>3, <2>1, <2>3, <2>4, <2>5, <2>6, Sizes
<1>5. D \in (E - QueueSize)..(E - 1) /\ D + 1 \in Nat
  BY <1>2, <1>4, Sizes
<1>6. seq[SlotOf(D)] = Turn(D + 1)
  <2>1. Dif(Turn(D), Turn(D + 1)) = D - (D + 1)
    <3>1. D + 1 \in Nat /\ D <= D + 1 /\ D + 1 <= D + QueueSize
      BY Sizes
    <3> QED
      BY <3>1, DifTurn
  <2>2. Dif(Turn(D), Turn(D + 1)) # 0
    BY <2>1
  <2>3. seq[SlotOf(D)] # Turn(D)
    BY <1>3, <2>2
  <2>4. ~ (D < D)
    OBVIOUS
  <2> QED
    BY <1>1, <1>5, <2>3, <2>4 DEF RingAt
<1>7. RingAt(E, D + 1)'
  <2>1. /\ QueueSize <= D + 1 /\ D + 1 <= E /\ E <= D + 1 + QueueSize
        /\ enq' = Turn(E) /\ deq' = Turn(D + 1)
    BY <1>2, <1>3, <1>4, Sizes
  <2>2. ASSUME NEW x \in (E - QueueSize)..(E - 1)
        PROVE \/ /\ x >= D + 1 /\ seq'[SlotOf(x)] = Turn(x)
                 /\ \E q \in Posters : pc'[q] = "fill" /\ pos'[q] = Turn(x)
              \/ x >= D + 1 /\ seq'[SlotOf(x)] = Turn(x + 1)
              \/ /\ x < D + 1 /\ seq'[SlotOf(x)] = Turn(x + 1)
                 /\ \E u \in Takers : pc'[u] = "empty" /\ pos'[u] = Turn(x)
              \/ x < D + 1 /\ seq'[SlotOf(x)] = Turn(x + QueueSize)
    <3>1. CASE x = D
      BY <3>1, <1>a, <1>b, <1>2, <1>6
    <3>2. CASE x # D
      <4>1. (x >= D <=> x >= D + 1) /\ (x < D <=> x < D + 1)
        BY <3>2, <1>1, Window
      <4>2. ASSUME NEW q \in Posters, pc[q] = "fill", pos[q] = Turn(x)
            PROVE  pc'[q] = "fill" /\ pos'[q] = Turn(x)
        BY <1>0, <1>a, <1>b, <4>2
      <4>3. ASSUME NEW u \in Takers, pc[u] = "empty", pos[u] = Turn(x)
            PROVE  pc'[u] = "empty" /\ pos'[u] = Turn(x)
        BY <1>0, <1>a, <1>b, <4>3
      <4> QED
        BY <1>1, <4>1, <4>2, <4>3 DEF RingAt
    <3> QED
      BY <3>1, <3>2
  <2>3. ASSUME NEW q \in Posters, pc'[q] = "fill"
        PROVE  \E x \in (D + 1)..(E - 1) : pos'[q] = Turn(x) /\ seq'[SlotOf(x)] = Turn(x)
    <3>1. pc[q] = "fill" /\ pos'[q] = pos[q]
      BY <1>0, <1>a, <1>b, <2>3
    <3>2. PICK x \in D..(E - 1) : pos[q] = Turn(x) /\ seq[SlotOf(x)] = Turn(x)
      BY <1>1, <3>1 DEF RingAt
    <3>3. x # D
      BY <3>2, <1>6, ThreeTurns
    <3>4. x \in (D + 1)..(E - 1)
      BY <3>3
    <3> QED
      BY <3>1, <3>2, <3>4
  <2>4. ASSUME NEW u \in Takers, pc'[u] = "empty"
        PROVE  \E x \in (E - QueueSize)..((D + 1) - 1) :
                  pos'[u] = Turn(x) /\ seq'[SlotOf(x)] = Turn(x + 1)
    <3>1. CASE u = t
      <4>1. D \in (E - QueueSize)..((D + 1) - 1)
        BY <1>2, Sizes
      <4> QED
        BY <4>1, <3>1, <1>b, <1>2, <1>6
    <3>2. CASE u # t
      <4>1. pc[u] = "empty" /\ pos'[u] = pos[u]
        BY <1>0, <1>a, <1>b, <2>4, <3>2
      <4>2. PICK x \in (E - QueueSize)..(D - 1) :
               pos[u] = Turn(x) /\ seq[SlotOf(x)] = Turn(x + 1)
        BY <1>1, <4>1 DEF RingAt
      <4>3. x \in (E - QueueSize)..((D + 1) - 1)
        BY Sizes
      <4> QED
        BY <4>1, <4>2, <4>3
    <3> QED
      BY <3>1, <3>2
  <2>5. ASSUME NEW v \in Threads, NEW u \in Threads, v # u, pc'[v] = pc'[u],
               pc'[v] \in {"fill", "empty"}
        PROVE  pos'[v] # pos'[u]
    <3>1. ASSUME NEW w \in Threads, w # t, pc'[w] = "empty" PROVE pos'[w] # deq
      <4>1. w \in Takers /\ pc[w] = "empty" /\ pos'[w] = pos[w]
        BY <1>a, <1>b, <3>1, RingRoles
      <4>2. PICK x \in (E - QueueSize)..(D - 1) : pos[w] = Turn(x)
        BY <1>1, <4>1 DEF RingAt
      <4>3. x \in (E - QueueSize)..(E - 1) /\ x # D
        BY <1>2, Sizes
      <4> QED
        BY <1>1, <1>2, <1>5, <4>1, <4>2, <4>3, Window
    <3>2. CASE v # t /\ u # t
      BY <3>2, <1>a, <1>b, <2>5, <1>1 DEF RingAt
    <3>3. CASE v = t
      BY <3>3, <3>1, <1>a, <1>b, <2>5
    <3>4. CASE u = t
      BY <3>4, <3>1, <1>a, <1>b, <2>5
    <3> QED
      BY <3>2, <3>3, <3>4
  <2> QED
    BY <1>5, <2>1, <2>2, <2>3, <2>4, <2>5 DEF RingAt
<1>8. SlotOf(D) \in Full \ Emptying
  BY <1>1, <1>5, <1>6, SlotKinds
<1>9. Full' = Full
  BY DEF Full
<1>10. Emptying' = Emptying \cup {SlotOf(D)}
  <2>1. \A u \in Takers : u # t => pc'[u] = pc[u] /\ pos'[u] = pos[u]
    BY <1>0, <1>a, <1>b
  <2>2. pc'[t] = "empty" /\ pos'[t] % QueueSize = SlotOf(D)
    BY <1>a, <1>b, <1>3
  <2>3. ASSUME NEW i PROVE i \in Emptying' <=> i \in Emptying \/ i = SlotOf(D)
    BY <2>1, <2>2 DEF Emptying
  <2> QED
    BY <2>3
<1> QED
  BY <1>3, <1>5, <1>7, <1>8, <1>9, <1>10 DEF Ring

\* The job is out of its slot, which is given back for the next round.
LEMMA RingEmpty ==
    ASSUME Shape, Ring, NEW t \in Takers, pc[t] = "empty",
           pc' = [pc EXCEPT ![t] = "uncount"],
           seq' = [seq EXCEPT ![pos[t] % QueueSize] = Plus(pos[t], QueueSize)],
           pos' = [pos EXCEPT ![t] = 0], UNCHANGED <<enq, deq>>
    PROVE  /\ Ring'
           /\ pos[t] % QueueSize \in Full \cap Emptying
           /\ Full' = Full \ {pos[t] % QueueSize}
           /\ Emptying' = Emptying \ {pos[t] % QueueSize}
<1>1. PICK E \in Nat, D \in Nat : RingAt(E, D)
  BY DEF Ring
<1>0. /\ Posters \subseteq Threads /\ Takers \subseteq Threads /\ Posters \cap Takers = {}
      /\ t \in Threads
  BY RingRoles
<1>a. pc'[t] = "uncount" /\ \A u \in Threads : u # t => pc'[u] = pc[u]
  BY <1>0, Elsewhere
<1>b. \A u \in Threads : u # t => pos'[u] = pos[u]
  BY <1>0 DEF Shape
<1>2. QueueSize <= D /\ D <= E /\ E <= D + QueueSize /\ enq = Turn(E) /\ deq = Turn(D)
  BY <1>1 DEF RingAt
<1>3. PICK z \in (E - QueueSize)..(D - 1) : pos[t] = Turn(z) /\ seq[SlotOf(z)] = Turn(z + 1)
  BY <1>1 DEF RingAt
<1>4. z \in (E - QueueSize)..(E - 1) /\ z \in Nat /\ z < D
  BY <1>2, Sizes
<1>5. /\ pos[t] % QueueSize = SlotOf(z) /\ Plus(pos[t], QueueSize) = Turn(z + QueueSize)
      /\ SlotOf(z) \in Slots
  BY <1>3, <1>4, Sizes, TurnsAndSlots, TurnPlus
<1>6. /\ seq'[SlotOf(z)] = Turn(z + QueueSize)
      /\ \A i \in Slots : i # SlotOf(z) => seq'[i] = seq[i]
  BY <1>5 DEF Shape
<1>7. \A x \in (E - QueueSize)..(E - 1) : x # z => seq'[SlotOf(x)] = seq[SlotOf(x)]
  BY <1>1, <1>4, <1>6, Window
<1>c. ASSUME NEW u \in Takers, u # t, pc[u] = "empty" PROVE pos[u] # pos[t]
  BY <1>0, <1>1, <1>c DEF RingAt
<1>8. RingAt(E, D)'
  <2>1. enq' = Turn(E) /\ deq' = Turn(D)
    BY <1>2
  <2>2. ASSUME NEW x \in (E - QueueSize)..(E - 1)
        PROVE \/ /\ x >= D /\ seq'[SlotOf(x)] = Turn(x)
                 /\ \E q \in Posters : pc'[q] = "fill" /\ pos'[q] = Turn(x)
              \/ x >= D /\ seq'[SlotOf(x)] = Turn(x + 1)
              \/ /\ x < D /\ seq'[SlotOf(x)] = Turn(x + 1)
                 /\ \E u \in Takers : pc'[u] = "empty" /\ pos'[u] = Turn(x)
              \/ x < D /\ seq'[SlotOf(x)] = Turn(x + QueueSize)
    <3>1. CASE x = z
      BY <3>1, <1>4, <1>6
    <3>2. CASE x # z
      <4>1. seq'[SlotOf(x)] = seq[SlotOf(x)]
        BY <1>7, <3>2
      <4>2. ASSUME NEW q \in Posters, pc[q] = "fill", pos[q] = Turn(x)
            PROVE  pc'[q] = "fill" /\ pos'[q] = Turn(x)
        BY <1>0, <1>a, <1>b, <4>2
      <4>3. ASSUME NEW u \in Takers, pc[u] = "empty", pos[u] = Turn(x)
            PROVE  pc'[u] = "empty" /\ pos'[u] = Turn(x)
        <5>1. u # t
          BY <1>1, <1>3, <1>4, <3>2, <4>3, Window
        <5> QED
          BY <5>1, <1>0, <1>a, <1>b, <4>3
      <4> QED
        BY <1>1, <4>1, <4>2, <4>3 DEF RingAt
    <3> QED
      BY <3>1, <3>2
  <2>3. ASSUME NEW q \in Posters, pc'[q] = "fill"
        PROVE  \E x \in D..(E - 1) : pos'[q] = Turn(x) /\ seq'[SlotOf(x)] = Turn(x)
    <3>1. pc[q] = "fill" /\ pos'[q] = pos[q]
      BY <1>0, <1>a, <1>b, <2>3
    <3>2. PICK x \in D..(E - 1) : pos[q] = Turn(x) /\ seq[SlotOf(x)] = Turn(x)
      BY <1>1, <3>1 DEF RingAt
    <3>3. x # z /\ x \in (E - QueueSize)..(E - 1)
      BY <1>2, <1>4, Sizes
    <3> QED
      BY <1>7, <3>1, <3>2, <3>3
  <2>4. ASSUME NEW u \in Takers, pc'[u] = "empty"
        PROVE  \E x \in (E - QueueSize)..(D - 1) :
                  pos'[u] = Turn(x) /\ seq'[SlotOf(x)] = Turn(x + 1)
    <3>1. u # t /\ pc[u] = "empty" /\ pos'[u] = pos[u]
      BY <1>0, <1>a, <1>b, <2>4
    <3>2. PICK x \in (E - QueueSize)..(D - 1) :
             pos[u] = Turn(x) /\ seq[SlotOf(x)] = Turn(x + 1)
      BY <1>1, <3>1 DEF RingAt
    <3>3. x # z /\ x \in (E - QueueSize)..(E - 1)
      BY <1>2, <1>3, <1>c, <3>1, <3>2, Sizes
    <3> QED
      BY <1>7, <3>1, <3>2, <3>3
  <2>5. ASSUME NEW v \in Threads, NEW u \in Threads, v # u, pc'[v] = pc'[u],
               pc'[v] \in {"fill", "empty"}
        PROVE  pos'[v] # pos'[u]
    BY <1>1, <1>a, <1>b, <2>5 DEF RingAt
  <2> QED
    BY <1>2, <2>1, <2>2, <2>3, <2>4, <2>5 DEF RingAt
<1>9. SlotOf(z) \in Full \cap Emptying
  BY <1>1, <1>3, <1>4, SlotKinds
<1>10. Full' = Full \ {SlotOf(z)}
  <2>1. seq'[SlotOf(z)] % QueueSize = SlotOf(z)
    <3>1. z + QueueSize \in Nat
      BY <1>4, Sizes
    <3>2. Turn(z + QueueSize) % QueueSize = SlotOf(z)
      BY <3>1, <1>4, TurnsAndSlots
    <3> QED
      BY <3>2, <1>6
  <2> QED
    BY <2>1, <1>5, <1>6 DEF Full
<1>11. Emptying' = Emptying \ {SlotOf(z)}
  <2>1. \A u \in Takers : u # t => pc'[u] = pc[u] /\ pos'[u] = pos[u]
    BY <1>0, <1>a, <1>b
  <2>2. ASSUME NEW u \in Takers, u # t, pc[u] = "empty"
        PROVE  pos[u] % QueueSize # SlotOf(z)
    <3>1. PICK x \in (E - QueueSize)..(D - 1) : pos[u] = Turn(x)
      BY <1>1, <2>2 DEF RingAt
    <3>2. x # z /\ x \in (E - QueueSize)..(E - 1)
      BY <1>2, <1>3, <1>c, <2>2, <3>1, Sizes
    <3>3. SlotOf(x) # SlotOf(z) /\ x \in Nat
      BY <1>1, <1>4, <3>2, Window
    <3> QED
      BY <3>1, <3>3, TurnsAndSlots
  <2>3. ASSUME NEW i PROVE i \in Emptying' <=> i \in Emptying /\ i # SlotOf(z)
    <3>1. ASSUME i \in Emptying' PROVE i \in Emptying /\ i # SlotOf(z)
      <4>1. PICK u \in Takers : pc'[u] = "empty" /\ i = pos'[u] % QueueSize
        BY <3>1 DEF Emptying
      <4>2. u # t /\ pc[u] = "empty" /\ i = pos[u] % QueueSize
        BY <4>1, <1>a, <2>1
      <4> QED
        BY <4>2, <2>2 DEF Emptying
    <3>2. ASSUME i \in Emptying, i # SlotOf(z) PROVE i \in Emptying'
      <4>1. PICK u \in Takers : pc[u] = "empty" /\ i = pos[u] % QueueSize
        BY <3>2 DEF Emptying
      <4>2. u # t /\ pc'[u] = "empty" /\ i = pos'[u] % QueueSize
        BY <4>1, <3>2, <1>5, <2>1
      <4> QED
        BY <4>2 DEF Emptying
    <3> QED
      BY <3>1, <3>2
  <2> QED
    BY <2>3
<1> QED
  BY <1>5, <1>8, <1>9, <1>10, <1>11 DEF Ring

\* A head that is not ready while nobody fills a slot: the ring has no job left.
LEMMA RingDrained ==
    ASSUME Shape, Ring, \A p \in Posters : pc[p] # "fill",
           Dif(SeqAt(deq), Plus(deq, 1)) < 0
    PROVE  Full \ Emptying = {}
<1>1. PICK E \in Nat, D \in Nat : RingAt(E, D)
  BY DEF Ring
<1>2. QueueSize <= D /\ D <= E /\ E <= D + QueueSize
  BY <1>1 DEF RingAt
<1>3. D = E
  <2>1. SUFFICES ASSUME D < E PROVE FALSE
    BY <1>2
  <2>2. D \in (E - QueueSize)..(E - 1) /\ D + 1 \in Nat
    BY <1>2, <2>1, Sizes
  <2>3. seq[SlotOf(D)] = Turn(D + 1)
    BY <1>1, <2>2 DEF RingAt
  <2>4. Dif(Turn(D + 1), Turn(D + 1)) = (D + 1) - (D + 1)
    <3>1. D + 1 <= D + 1 /\ D + 1 <= D + 1 + QueueSize
      BY <2>2, Sizes
    <3> QED
      BY <3>1, <2>2, DifTurn
  <2>5. SeqAt(deq) = seq[SlotOf(D)] /\ Plus(deq, 1) = Turn(D + 1)
    BY <1>1, Window
  <2> QED
    BY <2>3, <2>4, <2>5
<1>4. ASSUME NEW i \in Full PROVE i \in Emptying
  <2>1. E >= QueueSize /\ i \in Slots
    BY <1>2, Sizes DEF Full
  <2>2. PICK x \in (E - QueueSize)..(E - 1) : SlotOf(x) = i
    BY <2>1, EverySlot
  <2>3. x < D
    BY <1>3
  <2> QED
    BY <1>1, <2>2, <2>3, <1>4, SlotKinds
<1> QED
  BY <1>4

\* The poster's test of the tail says that its slot was given back.
LEMMA TailFree ==
    ASSUME Shape, Ring, Dif(SeqAt(enq), enq) = 0
    PROVE  SeqAt(enq) = enq
<1>1. PICK E \in Nat, D \in Nat : RingAt(E, D)
  BY DEF Ring
<1>2. QueueSize <= D /\ D <= E /\ E <= D + QueueSize /\ enq = Turn(E)
  BY <1>1 DEF RingAt
<1> DEFINE x == E - QueueSize
<1>3. x \in (E - QueueSize)..(E - 1) /\ SlotOf(x) = SlotOf(E) /\ SeqAt(enq) = seq[SlotOf(E)]
  BY <1>1, Window
<1>4. x \in Nat /\ x + QueueSize = E /\ x + 1 \in Nat
  BY <1>2, Sizes
<1> HIDE DEF x
<1>5. seq[SlotOf(E)] \in {Turn(x), Turn(x + 1), Turn(E)}
  BY <1>1, <1>3, <1>4 DEF RingAt
<1>6. Dif(Turn(x), Turn(E)) = x - E
  <2>1. x <= E /\ E <= x + QueueSize
    BY <1>4, Sizes
  <2> QED
    BY <2>1, <1>4, DifTurn
<1>7. Dif(Turn(x + 1), Turn(E)) = (x + 1) - E
  <2>1. x + 1 <= E /\ E <= x + 1 + QueueSize
    BY <1>4, Sizes
  <2> QED
    BY <2>1, <1>4, DifTurn
<1>8. x - E # 0 /\ (x + 1) - E # 0
  BY <1>4, Sizes
<1> QED
  BY <1>2, <1>3, <1>5, <1>6, <1>7, <1>8

\* Nobody fills or empties the slot at the tail once it was given back.
LEMMA TailUntouched ==
    ASSUME Shape, Ring, SeqAt(enq) = enq
    PROVE  /\ \A p \in Posters : pc[p] = "fill" => pos[p] % QueueSize # enq % QueueSize
           /\ \A t \in Takers : pc[t] = "empty" => pos[t] % QueueSize # enq % QueueSize
<1>1. PICK E \in Nat, D \in Nat : RingAt(E, D)
  BY DEF Ring
<1>2. QueueSize <= D /\ D <= E /\ E <= D + QueueSize /\ enq = Turn(E)
  BY <1>1 DEF RingAt
<1> DEFINE z == E - QueueSize
<1>3. /\ z \in (E - QueueSize)..(E - 1) /\ SlotOf(z) = SlotOf(E) /\ seq[SlotOf(E)] = Turn(E)
      /\ enq % QueueSize = SlotOf(E)
  BY <1>1, <1>2, Window
<1>4. z \in Nat /\ z + QueueSize = E
  BY <1>2, Sizes
<1> HIDE DEF z
<1>5. Turn(E) # Turn(z) /\ Turn(E) # Turn(z + 1)
  BY <1>4, ThreeTurns
<1>6. ASSUME NEW x \in (E - QueueSize)..(E - 1), x # z PROVE Turn(x) % QueueSize # enq % QueueSize
  <2>1. x \in Nat /\ SlotOf(x) # SlotOf(z)
    BY <1>1, <1>3, <1>6, Window
  <2> QED
    BY <2>1, <1>3, TurnsAndSlots
<1>7. ASSUME NEW p \in Posters, pc[p] = "fill" PROVE pos[p] % QueueSize # enq % QueueSize
  <2>1. PICK x \in D..(E - 1) : pos[p] = Turn(x) /\ seq[SlotOf(x)] = Turn(x)
    BY <1>1, <1>7 DEF RingAt
  <2>2. x \in (E - QueueSize)..(E - 1)
    BY <1>2, Sizes
  <2>3. x # z
    BY <2>1, <1>3, <1>5
  <2> QED
    BY <2>1, <2>2, <2>3, <1>6
<1>8. ASSUME NEW t \in Takers, pc[t] = "empty" PROVE pos[t] % QueueSize # enq % QueueSize
  <2>1. PICK x \in (E - QueueSize)..(D - 1) : pos[t] = Turn(x) /\ seq[SlotOf(x)] = Turn(x + 1)
    BY <1>1, <1>8 DEF RingAt
  <2>2. x \in (E - QueueSize)..(E - 1)
    BY <1>2, Sizes
  <2>3. x # z
    BY <2>1, <1>3, <1>5
  <2> QED
    BY <2>1, <2>2, <2>3, <1>6
<1> QED
  BY <1>7, <1>8

(***************************************************************************)
(* Jobs and counts.                                                        *)
(***************************************************************************)
\* The jobs that wait, now ...
LEMMA WaitingIs ==
    Shape /\ Ring => Waiting = {slot[i] : i \in Full \ Emptying} \cup InOverflow
BY InRingIs DEF Waiting

\* ... and after a step.
LEMMA WaitingNext ==
    ASSUME Shape', Ring'
    PROVE  \A j : j \in Waiting' <=> \/ \E i \in Full' \ Emptying' : slot'[i] = j
                                     \/ j \in InOverflow'
<1>1. (Shape /\ Ring => Waiting = {slot[i] : i \in Full \ Emptying} \cup InOverflow)'
  BY WaitingIs, PTL
<1> QED
  BY <1>1

\* A job is its poster and its number.
LEMMA JobFacts ==
    /\ \A j \in Jobs : j = <<j[1], j[2]>> /\ j[1] \in Posters /\ j[2] \in 1..JobsEach[j[1]]
    /\ \A p \in Posters : \A n \in 1..JobsEach[p] : <<p, n>> \in Jobs
    /\ \A p \in Posters : JobsEach[p] \in Nat
<1>1. \A p \in Posters : JobsEach[p] \in Nat
  BY TPoolAssumption
<1>2. \A j \in Jobs : j = <<j[1], j[2]>> /\ j[1] \in Posters /\ j[2] \in 1..JobsEach[j[1]]
  BY DEF Jobs
<1>3. \A p \in Posters : \A n \in 1..JobsEach[p] : <<p, n>> \in Jobs
  BY DEF Jobs
<1> QED
  BY <1>1, <1>2, <1>3

\* One more and one less.
LEMMA OneMore ==
    ASSUME NEW S, IsFiniteSet(S), NEW x, x \notin S
    PROVE  IsFiniteSet(S \cup {x}) /\ Cardinality(S \cup {x}) = Cardinality(S) + 1
BY FS_AddElement, FS_CardinalityType

\* One member less.
LEMMA OneLess ==
    ASSUME NEW S, IsFiniteSet(S), NEW x \in S
    PROVE  IsFiniteSet(S \ {x}) /\ Cardinality(S \ {x}) = Cardinality(S) - 1
BY FS_RemoveElement, FS_CardinalityType

\* There are finitely many threads.
LEMMA ThreadsFinite ==
    /\ IsFiniteSet(Takers) /\ IsFiniteSet(Posters)
    /\ \A S \in {Takers, Posters} : \A places : IsFiniteSet(Those(S, places))
<1>1. IsFiniteSet(Workers)
  <2>1. IsFiniteSet(1..NumThreads)
    BY TPoolAssumption, FS_Interval
  <2> QED
    BY <2>1 DEF Workers
<1>2. IsFiniteSet(Workers \cup Clients)
  BY <1>1, TPoolAssumption, FS_Union
<1>3. IsFiniteSet(Takers)
  BY <1>2, FS_AddElement DEF Takers
<1>4. IsFiniteSet(Posters)
  BY TPoolAssumption
<1>5. ASSUME NEW S, IsFiniteSet(S), NEW places PROVE IsFiniteSet(Those(S, places))
  BY <1>5, FS_Subset DEF Those
<1> QED
  BY <1>3, <1>4, <1>5

\* What t's move to `to' adds to the number of the threads of S at places.
Delta(S, places, t, to) ==
    IF t \in S /\ to \in places /\ pc[t] \notin places THEN 1
    ELSE IF t \in S /\ pc[t] \in places /\ to \notin places THEN -1
    ELSE 0

\* A thread that moves changes the number of threads at some places by Delta.
LEMMA ThoseMove ==
    ASSUME Shape, NEW t \in Threads, NEW to, pc' = [pc EXCEPT ![t] = to],
           NEW S \in {Takers, Posters}, NEW places
    PROVE  /\ Cardinality(Those(S, places)') = Cardinality(Those(S, places)) + Delta(S, places, t, to)
           /\ Cardinality(Those(S, places)) \in Nat
           /\ Cardinality(Those(S, places)') \in Nat
<1> DEFINE A == Those(S, places)
           B == Those(S, places)'
<1>0. S \subseteq Threads
  BY DEF Threads
<1>1. pc'[t] = to /\ \A u \in Threads : u # t => pc'[u] = pc[u]
  BY Elsewhere
<1>2. IsFiniteSet(A)
  BY ThreadsFinite
<1>3. B = {u \in S : pc'[u] \in places} /\ A = {u \in S : pc[u] \in places}
  BY DEF Those
<1>4. \A u \in S : u # t => (u \in A <=> u \in B)
  BY <1>0, <1>1, <1>3
<1>5. (t \in A <=> t \in S /\ pc[t] \in places) /\ (t \in B <=> t \in S /\ to \in places)
  BY <1>1, <1>3
<1>6. A \subseteq S /\ B \subseteq S
  BY <1>3
<1> HIDE DEF A, B
<1>7. CASE t \in B /\ t \notin A
  <2>1. B = A \cup {t}
    BY <1>4, <1>6, <1>7
  <2> QED
    BY <1>2, <1>5, <1>7, <2>1, OneMore, FS_CardinalityType DEF Delta, A, B
<1>8. CASE t \in A /\ t \notin B
  <2>1. B = A \ {t}
    BY <1>4, <1>6, <1>8
  <2>2. Cardinality(B) = Cardinality(A) - 1 /\ IsFiniteSet(B)
    BY <1>2, <1>8, <2>1, OneLess
  <2>3. Delta(S, places, t, to) = -1
    BY <1>5, <1>8 DEF Delta
  <2>4. Cardinality(A) \in Nat /\ Cardinality(B) \in Nat
    BY <1>2, <2>2, FS_CardinalityType
  <2> QED
    BY <2>2, <2>3, <2>4 DEF A, B
<1>9. CASE t \in A <=> t \in B
  <2>1. B = A
    BY <1>4, <1>6, <1>9
  <2>2. Delta(S, places, t, to) = 0
    BY <1>5, <1>9 DEF Delta
  <2> QED
    BY <1>2, <2>1, <2>2, FS_CardinalityType DEF A, B
<1> QED
  BY <1>7, <1>8, <1>9

\* The counts after a step, from what it changes.
LEMMA CountsMove ==
    ASSUME Shape, Counts, NEW t \in Threads, NEW to, pc' = [pc EXCEPT ![t] = to],
           NEW d \in {-1, 0, 1}, IsFiniteSet(Waiting'),
           Cardinality(Waiting') = Cardinality(Waiting) + d,
           outstanding' = outstanding + d + Delta(Takers, Taking, t, to)
                            + Delta(Posters, Outstanding, t, to),
           queued' = queued + d + Delta(Takers, {"empty", "uncount"}, t, to)
                       - Delta(Posters, {"count"}, t, to)
    PROVE  Counts'
<1>0. Takers \in {Takers, Posters} /\ Posters \in {Takers, Posters}
  OBVIOUS
<1> DEFINE a == Cardinality(Those(Takers, Taking))
           b == Cardinality(Those(Posters, Outstanding))
           c == Cardinality(Those(Takers, {"empty", "uncount"}))
           e == Cardinality(Those(Posters, {"count"}))
           w == Cardinality(Waiting)
<1>1. /\ a' = a + Delta(Takers, Taking, t, to) /\ a \in Nat /\ a' \in Nat
      /\ b' = b + Delta(Posters, Outstanding, t, to) /\ b \in Nat /\ b' \in Nat
  BY <1>0, ThoseMove
<1>2. /\ c' = c + Delta(Takers, {"empty", "uncount"}, t, to) /\ c \in Nat /\ c' \in Nat
      /\ e' = e + Delta(Posters, {"count"}, t, to) /\ e \in Nat /\ e' \in Nat
  BY <1>0, ThoseMove
<1>3. w \in Nat /\ w' = w + d
  BY FS_CardinalityType DEF Counts
<1>4. outstanding = w + a + b /\ queued = w + c - e
  BY DEF Counts
<1>5. /\ Delta(Takers, Taking, t, to) \in Int /\ Delta(Posters, Outstanding, t, to) \in Int
      /\ Delta(Takers, {"empty", "uncount"}, t, to) \in Int
      /\ Delta(Posters, {"count"}, t, to) \in Int
  BY DEF Delta
<1>6. outstanding' = w' + a' + b'
  <2> HIDE DEF a, b, c, e, w
  <2> QED
    BY <1>1, <1>3, <1>4, <1>5
<1>7. queued' = w' + c' - e'
  <2> HIDE DEF a, b, c, e, w
  <2> QED
    BY <1>2, <1>3, <1>4, <1>5
<1> QED
  BY <1>6, <1>7 DEF Counts

\* The counts as numbers.
LEMMA CountsTyped ==
    ASSUME Counts
    PROVE  outstanding \in Nat /\ queued \in Int
<1>1. \A S \in {Takers, Posters} : \A places : Cardinality(Those(S, places)) \in Nat
  BY ThreadsFinite, FS_CardinalityType
<1>2. Cardinality(Waiting) \in Nat
  BY FS_CardinalityType DEF Counts
<1>3. /\ Cardinality(Those(Takers, Taking)) \in Nat /\ Cardinality(Those(Posters, Outstanding)) \in Nat
      /\ Cardinality(Those(Takers, {"empty", "uncount"})) \in Nat
      /\ Cardinality(Those(Posters, {"count"})) \in Nat
  BY <1>1
<1> QED
  BY <1>2, <1>3 DEF Counts

\* A step of t that takes nothing out of a poster's hands or into them.
LEMMA OutStays ==
    ASSUME Shape, NEW t \in Threads, NEW to, pc' = [pc EXCEPT ![t] = to], next' = next,
           t \in Posters => (pc[t] \in HandedOver <=> to \in HandedOver)
    PROVE  Out' = Out
<1>1. pc'[t] = to /\ \A u \in Threads : u # t => pc'[u] = pc[u]
  BY Elsewhere
<1>2. \A p \in Posters : pc'[p] \in HandedOver <=> pc[p] \in HandedOver
  BY <1>1 DEF Threads
<1> QED
  BY <1>2, JobFacts DEF Out

\* A poster hands its job over, or has it refused.
LEMMA OutGrows ==
    ASSUME Shape, Own, NEW p \in Posters, pc[p] \in Posting, NEW to,
           pc' = [pc EXCEPT ![p] = to],
           \/ to \in HandedOver /\ next' = next
           \/ to \notin HandedOver /\ next' = [next EXCEPT ![p] = @ + 1]
    PROVE  job[p] \in Jobs \ Out /\ Out' = Out \cup {job[p]}
<1>0. Posters \subseteq Threads
  BY DEF Threads
<1>1. pc'[p] = to /\ \A u \in Posters : u # p => pc'[u] = pc[u]
  <2>1. p \in Threads
    BY <1>0
  <2>2. pc'[p] = to /\ \A u \in Threads : u # p => pc'[u] = pc[u]
    BY <2>1, Elsewhere, Zenon
  <2> QED
    BY <1>0, <2>2
<1>2. job[p] = <<p, next[p]>> /\ next[p] \in 1..JobsEach[p] /\ next[p] \in Nat
  BY JobFacts DEF Own, Shape
<1>3. pc[p] \notin HandedOver
  BY DEF Posting, HandedOver
<1>4. job[p] \in Jobs /\ job[p][1] = p /\ job[p][2] = next[p]
  BY <1>2, JobFacts
<1>5. job[p] \notin Out
  BY <1>2, <1>3, <1>4 DEF Out
<1>6. \A u \in Posters : u # p => next'[u] = next[u]
  BY DEF Shape
<1>7. ASSUME NEW j \in Jobs PROVE j \in Out' <=> j \in Out \/ j = job[p]
  <2>1. j = <<j[1], j[2]>> /\ j[1] \in Posters /\ j[2] \in Nat
    BY JobFacts
  <2>2. CASE j[1] # p
    BY <2>1, <2>2, <1>1, <1>4, <1>6 DEF Out
  <2>3. CASE j[1] = p
    <3>1. j \in Out <=> j[2] < next[p]
      BY <2>3, <1>3 DEF Out
    <3>2. j = job[p] <=> j[2] = next[p]
      BY <2>1, <2>3, <1>2, <1>4
    <3>3. j \in Out' <=> (j[2] < next'[p] \/ (j[2] = next'[p] /\ to \in HandedOver))
      BY <2>3, <1>1 DEF Out
    <3>4. CASE to \in HandedOver /\ next' = next
      BY <3>1, <3>2, <3>3, <3>4
    <3>5. CASE to \notin HandedOver /\ next' = [next EXCEPT ![p] = @ + 1]
      <4>1. next'[p] = next[p] + 1
        BY <3>5 DEF Shape
      <4> QED
        BY <4>1, <2>1, <1>2, <3>1, <3>2, <3>3, <3>5
    <3> QED
      BY <3>4, <3>5
  <2> QED
    BY <2>2, <2>3
<1> QED
  BY <1>4, <1>5, <1>7 DEF Out

\* A poster is done with the job it handed over.
LEMMA OutPosted ==
    ASSUME Shape, NEW p \in Posters, pc[p] \in HandedOver, NEW to, to \notin HandedOver,
           pc' = [pc EXCEPT ![p] = to], next' = [next EXCEPT ![p] = @ + 1]
    PROVE  Out' = Out
<1>0. Posters \subseteq Threads
  BY DEF Threads
<1>1. pc'[p] = to /\ \A u \in Posters : u # p => pc'[u] = pc[u]
  <2>1. p \in Threads
    BY <1>0
  <2>2. pc'[p] = to /\ \A u \in Threads : u # p => pc'[u] = pc[u]
    BY <2>1, Elsewhere, Zenon
  <2> QED
    BY <1>0, <2>2
<1>2. next[p] \in Nat /\ next'[p] = next[p] + 1 /\ \A u \in Posters : u # p => next'[u] = next[u]
  BY DEF Shape
<1>3. ASSUME NEW j \in Jobs PROVE j \in Out' <=> j \in Out
  <2>1. j[1] \in Posters /\ j[2] \in Nat
    BY JobFacts
  <2>2. CASE j[1] # p
    BY <2>1, <2>2, <1>1, <1>2 DEF Out
  <2>3. CASE j[1] = p
    BY <2>1, <2>3, <1>1, <1>2 DEF Out
  <2> QED
    BY <2>2, <2>3
<1> QED
  BY <1>3 DEF Out

\* The overflow list with one more at its end ...
LEMMA OverflowGrows ==
    ASSUME Shape, Apart, NEW j \in Jobs, j \notin InOverflow, over' = Append(over, j)
    PROVE  /\ over' \in Seq(Jobs) /\ InOverflow' = InOverflow \cup {j}
           /\ \A i, k \in 1..Len(over') : over'[i] = over'[k] => i = k
<1>1. over \in Seq(Jobs) /\ Len(over) \in Nat /\ DOMAIN over = 1..Len(over)
  BY DEF Shape
<1>2. /\ over' \in Seq(Jobs) /\ Len(over') = Len(over) + 1 /\ DOMAIN over' = 1..(Len(over) + 1)
      /\ over'[Len(over) + 1] = j
      /\ \A i \in 1..Len(over) : over'[i] = over[i]
  BY <1>1, AppendProperties
<1>3. \A i \in 1..Len(over) : over[i] # j
  BY <1>1 DEF InOverflow
<1>4. InOverflow' = InOverflow \cup {j}
  <2>1. InOverflow' = {over'[i] : i \in 1..(Len(over) + 1)} /\ InOverflow = {over[i] : i \in 1..Len(over)}
    BY <1>1, <1>2 DEF InOverflow
  <2>2. \A i : i \in 1..(Len(over) + 1) <=> (i \in 1..Len(over) \/ i = Len(over) + 1)
    BY <1>1
  <2> QED
    BY <2>1, <2>2, <1>2
<1>5. ASSUME NEW i \in 1..Len(over'), NEW k \in 1..Len(over'), over'[i] = over'[k] PROVE i = k
  <2>1. (i \in 1..Len(over) \/ i = Len(over) + 1) /\ (k \in 1..Len(over) \/ k = Len(over) + 1)
    BY <1>1, <1>2
  <2> QED
    BY <2>1, <1>2, <1>3, <1>5 DEF Apart
<1> QED
  BY <1>2, <1>4, <1>5

\* ... and without its head.
LEMMA OverflowShrinks ==
    ASSUME Shape, Apart, over # <<>>, over' = Tail(over)
    PROVE  /\ over' \in Seq(Jobs) /\ Head(over) \in InOverflow \cap Jobs
           /\ InOverflow' = InOverflow \ {Head(over)}
           /\ \A i, k \in 1..Len(over') : over'[i] = over'[k] => i = k
<1>1. over \in Seq(Jobs) /\ Len(over) \in Nat \ {0} /\ DOMAIN over = 1..Len(over)
  BY EmptySeq DEF Shape
<1>2. /\ over' \in Seq(Jobs) /\ Len(over') = Len(over) - 1 /\ Head(over) = over[1]
      /\ \A i \in 1..(Len(over) - 1) : over'[i] = over[i + 1]
      /\ DOMAIN over' = 1..Len(over')
  BY <1>1, HeadTailProperties
<1>3. Head(over) \in Jobs /\ Head(over) \in InOverflow
  BY <1>1, <1>2 DEF InOverflow
<1>4. ASSUME NEW i \in 1..Len(over'), NEW k \in 1..Len(over'), over'[i] = over'[k] PROVE i = k
  <2>1. i + 1 \in 1..Len(over) /\ k + 1 \in 1..Len(over) /\ over[i + 1] = over[k + 1]
    BY <1>1, <1>2, <1>4
  <2>2. i + 1 = k + 1
    BY <2>1 DEF Apart
  <2> QED
    BY <2>2, <1>1, <1>2
<1>5. ASSUME NEW j PROVE j \in InOverflow' <=> j \in InOverflow /\ j # Head(over)
  <2>1. ASSUME NEW i \in 1..Len(over'), over'[i] = j PROVE j \in InOverflow /\ j # Head(over)
    <3>1. i + 1 \in 1..Len(over) /\ over[i + 1] = j /\ i + 1 # 1 /\ 1 \in 1..Len(over)
      BY <1>1, <1>2, <2>1
    <3>2. over[i + 1] # over[1]
      BY <3>1 DEF Apart
    <3> QED
      BY <3>1, <3>2, <1>1, <1>2 DEF InOverflow
  <2>2. ASSUME NEW i \in 1..Len(over), over[i] = j, j # Head(over) PROVE j \in InOverflow'
    <3>1. i - 1 \in 1..Len(over') /\ (i - 1) + 1 = i
      BY <1>1, <1>2, <2>2
    <3>2. over'[i - 1] = j
      BY <3>1, <1>2, <2>2
    <3> QED
      BY <3>1, <3>2, <1>2 DEF InOverflow
  <2>3. j \in InOverflow => \E i \in 1..Len(over) : over[i] = j
    BY <1>1 DEF InOverflow
  <2>4. j \in InOverflow' => \E i \in 1..Len(over') : over'[i] = j
    BY <1>2 DEF InOverflow
  <2> QED
    BY <2>1, <2>2, <2>3, <2>4
<1> QED
  BY <1>2, <1>3, <1>4, <1>5

\* The part of the invariant that is about jobs.
Accounts == Own /\ Apart /\ Fates /\ Counts

\* Where what a thread does with jobs does not depend on its place.
Alike(a, b) ==
    \/ a \in Posting /\ b \in Posting
    \/ a \in {"wake", "notify"} /\ b \in {"wake", "notify"}
    \/ a \notin Posting \cup HandedOver \cup Taking /\ b \notin Posting \cup HandedOver \cup Taking

\* Jobs as a step finds them that touches none of them.
LEMMA WaitingStays ==
    ASSUME Shape, Ring, Shape', Ring', UNCHANGED <<slot, over>>,
           Full' \ Emptying' = Full \ Emptying
    PROVE  Waiting' = Waiting
<1>1. InOverflow' = InOverflow
  BY DEF InOverflow
<1>2. \A j : j \in Waiting' <=> j \in Waiting
  BY <1>1, WaitingNext, WaitingIs
<1> QED
  BY <1>2

\* A step between places that count alike moves no job and no count.
LEMMA AccountsStay ==
    ASSUME Shape, Ring, Accounts, Shape', Ring',
           UNCHANGED <<slot, over, job, next, started, done, dropped, counts>>,
           Full' = Full, Emptying' = Emptying,
           NEW t \in Threads, NEW to, pc' = [pc EXCEPT ![t] = to], Alike(pc[t], to)
    PROVE  Accounts'
<1> USE DEF Accounts
<1>1. pc'[t] = to /\ \A u \in Threads : u # t => pc'[u] = pc[u]
  BY Elsewhere
<1>2. \A u \in Threads : pc'[u] = pc[u] \/ Alike(pc[u], pc'[u])
  BY <1>1
<1>3. Posters \subseteq Threads /\ Takers \subseteq Threads
  BY DEF Threads
<1>4. \A u \in Takers : pc[u] \notin Posting \cup HandedOver /\ pc'[u] \notin Posting \cup HandedOver
  BY DEF Shape, Takers, WorkerPlaces, ClientPlaces, DestroyerPlaces, TakerPlaces, Taking, Taken,
         Posting, HandedOver
<1>5. \A u \in Takers : pc'[u] = pc[u] \/ (pc[u] \notin Taking /\ pc'[u] \notin Taking)
  BY <1>2, <1>3, <1>4, <1>1 DEF Alike, HandedOver
<1>6. \A p \in Posters : /\ pc'[p] \in Posting <=> pc[p] \in Posting
                         /\ pc'[p] \in HandedOver <=> pc[p] \in HandedOver
                         /\ pc'[p] = "retire" <=> pc[p] = "retire"
                         /\ pc'[p] = "count" <=> pc[p] = "count"
  BY <1>1, <1>2, <1>3 DEF Alike, Posting, HandedOver, Taking, Taken
<1>7. Out' = Out
  BY <1>6, JobFacts DEF Out
<1>8. InOverflow' = InOverflow
  BY DEF InOverflow
<1>9. Own'
  BY <1>5, <1>6 DEF Own, Taking
<1>10. Apart'
  BY <1>7, <1>8 DEF Apart
<1>11. Fates'
  <2>1. \A u \in Takers : \A k \in {"uncount", "running"} : pc'[u] = k <=> pc[u] = k
    BY <1>5 DEF Taking, Taken
  <2> QED
    BY <1>7, <1>8, <2>1 DEF Fates
<1>12. Counts'
  <2>1. Waiting' = Waiting
    BY WaitingStays
  <2>2. \A S : \A places : Those(S, places)' = {u \in S : pc'[u] \in places}
    BY DEF Those
  <2>3. Those(Takers, Taking)' = Those(Takers, Taking)
    BY <1>5, <2>2 DEF Those
  <2>4. Those(Posters, Outstanding)' = Those(Posters, Outstanding)
    BY <1>6, <2>2 DEF Those, Outstanding
  <2>5. Those(Takers, {"empty", "uncount"})' = Those(Takers, {"empty", "uncount"})
    BY <1>5, <2>2 DEF Those, Taking, Taken
  <2>6. Those(Posters, {"count"})' = Those(Posters, {"count"})
    BY <1>6, <2>2 DEF Those
  <2> QED
    BY <2>1, <2>3, <2>4, <2>5, <2>6 DEF Counts, counts
<1> QED
  BY <1>9, <1>10, <1>11, <1>12

\* tpool_add_work and tpool_try_add_work count the job outstanding.
LEMMA AccountsAsked ==
    ASSUME Shape, Ring, Accounts, Shape', Ring', NEW p \in Posters, NEW to \in Posting,
           pc[p] = "idle", pc' = [pc EXCEPT ![p] = to], next[p] <= JobsEach[p],
           job' = [job EXCEPT ![p] = <<p, next[p]>>], outstanding' = outstanding + 1,
           UNCHANGED <<slot, over, next, started, done, dropped, queued>>,
           Full' = Full, Emptying' = Emptying
    PROVE  Accounts'
<1> USE DEF Accounts
<1>0. p \in Threads /\ p \notin Takers /\ Posters \subseteq Threads /\ Takers \subseteq Threads
  BY RingRoles
<1>1. pc'[p] = to /\ \A u \in Threads : u # p => pc'[u] = pc[u]
  BY <1>0, Elsewhere
<1>2. job'[p] = <<p, next[p]>> /\ \A u \in Threads : u # p => job'[u] = job[u]
  BY <1>0 DEF Shape
<1>3. \A u \in Takers : pc'[u] = pc[u] /\ job'[u] = job[u]
  BY <1>0, <1>1, <1>2
<1>4. pc[p] \notin HandedOver /\ to \notin HandedOver /\ to # "retire" /\ to # "count"
      /\ pc[p] \notin Outstanding /\ to \in Outstanding
  BY DEF HandedOver, Posting, Outstanding
<1>5. Out' = Out
  BY <1>0, <1>4, OutStays
<1>6. InOverflow' = InOverflow
  BY DEF InOverflow
<1>7. Own'
  BY <1>0, <1>1, <1>2, <1>3, <1>4 DEF Own
<1>8. Apart'
  BY <1>3, <1>5, <1>6 DEF Apart
<1>9. Fates'
  BY <1>3, <1>5, <1>6 DEF Fates
<1>10. Counts'
  <2>1. Waiting' = Waiting
    BY WaitingStays
  <2>2. /\ Delta(Takers, Taking, p, to) = 0 /\ Delta(Posters, Outstanding, p, to) = 1
        /\ Delta(Takers, {"empty", "uncount"}, p, to) = 0 /\ Delta(Posters, {"count"}, p, to) = 0
    BY <1>0, <1>4 DEF Delta
  <2>3. Cardinality(Waiting) \in Nat /\ IsFiniteSet(Waiting) /\ outstanding \in Nat /\ queued \in Int
    BY CountsTyped, FS_CardinalityType DEF Counts
  <2>4. /\ Cardinality(Waiting') = Cardinality(Waiting) + 0 /\ 0 \in {-1, 0, 1}
        /\ outstanding' = outstanding + 0 + Delta(Takers, Taking, p, to)
                            + Delta(Posters, Outstanding, p, to)
        /\ queued' = queued + 0 + Delta(Takers, {"empty", "uncount"}, p, to)
                       - Delta(Posters, {"count"}, p, to)
    BY <2>1, <2>2, <2>3
  <2>5. IsFiniteSet(Waiting')
    BY <2>1, <2>3
  <2> QED
    BY <1>0, <2>4, <2>5, CountsMove
<1> QED
  BY <1>7, <1>8, <1>9, <1>10

\* The poster fills the slot it claimed.
LEMMA AccountsFill ==
    ASSUME Shape, Ring, Accounts, Shape', Ring', NEW p \in Posters,
           pc[p] = "fill", pc' = [pc EXCEPT ![p] = "count"],
           NEW i \in Slots \ Full, slot' = [slot EXCEPT ![i] = job[p]],
           Full' = Full \cup {i}, Emptying' = Emptying,
           UNCHANGED <<over, job, next, started, done, dropped, counts>>
    PROVE  Accounts'
<1> USE DEF Accounts
<1>0. p \in Threads /\ p \notin Takers /\ Posters \subseteq Threads /\ Takers \subseteq Threads
  BY RingRoles
<1>1. pc'[p] = "count" /\ \A u \in Threads : u # p => pc'[u] = pc[u]
  BY <1>0, Elsewhere
<1>2. slot'[i] = job[p] /\ \A k \in Slots : k # i => slot'[k] = slot[k]
  BY DEF Shape
<1>3. Full \subseteq Slots /\ i \notin Emptying
  BY EmptyingFull DEF Full
<1>4. \A u \in Takers : pc'[u] = pc[u]
  BY <1>0, <1>1
<1>5. job[p] \in Jobs \ Out /\ Out' = Out \cup {job[p]}
  BY OutGrows DEF Posting, HandedOver
<1>6. InOverflow' = InOverflow
  BY DEF InOverflow
<1>7. Own'
  BY <1>0, <1>1, <1>4 DEF Own, Posting, HandedOver
<1>8. Apart'
  <2>1. \A u \in Takers : job[u] # job[p]
    BY <1>5, TPoolAssumption DEF Apart
  <2>2. job[p] \notin InOverflow /\ \A k \in Full : slot[k] # job[p]
    BY <1>5 DEF Apart
  <2>3. \A k \in Full' : /\ slot'[k] \in Out' \ InOverflow'
                         /\ \A m \in Full' : m # k => slot'[m] # slot'[k]
                         /\ \A u \in Takers : job'[u] # slot'[k]
    BY <1>2, <1>3, <1>5, <1>6, <2>1, <2>2 DEF Apart
  <2>4. InOverflow' \subseteq Out' /\ \A u \in Takers : job'[u] # None => job'[u] \in Out' \ InOverflow'
    BY <1>5, <1>6 DEF Apart
  <2> QED
    BY <2>3, <2>4 DEF Apart
<1>9. Fates'
  <2>1. job[p] \notin started \cup dropped
    BY <1>5 DEF Fates
  <2>2. \A k \in Full' : slot'[k] \notin started \cup dropped
    BY <1>2, <1>3, <2>1 DEF Fates
  <2>3. ASSUME NEW j \in Out'
        PROVE  \/ j \in started \cup dropped \cup InOverflow'
               \/ \E k \in Full' : slot'[k] = j
               \/ \E u \in Takers : pc'[u] = "uncount" /\ job'[u] = j
    <3>1. CASE j = job[p]
      BY <3>1, <1>2
    <3>2. CASE j \in Out
      <4>1. CASE \E k \in Full : slot[k] = j
        BY <4>1, <1>2, <1>3
      <4>2. CASE \E u \in Takers : pc[u] = "uncount" /\ job[u] = j
        BY <4>2, <1>4
      <4> QED
        BY <3>2, <4>1, <4>2, <1>6 DEF Fates
    <3> QED
      BY <3>1, <3>2, <1>5
  <2>4. started \cup dropped \subseteq Out'
    BY <1>5 DEF Fates
  <2> QED
    BY <1>4, <1>6, <2>2, <2>3, <2>4 DEF Fates
<1>10. Counts'
  <2>1. Waiting' = Waiting \cup {job[p]}
    <3>1. \A j : j \in Waiting' <=> j \in Waiting \/ j = job[p]
      BY <1>2, <1>3, <1>6, WaitingNext, WaitingIs
    <3> QED
      BY <3>1
  <2>2. job[p] \notin Waiting
    BY <1>5, WaitingIs DEF Apart
  <2>3. Cardinality(Waiting') = Cardinality(Waiting) + 1 /\ IsFiniteSet(Waiting')
    BY <2>1, <2>2, OneMore DEF Counts
  <2>4. /\ Delta(Takers, Taking, p, "count") = 0 /\ Delta(Posters, Outstanding, p, "count") = -1
        /\ Delta(Takers, {"empty", "uncount"}, p, "count") = 0
        /\ Delta(Posters, {"count"}, p, "count") = 1
    BY <1>0 DEF Delta, Outstanding, Posting
  <2>5. outstanding \in Nat /\ queued \in Int
    BY CountsTyped
  <2>6. /\ 1 \in {-1, 0, 1}
        /\ outstanding' = outstanding + 1 + Delta(Takers, Taking, p, "count")
                            + Delta(Posters, Outstanding, p, "count")
        /\ queued' = queued + 1 + Delta(Takers, {"empty", "uncount"}, p, "count")
                       - Delta(Posters, {"count"}, p, "count")
    BY <2>4, <2>5 DEF counts
  <2> QED
    BY <1>0, <2>3, <2>6, CountsMove
<1> QED
  BY <1>7, <1>8, <1>9, <1>10

\* The poster puts its job into the overflow.
LEMMA AccountsOverflow ==
    ASSUME Shape, Ring, Accounts, Shape', Ring', NEW p \in Posters,
           pc[p] \in {"over", "alloc"}, pc' = [pc EXCEPT ![p] = "count"],
           over' = Append(over, job[p]),
           Full' = Full, Emptying' = Emptying,
           UNCHANGED <<slot, job, next, started, done, dropped, counts>>
    PROVE  Accounts'
<1> USE DEF Accounts
<1>0. p \in Threads /\ p \notin Takers /\ Posters \subseteq Threads /\ Takers \subseteq Threads
  BY RingRoles
<1>1. pc'[p] = "count" /\ \A u \in Threads : u # p => pc'[u] = pc[u]
  BY <1>0, Elsewhere
<1>4. \A u \in Takers : pc'[u] = pc[u]
  BY <1>0, <1>1
<1>5. job[p] \in Jobs \ Out /\ Out' = Out \cup {job[p]}
  BY OutGrows DEF Posting, HandedOver
<1>2. job[p] \notin InOverflow
  BY <1>5 DEF Apart
<1>6. /\ InOverflow' = InOverflow \cup {job[p]}
      /\ \A i, k \in 1..Len(over') : over'[i] = over'[k] => i = k
  BY <1>2, <1>5, OverflowGrows
<1>7. Own'
  BY <1>0, <1>1, <1>4 DEF Own, Posting, HandedOver
<1>8. Apart'
  <2>1. \A u \in Takers : job[u] # job[p]
    BY <1>5, TPoolAssumption DEF Apart
  <2>2. \A k \in Full : slot[k] # job[p]
    BY <1>5 DEF Apart
  <2>3. \A k \in Full' : /\ slot'[k] \in Out' \ InOverflow'
                         /\ \A m \in Full' : m # k => slot'[m] # slot'[k]
                         /\ \A u \in Takers : job'[u] # slot'[k]
    BY <1>5, <1>6, <2>2 DEF Apart
  <2>4. InOverflow' \subseteq Out'
    BY <1>5, <1>6 DEF Apart
  <2>5. \A u \in Takers : job'[u] # None => /\ job'[u] \in Out' \ InOverflow'
                                           /\ \A v \in Takers : v # u => job'[v] # job'[u]
    BY <1>5, <1>6, <2>1 DEF Apart
  <2> QED
    BY <1>6, <2>3, <2>4, <2>5 DEF Apart
<1>9. Fates'
  <2>1. job[p] \notin started \cup dropped
    BY <1>5 DEF Fates
  <2>2. InOverflow' \cap (started \cup dropped) = {}
    BY <1>6, <2>1 DEF Fates
  <2>3. ASSUME NEW j \in Out'
        PROVE  \/ j \in started \cup dropped \cup InOverflow'
               \/ \E k \in Full' : slot'[k] = j
               \/ \E u \in Takers : pc'[u] = "uncount" /\ job'[u] = j
    BY <1>4, <1>5, <1>6 DEF Fates
  <2>4. started \cup dropped \subseteq Out'
    BY <1>5 DEF Fates
  <2> QED
    BY <1>4, <2>2, <2>3, <2>4 DEF Fates
<1>10. Counts'
  <2>1. Waiting' = Waiting \cup {job[p]}
    <3>1. \A j : j \in Waiting' <=> j \in Waiting \/ j = job[p]
      BY <1>6, WaitingNext, WaitingIs
    <3> QED
      BY <3>1
  <2>2. job[p] \notin Waiting
    BY <1>5, WaitingIs DEF Apart
  <2>3. Cardinality(Waiting') = Cardinality(Waiting) + 1 /\ IsFiniteSet(Waiting')
    BY <2>1, <2>2, OneMore DEF Counts
  <2>4. /\ Delta(Takers, Taking, p, "count") = 0 /\ Delta(Posters, Outstanding, p, "count") = -1
        /\ Delta(Takers, {"empty", "uncount"}, p, "count") = 0
        /\ Delta(Posters, {"count"}, p, "count") = 1
    BY <1>0 DEF Delta, Outstanding, Posting
  <2>5. outstanding \in Nat /\ queued \in Int
    BY CountsTyped
  <2>6. /\ 1 \in {-1, 0, 1}
        /\ outstanding' = outstanding + 1 + Delta(Takers, Taking, p, "count")
                            + Delta(Posters, Outstanding, p, "count")
        /\ queued' = queued + 1 + Delta(Takers, {"empty", "uncount"}, p, "count")
                       - Delta(Posters, {"count"}, p, "count")
    BY <2>4, <2>5 DEF counts
  <2> QED
    BY <1>0, <2>3, <2>6, CountsMove
<1> QED
  BY <1>7, <1>8, <1>9, <1>10

\* The caller is told false, and the job is given up.
LEMMA AccountsRefused ==
    ASSUME Shape, Ring, Accounts, Shape', Ring', NEW p \in Posters,
           pc[p] \in {"alloc", "try"}, pc' = [pc EXCEPT ![p] = "retire"],
           next' = [next EXCEPT ![p] = @ + 1], dropped' = dropped \cup {job[p]},
           Full' = Full, Emptying' = Emptying,
           UNCHANGED <<slot, over, job, started, done, counts>>
    PROVE  Accounts'
<1> USE DEF Accounts
<1>0. p \in Threads /\ p \notin Takers /\ Posters \subseteq Threads /\ Takers \subseteq Threads
  BY RingRoles
<1>1. pc'[p] = "retire" /\ \A u \in Threads : u # p => pc'[u] = pc[u]
  BY <1>0, Elsewhere
<1>2. \A u \in Posters : u # p => next'[u] = next[u]
  BY DEF Shape
<1>4. \A u \in Takers : pc'[u] = pc[u]
  BY <1>0, <1>1
<1>5. job[p] \in Jobs \ Out /\ Out' = Out \cup {job[p]} /\ job[p] # None
  BY OutGrows, TPoolAssumption DEF Posting, HandedOver
<1>6. InOverflow' = InOverflow
  BY DEF InOverflow
<1>7. Own'
  BY <1>0, <1>1, <1>2, <1>4, <1>5 DEF Own, Posting, HandedOver
<1>8. Apart'
  BY <1>5, <1>6 DEF Apart
<1>9. Fates'
  <2>1. job[p] \notin InOverflow /\ \A i \in Full : slot[i] # job[p]
    BY <1>5 DEF Apart
  <2>2. \A u \in Takers : pc[u] = "uncount" => job[u] # job[p]
    BY <1>5 DEF Apart
  <2>3. started \cup dropped' \subseteq Out'
    BY <1>5 DEF Fates
  <2>4. \A i \in Full' : slot'[i] \notin started' \cup dropped'
    BY <2>1 DEF Fates
  <2>5. InOverflow' \cap (started' \cup dropped') = {}
    BY <1>6, <2>1 DEF Fates
  <2>6. \A u \in Takers : pc'[u] = "uncount" => job'[u] \notin started' \cup dropped'
    BY <1>4, <2>2 DEF Fates
  <2>7. \A j \in Out' :
          \/ j \in started' \cup dropped' \cup InOverflow'
          \/ \E i \in Full' : slot'[i] = j
          \/ \E u \in Takers : pc'[u] = "uncount" /\ job'[u] = j
    BY <1>4, <1>5, <1>6 DEF Fates
  <2> QED
    BY <1>4, <2>3, <2>4, <2>5, <2>6, <2>7 DEF Fates
<1>10. Counts'
  <2>1. Waiting' = Waiting
    BY WaitingStays
  <2>2. /\ Delta(Takers, Taking, p, "retire") = 0 /\ Delta(Posters, Outstanding, p, "retire") = 0
        /\ Delta(Takers, {"empty", "uncount"}, p, "retire") = 0
        /\ Delta(Posters, {"count"}, p, "retire") = 0
    BY <1>0 DEF Delta, Outstanding, Posting
  <2>3. Cardinality(Waiting) \in Nat /\ IsFiniteSet(Waiting) /\ outstanding \in Nat /\ queued \in Int
    BY CountsTyped, FS_CardinalityType DEF Counts
  <2>4. /\ Cardinality(Waiting') = Cardinality(Waiting) + 0 /\ 0 \in {-1, 0, 1}
        /\ outstanding' = outstanding + 0 + Delta(Takers, Taking, p, "retire")
                            + Delta(Posters, Outstanding, p, "retire")
        /\ queued' = queued + 0 + Delta(Takers, {"empty", "uncount"}, p, "retire")
                       - Delta(Posters, {"count"}, p, "retire")
    BY <2>1, <2>2, <2>3 DEF counts
  <2>5. IsFiniteSet(Waiting')
    BY <2>1, <2>3
  <2> QED
    BY <1>0, <2>4, <2>5, CountsMove
<1> QED
  BY <1>7, <1>8, <1>9, <1>10

\* The job handed over is counted queued.
LEMMA AccountsCount ==
    ASSUME Shape, Ring, Accounts, Shape', Ring', NEW p \in Posters,
           pc[p] = "count", pc' = [pc EXCEPT ![p] = "wake"], queued' = queued + 1,
           Full' = Full, Emptying' = Emptying,
           UNCHANGED <<slot, over, job, next, started, done, dropped, outstanding>>
    PROVE  Accounts'
<1> USE DEF Accounts
<1>0. p \in Threads /\ p \notin Takers /\ Posters \subseteq Threads /\ Takers \subseteq Threads
  BY RingRoles
<1>1. pc'[p] = "wake" /\ \A u \in Threads : u # p => pc'[u] = pc[u]
  BY <1>0, Elsewhere
<1>4. \A u \in Takers : pc'[u] = pc[u]
  BY <1>0, <1>1
<1>5. Out' = Out
  BY <1>0, OutStays DEF HandedOver
<1>6. InOverflow' = InOverflow
  BY DEF InOverflow
<1>7. Own'
  BY <1>0, <1>1, <1>4 DEF Own, Posting, HandedOver
<1>8. Apart'
  BY <1>5, <1>6 DEF Apart
<1>9. Fates'
  BY <1>4, <1>5, <1>6 DEF Fates
<1>10. Counts'
  <2>1. Waiting' = Waiting
    BY WaitingStays
  <2>2. /\ Delta(Takers, Taking, p, "wake") = 0 /\ Delta(Posters, Outstanding, p, "wake") = 0
        /\ Delta(Takers, {"empty", "uncount"}, p, "wake") = 0
        /\ Delta(Posters, {"count"}, p, "wake") = -1
    BY <1>0 DEF Delta, Outstanding, Posting
  <2>3. Cardinality(Waiting) \in Nat /\ IsFiniteSet(Waiting) /\ outstanding \in Nat /\ queued \in Int
    BY CountsTyped, FS_CardinalityType DEF Counts
  <2>4. /\ Cardinality(Waiting') = Cardinality(Waiting) + 0 /\ 0 \in {-1, 0, 1}
        /\ outstanding' = outstanding + 0 + Delta(Takers, Taking, p, "wake")
                            + Delta(Posters, Outstanding, p, "wake")
        /\ queued' = queued + 0 + Delta(Takers, {"empty", "uncount"}, p, "wake")
                       - Delta(Posters, {"count"}, p, "wake")
    BY <2>1, <2>2, <2>3
  <2>5. IsFiniteSet(Waiting')
    BY <2>1, <2>3
  <2> QED
    BY <1>0, <2>4, <2>5, CountsMove
<1> QED
  BY <1>7, <1>8, <1>9, <1>10

\* tpool_add_work returns true.
LEMMA AccountsPosted ==
    ASSUME Shape, Ring, Accounts, Shape', Ring', NEW p \in Posters,
           pc[p] \in {"wake", "notify"}, pc' = [pc EXCEPT ![p] = "idle"],
           next' = [next EXCEPT ![p] = @ + 1], job' = [job EXCEPT ![p] = None],
           Full' = Full, Emptying' = Emptying,
           UNCHANGED <<slot, over, started, done, dropped, counts>>
    PROVE  Accounts'
<1> USE DEF Accounts
<1>0. p \in Threads /\ p \notin Takers /\ Posters \subseteq Threads /\ Takers \subseteq Threads
  BY RingRoles
<1>1. pc'[p] = "idle" /\ \A u \in Threads : u # p => pc'[u] = pc[u]
  BY <1>0, Elsewhere
<1>2. \A u \in Posters : u # p => next'[u] = next[u]
  BY DEF Shape
<1>3. \A u \in Threads : u # p => job'[u] = job[u]
  BY <1>0 DEF Shape
<1>4. \A u \in Takers : pc'[u] = pc[u] /\ job'[u] = job[u]
  BY <1>0, <1>1, <1>3
<1>5. Out' = Out
  BY OutPosted DEF HandedOver
<1>6. InOverflow' = InOverflow
  BY DEF InOverflow
<1>7. Own'
  BY <1>0, <1>1, <1>2, <1>3, <1>4 DEF Own, Posting, HandedOver
<1>8. Apart'
  BY <1>4, <1>5, <1>6 DEF Apart
<1>9. Fates'
  BY <1>4, <1>5, <1>6 DEF Fates
<1>10. Counts'
  <2>1. Waiting' = Waiting
    BY WaitingStays
  <2>2. /\ Delta(Takers, Taking, p, "idle") = 0 /\ Delta(Posters, Outstanding, p, "idle") = 0
        /\ Delta(Takers, {"empty", "uncount"}, p, "idle") = 0
        /\ Delta(Posters, {"count"}, p, "idle") = 0
    BY <1>0 DEF Delta, Outstanding, Posting
  <2>3. Cardinality(Waiting) \in Nat /\ IsFiniteSet(Waiting) /\ outstanding \in Nat /\ queued \in Int
    BY CountsTyped, FS_CardinalityType DEF Counts
  <2>4. /\ Cardinality(Waiting') = Cardinality(Waiting) + 0 /\ 0 \in {-1, 0, 1}
        /\ outstanding' = outstanding + 0 + Delta(Takers, Taking, p, "idle")
                            + Delta(Posters, Outstanding, p, "idle")
        /\ queued' = queued + 0 + Delta(Takers, {"empty", "uncount"}, p, "idle")
                       - Delta(Posters, {"count"}, p, "idle")
    BY <2>1, <2>2, <2>3 DEF counts
  <2>5. IsFiniteSet(Waiting')
    BY <2>1, <2>3
  <2> QED
    BY <1>0, <2>4, <2>5, CountsMove
<1> QED
  BY <1>7, <1>8, <1>9, <1>10

\* A taker claims the head of the ring: the job no longer waits.
LEMMA AccountsTake ==
    ASSUME Shape, Ring, Accounts, Shape', Ring', NEW t \in Takers,
           pc[t] = "take", pc' = [pc EXCEPT ![t] = "empty"],
           NEW i \in Full \ Emptying, Full' = Full, Emptying' = Emptying \cup {i},
           UNCHANGED <<slot, over, job, next, started, done, dropped, counts>>
    PROVE  Accounts'
<1> USE DEF Accounts
<1>0. t \in Threads /\ t \notin Posters /\ Posters \subseteq Threads /\ Takers \subseteq Threads
  BY RingRoles
<1>1. pc'[t] = "empty" /\ \A u \in Threads : u # t => pc'[u] = pc[u]
  BY <1>0, Elsewhere
<1>4. \A p \in Posters : pc'[p] = pc[p]
  BY <1>0, <1>1
<1>5. Out' = Out
  BY <1>0, OutStays
<1>6. InOverflow' = InOverflow
  BY DEF InOverflow
<1>2. \A u \in Takers : \A k \in Taken : pc'[u] = k <=> pc[u] = k
  BY <1>0, <1>1 DEF Taken
<1>7. Own'
  BY <1>2, <1>4 DEF Own
<1>8. Apart'
  BY <1>5, <1>6 DEF Apart
<1>9. Fates'
  <2>1. \A u \in Takers : \A k \in {"uncount", "running"} : pc'[u] = k <=> pc[u] = k
    BY <1>2 DEF Taken
  <2> QED
    BY <2>1, <1>5, <1>6 DEF Fates
<1>10. Counts'
  <2>1. Waiting' = Waiting \ {slot[i]}
    <3>1. \A k \in Full : k # i => slot[k] # slot[i]
      BY DEF Apart
    <3>2. slot[i] \notin InOverflow
      BY DEF Apart
    <3>3. \A j : j \in Waiting' <=> j \in Waiting /\ j # slot[i]
      BY <1>6, <3>1, <3>2, WaitingNext, WaitingIs
    <3> QED
      BY <3>3
  <2>2. slot[i] \in Waiting
    BY WaitingIs
  <2>3. /\ Cardinality(Waiting') = Cardinality(Waiting) - 1 /\ IsFiniteSet(Waiting')
        /\ Cardinality(Waiting) \in Nat /\ outstanding \in Nat /\ queued \in Int
    BY <2>1, <2>2, OneLess, CountsTyped, FS_CardinalityType DEF Counts
  <2>4. /\ Delta(Takers, Taking, t, "empty") = 1 /\ Delta(Posters, Outstanding, t, "empty") = 0
        /\ Delta(Takers, {"empty", "uncount"}, t, "empty") = 1
        /\ Delta(Posters, {"count"}, t, "empty") = 0
    BY <1>0 DEF Delta, Taking, Taken
  <2>5. /\ Cardinality(Waiting') = Cardinality(Waiting) + (-1) /\ -1 \in {-1, 0, 1}
        /\ outstanding' = outstanding + (-1) + Delta(Takers, Taking, t, "empty")
                            + Delta(Posters, Outstanding, t, "empty")
        /\ queued' = queued + (-1) + Delta(Takers, {"empty", "uncount"}, t, "empty")
                       - Delta(Posters, {"count"}, t, "empty")
    BY <2>3, <2>4 DEF counts
  <2> QED
    BY <1>0, <2>3, <2>5, CountsMove
<1> QED
  BY <1>7, <1>8, <1>9, <1>10

\* The taker has read the job it claimed.
LEMMA AccountsEmpty ==
    ASSUME Shape, Ring, Accounts, Shape', Ring', NEW t \in Takers,
           pc[t] = "empty", pc' = [pc EXCEPT ![t] = "uncount"],
           NEW i \in Full \cap Emptying, job' = [job EXCEPT ![t] = slot[i]],
           Full' = Full \ {i}, Emptying' = Emptying \ {i},
           UNCHANGED <<slot, over, next, started, done, dropped, counts>>
    PROVE  Accounts'
<1> USE DEF Accounts
<1>0. t \in Threads /\ t \notin Posters /\ Posters \subseteq Threads /\ Takers \subseteq Threads
  BY RingRoles
<1>1. pc'[t] = "uncount" /\ \A u \in Threads : u # t => pc'[u] = pc[u]
  BY <1>0, Elsewhere
<1>2. job'[t] = slot[i] /\ \A u \in Threads : u # t => job'[u] = job[u]
  BY <1>0 DEF Shape
<1>3. job[t] = None
  BY DEF Own, Taken
<1>4. \A p \in Posters : pc'[p] = pc[p] /\ job'[p] = job[p]
  BY <1>0, <1>1, <1>2
<1>a. \A u \in Takers : u # t => pc'[u] = pc[u] /\ job'[u] = job[u]
  BY <1>0, <1>1, <1>2
<1>5. Out' = Out
  BY <1>0, OutStays
<1>6. InOverflow' = InOverflow
  BY DEF InOverflow
<1>b. /\ slot[i] \in Out \ InOverflow /\ slot[i] # None
      /\ \A k \in Full : k # i => slot[k] # slot[i]
      /\ \A u \in Takers : job[u] # slot[i]
  BY TPoolAssumption DEF Apart, Out
<1>7. Own'
  BY <1>1, <1>2, <1>4, <1>a, <1>b DEF Own, Taken
<1>8. Apart'
  <2>1. \A k \in Full' : /\ slot'[k] \in Out' \ InOverflow'
                         /\ \A m \in Full' : m # k => slot'[m] # slot'[k]
                         /\ \A u \in Takers : job'[u] # slot'[k]
    BY <1>2, <1>5, <1>6, <1>a, <1>b DEF Apart
  <2>2. \A u \in Takers : job'[u] # None =>
                             /\ job'[u] \in Out' \ InOverflow'
                             /\ \A v \in Takers : v # u => job'[v] # job'[u]
    BY <1>2, <1>5, <1>6, <1>a, <1>b DEF Apart
  <2> QED
    BY <2>1, <2>2, <1>5, <1>6 DEF Apart
<1>9. Fates'
  <2>1. \A u \in Takers : /\ pc'[u] = "uncount" => job'[u] \notin started' \cup dropped'
                          /\ pc'[u] = "running" => job'[u] \in started' \ done'
    BY <1>1, <1>2, <1>a DEF Fates
  <2>2. \A j \in started' \ done' : \E u \in Takers : pc'[u] = "running" /\ job'[u] = j
    <3>1. \A j \in started \ done : \E u \in Takers : pc[u] = "running" /\ job[u] = j
      BY DEF Fates
    <3> QED
      BY <3>1, <1>a
  <2>3. ASSUME NEW j \in Out
        PROVE  \/ j \in started \cup dropped \cup InOverflow
               \/ \E k \in Full' : slot'[k] = j
               \/ \E u \in Takers : pc'[u] = "uncount" /\ job'[u] = j
    <3>1. CASE \E k \in Full : slot[k] = j
      BY <3>1, <1>1, <1>2
    <3>2. CASE \E u \in Takers : pc[u] = "uncount" /\ job[u] = j
      BY <3>2, <1>a
    <3> QED
      BY <3>1, <3>2 DEF Fates
  <2> QED
    BY <2>1, <2>2, <2>3, <1>5, <1>6 DEF Fates
<1>10. Counts'
  <2>1. Full' \ Emptying' = Full \ Emptying
    OBVIOUS
  <2>2. Waiting' = Waiting
    BY <2>1, WaitingStays
  <2>3. /\ Delta(Takers, Taking, t, "uncount") = 0 /\ Delta(Posters, Outstanding, t, "uncount") = 0
        /\ Delta(Takers, {"empty", "uncount"}, t, "uncount") = 0
        /\ Delta(Posters, {"count"}, t, "uncount") = 0
    BY <1>0 DEF Delta, Taking, Taken
  <2>4. Cardinality(Waiting) \in Nat /\ IsFiniteSet(Waiting) /\ outstanding \in Nat /\ queued \in Int
    BY CountsTyped, FS_CardinalityType DEF Counts
  <2>5. /\ Cardinality(Waiting') = Cardinality(Waiting) + 0 /\ 0 \in {-1, 0, 1}
        /\ outstanding' = outstanding + 0 + Delta(Takers, Taking, t, "uncount")
                            + Delta(Posters, Outstanding, t, "uncount")
        /\ queued' = queued + 0 + Delta(Takers, {"empty", "uncount"}, t, "uncount")
                       - Delta(Posters, {"count"}, t, "uncount")
    BY <2>2, <2>3, <2>4 DEF counts
  <2>6. IsFiniteSet(Waiting')
    BY <2>2, <2>4
  <2> QED
    BY <1>0, <2>5, <2>6, CountsMove
<1> QED
  BY <1>7, <1>8, <1>9, <1>10

\* The taker has taken the head of the overflow.
LEMMA AccountsTakeOver ==
    ASSUME Shape, Ring, Accounts, Shape', Ring', NEW t \in Takers,
           pc[t] = "takeover", pc' = [pc EXCEPT ![t] = "uncount"],
           over # <<>>, over' = Tail(over), job' = [job EXCEPT ![t] = Head(over)],
           Full' = Full, Emptying' = Emptying,
           UNCHANGED <<slot, next, started, done, dropped, counts>>
    PROVE  Accounts'
<1> USE DEF Accounts
<1> DEFINE h == Head(over)
<1>0. t \in Threads /\ t \notin Posters /\ Posters \subseteq Threads /\ Takers \subseteq Threads
  BY RingRoles
<1>1. pc'[t] = "uncount" /\ \A u \in Threads : u # t => pc'[u] = pc[u]
  BY <1>0, Elsewhere
<1>2. job'[t] = h /\ \A u \in Threads : u # t => job'[u] = job[u]
  BY <1>0 DEF Shape
<1>4. \A p \in Posters : pc'[p] = pc[p] /\ job'[p] = job[p]
  BY <1>0, <1>1, <1>2
<1>a. \A u \in Takers : u # t => pc'[u] = pc[u] /\ job'[u] = job[u]
  BY <1>0, <1>1, <1>2
<1>5. Out' = Out
  BY <1>0, OutStays
<1>6. /\ h \in InOverflow \cap Jobs /\ InOverflow' = InOverflow \ {h}
      /\ \A i, k \in 1..Len(over') : over'[i] = over'[k] => i = k
  BY OverflowShrinks
<1> HIDE DEF h
<1>b. /\ h \in Out /\ h # None
      /\ \A k \in Full : slot[k] # h
      /\ \A u \in Takers : job[u] # h
  BY <1>6, TPoolAssumption DEF Apart
<1>7. Own'
  BY <1>1, <1>2, <1>4, <1>a, <1>b DEF Own, Taken
<1>8. Apart'
  <2>1. \A k \in Full' : /\ slot'[k] \in Out' \ InOverflow'
                         /\ \A m \in Full' : m # k => slot'[m] # slot'[k]
                         /\ \A u \in Takers : job'[u] # slot'[k]
    BY <1>2, <1>5, <1>6, <1>a, <1>b DEF Apart
  <2>2. \A u \in Takers : job'[u] # None =>
                             /\ job'[u] \in Out' \ InOverflow'
                             /\ \A v \in Takers : v # u => job'[v] # job'[u]
    BY <1>2, <1>5, <1>6, <1>a, <1>b DEF Apart
  <2>3. InOverflow' \subseteq Out'
    BY <1>5, <1>6 DEF Apart
  <2> QED
    BY <2>1, <2>2, <2>3, <1>6 DEF Apart
<1>9. Fates'
  <2>0. h \notin started \cup dropped
    BY <1>6 DEF Fates
  <2>1. \A u \in Takers : /\ pc'[u] = "uncount" => job'[u] \notin started' \cup dropped'
                          /\ pc'[u] = "running" => job'[u] \in started' \ done'
    BY <2>0, <1>1, <1>2, <1>a DEF Fates
  <2>2. \A j \in started' \ done' : \E u \in Takers : pc'[u] = "running" /\ job'[u] = j
    <3>1. \A j \in started \ done : \E u \in Takers : pc[u] = "running" /\ job[u] = j
      BY DEF Fates
    <3> QED
      BY <3>1, <1>a
  <2>3. ASSUME NEW j \in Out
        PROVE  \/ j \in started \cup dropped \cup InOverflow'
               \/ \E k \in Full : slot[k] = j
               \/ \E u \in Takers : pc'[u] = "uncount" /\ job'[u] = j
    <3>1. CASE j = h
      BY <3>1, <1>1, <1>2
    <3>2. CASE \E u \in Takers : pc[u] = "uncount" /\ job[u] = j
      BY <3>2, <1>a
    <3> QED
      BY <3>1, <3>2, <1>6 DEF Fates
  <2>4. InOverflow' \cap (started \cup dropped) = {}
    BY <1>6 DEF Fates
  <2> QED
    BY <2>1, <2>2, <2>3, <2>4, <1>5 DEF Fates
<1>10. Counts'
  <2>1. Waiting' = Waiting \ {h}
    <3>1. \A j : j \in Waiting' <=> j \in Waiting /\ j # h
      BY <1>6, <1>b, WaitingNext, WaitingIs
    <3> QED
      BY <3>1
  <2>2. h \in Waiting
    BY <1>6, WaitingIs
  <2>3. /\ Cardinality(Waiting') = Cardinality(Waiting) - 1 /\ IsFiniteSet(Waiting')
        /\ Cardinality(Waiting) \in Nat /\ outstanding \in Nat /\ queued \in Int
    BY <2>1, <2>2, OneLess, CountsTyped, FS_CardinalityType DEF Counts
  <2>4. /\ Delta(Takers, Taking, t, "uncount") = 1 /\ Delta(Posters, Outstanding, t, "uncount") = 0
        /\ Delta(Takers, {"empty", "uncount"}, t, "uncount") = 1
        /\ Delta(Posters, {"count"}, t, "uncount") = 0
    BY <1>0 DEF Delta, Taking, Taken
  <2>5. /\ Cardinality(Waiting') = Cardinality(Waiting) + (-1) /\ -1 \in {-1, 0, 1}
        /\ outstanding' = outstanding + (-1) + Delta(Takers, Taking, t, "uncount")
                            + Delta(Posters, Outstanding, t, "uncount")
        /\ queued' = queued + (-1) + Delta(Takers, {"empty", "uncount"}, t, "uncount")
                       - Delta(Posters, {"count"}, t, "uncount")
    BY <2>3, <2>4 DEF counts
  <2> QED
    BY <1>0, <2>3, <2>5, CountsMove
<1> QED
  BY <1>7, <1>8, <1>9, <1>10

\* The job is no longer queued, and its function is called.
LEMMA AccountsUncount ==
    ASSUME Shape, Ring, Accounts, Shape', Ring', NEW t \in Takers,
           pc[t] = "uncount", pc' = [pc EXCEPT ![t] = "running"],
           queued' = queued - 1, started' = started \cup {job[t]},
           Full' = Full, Emptying' = Emptying,
           UNCHANGED <<slot, over, job, next, done, dropped, outstanding>>
    PROVE  Accounts'
<1> USE DEF Accounts
<1>0. t \in Threads /\ t \notin Posters /\ Posters \subseteq Threads /\ Takers \subseteq Threads
  BY RingRoles
<1>1. pc'[t] = "running" /\ \A u \in Threads : u # t => pc'[u] = pc[u]
  BY <1>0, Elsewhere
<1>4. \A p \in Posters : pc'[p] = pc[p]
  BY <1>0, <1>1
<1>a. \A u \in Takers : u # t => pc'[u] = pc[u]
  BY <1>0, <1>1
<1>5. Out' = Out
  BY <1>0, OutStays
<1>6. InOverflow' = InOverflow
  BY DEF InOverflow
<1>b. /\ job[t] # None /\ job[t] \in Out \ InOverflow
      /\ \A u \in Takers : u # t => job[u] # job[t]
      /\ \A i \in Full : slot[i] # job[t]
      /\ job[t] \notin started \cup dropped
  BY DEF Own, Taken, Apart, Fates
<1>7. Own'
  BY <1>1, <1>4, <1>a, <1>b DEF Own, Taken
<1>8. Apart'
  BY <1>5, <1>6 DEF Apart
<1>9. Fates'
  <2>1. \A u \in Takers : /\ pc'[u] = "uncount" => job'[u] \notin started' \cup dropped'
                          /\ pc'[u] = "running" => job'[u] \in started' \ done'
    BY <1>1, <1>a, <1>b DEF Fates
  <2>2. \A j \in started' \ done' : \E u \in Takers : pc'[u] = "running" /\ job'[u] = j
    <3>1. \A j \in started \ done : \E u \in Takers : pc[u] = "running" /\ job[u] = j
      BY DEF Fates
    <3> QED
      BY <3>1, <1>1, <1>a
  <2>3. \A j \in Out :
          \/ j \in started' \cup dropped \cup InOverflow
          \/ \E k \in Full : slot[k] = j
          \/ \E u \in Takers : pc'[u] = "uncount" /\ job'[u] = j
    BY <1>a DEF Fates
  <2>4. InOverflow' \cap (started' \cup dropped') = {} /\ \A i \in Full' : slot'[i] \notin started' \cup dropped'
    BY <1>6, <1>b DEF Fates
  <2>5. done' \subseteq started' /\ started' \cup dropped' \subseteq Out'
    BY <1>5, <1>b DEF Fates
  <2> QED
    BY <2>1, <2>2, <2>3, <2>4, <2>5, <1>5, <1>6 DEF Fates
<1>10. Counts'
  <2>2. Waiting' = Waiting
    BY WaitingStays
  <2>3. /\ Delta(Takers, Taking, t, "running") = 0 /\ Delta(Posters, Outstanding, t, "running") = 0
        /\ Delta(Takers, {"empty", "uncount"}, t, "running") = -1
        /\ Delta(Posters, {"count"}, t, "running") = 0
    BY <1>0 DEF Delta, Taking, Taken
  <2>4. Cardinality(Waiting) \in Nat /\ IsFiniteSet(Waiting) /\ outstanding \in Nat /\ queued \in Int
    BY CountsTyped, FS_CardinalityType DEF Counts
  <2>5. /\ Cardinality(Waiting') = Cardinality(Waiting) + 0 /\ 0 \in {-1, 0, 1}
        /\ outstanding' = outstanding + 0 + Delta(Takers, Taking, t, "running")
                            + Delta(Posters, Outstanding, t, "running")
        /\ queued' = queued + 0 + Delta(Takers, {"empty", "uncount"}, t, "running")
                       - Delta(Posters, {"count"}, t, "running")
    BY <2>2, <2>3, <2>4
  <2>6. IsFiniteSet(Waiting')
    BY <2>2, <2>4
  <2> QED
    BY <1>0, <2>5, <2>6, CountsMove
<1> QED
  BY <1>7, <1>8, <1>9, <1>10

\* The job's function has returned.
LEMMA AccountsFinish ==
    ASSUME Shape, Ring, Accounts, Shape', Ring', NEW t \in Takers,
           pc[t] = "running", pc' = [pc EXCEPT ![t] = "retire"],
           done' = done \cup {job[t]},
           Full' = Full, Emptying' = Emptying,
           UNCHANGED <<slot, over, job, next, started, dropped, counts>>
    PROVE  Accounts'
<1> USE DEF Accounts
<1>0. t \in Threads /\ t \notin Posters /\ Posters \subseteq Threads /\ Takers \subseteq Threads
  BY RingRoles
<1>1. pc'[t] = "retire" /\ \A u \in Threads : u # t => pc'[u] = pc[u]
  BY <1>0, Elsewhere
<1>4. \A p \in Posters : pc'[p] = pc[p]
  BY <1>0, <1>1
<1>a. \A u \in Takers : u # t => pc'[u] = pc[u]
  BY <1>0, <1>1
<1>5. Out' = Out
  BY <1>0, OutStays
<1>6. InOverflow' = InOverflow
  BY DEF InOverflow
<1>b. /\ job[t] # None /\ job[t] \in started
      /\ \A u \in Takers : u # t => job[u] # job[t]
  BY DEF Own, Taken, Apart, Fates
<1>7. Own'
  BY <1>1, <1>4, <1>a, <1>b DEF Own, Taken
<1>8. Apart'
  BY <1>5, <1>6 DEF Apart
<1>9. Fates'
  <2>1. \A u \in Takers : /\ pc'[u] = "uncount" => job'[u] \notin started' \cup dropped'
                          /\ pc'[u] = "running" => job'[u] \in started' \ done'
    BY <1>1, <1>a, <1>b DEF Fates
  <2>2. \A j \in started' \ done' : \E u \in Takers : pc'[u] = "running" /\ job'[u] = j
    <3>1. \A j \in started \ done : \E u \in Takers : pc[u] = "running" /\ job[u] = j
      BY DEF Fates
    <3> QED
      BY <3>1, <1>1, <1>a
  <2>3. \A j \in Out :
          \/ j \in started \cup dropped \cup InOverflow
          \/ \E k \in Full : slot[k] = j
          \/ \E u \in Takers : pc'[u] = "uncount" /\ job'[u] = j
    BY <1>a DEF Fates
  <2>4. done' \subseteq started'
    BY <1>b DEF Fates
  <2> QED
    BY <2>1, <2>2, <2>3, <2>4, <1>5, <1>6 DEF Fates
<1>10. Counts'
  <2>2. Waiting' = Waiting
    BY WaitingStays
  <2>3. /\ Delta(Takers, Taking, t, "retire") = 0 /\ Delta(Posters, Outstanding, t, "retire") = 0
        /\ Delta(Takers, {"empty", "uncount"}, t, "retire") = 0
        /\ Delta(Posters, {"count"}, t, "retire") = 0
    BY <1>0 DEF Delta, Taking, Taken
  <2>4. Cardinality(Waiting) \in Nat /\ IsFiniteSet(Waiting) /\ outstanding \in Nat /\ queued \in Int
    BY CountsTyped, FS_CardinalityType DEF Counts
  <2>5. /\ Cardinality(Waiting') = Cardinality(Waiting) + 0 /\ 0 \in {-1, 0, 1}
        /\ outstanding' = outstanding + 0 + Delta(Takers, Taking, t, "retire")
                            + Delta(Posters, Outstanding, t, "retire")
        /\ queued' = queued + 0 + Delta(Takers, {"empty", "uncount"}, t, "retire")
                       - Delta(Posters, {"count"}, t, "retire")
    BY <2>2, <2>3, <2>4 DEF counts
  <2>6. IsFiniteSet(Waiting')
    BY <2>2, <2>4
  <2> QED
    BY <1>0, <2>5, <2>6, CountsMove
<1> QED
  BY <1>7, <1>8, <1>9, <1>10

\* tpool_retire, by the thread that ran a job or by one that had it refused.
LEMMA AccountsRetire ==
    ASSUME Shape, Ring, Accounts, Shape', Ring', NEW t \in Threads,
           pc[t] = "retire", NEW to \in {"notifyidle", "take", "idle"},
           pc' = [pc EXCEPT ![t] = to],
           outstanding' = outstanding - 1, job' = [job EXCEPT ![t] = None],
           Full' = Full, Emptying' = Emptying,
           UNCHANGED <<slot, over, next, started, done, dropped, queued>>
    PROVE  Accounts'
<1> USE DEF Accounts
<1>0. Posters \subseteq Threads /\ Takers \subseteq Threads /\ Posters \cap Takers = {}
  BY RingRoles
<1>1. pc'[t] = to /\ \A u \in Threads : u # t => pc'[u] = pc[u]
  BY <1>0, Elsewhere
<1>2. job'[t] = None /\ \A u \in Threads : u # t => job'[u] = job[u]
  BY DEF Shape
<1>3. to \notin Posting \cup HandedOver \cup Taking /\ to # "retire"
  BY DEF Posting, HandedOver, Taking, Taken
<1>5. Out' = Out
  BY <1>3, OutStays DEF HandedOver
<1>6. InOverflow' = InOverflow
  BY DEF InOverflow
<1>7. Own'
  <2>1. \A p \in Posters :
          /\ pc'[p] \in Posting \cup HandedOver => job'[p] = <<p, next'[p]>> /\ next'[p] <= JobsEach[p]
          /\ pc'[p] = "retire" => job'[p] # None
    BY <1>0, <1>1, <1>2, <1>3 DEF Own
  <2>2. \A u \in Takers : job'[u] # None <=> pc'[u] \in Taken
    BY <1>0, <1>1, <1>2, <1>3 DEF Own, Taking
  <2> QED
    BY <2>1, <2>2 DEF Own
<1>8. Apart'
  <2>0. None \notin Out
    BY TPoolAssumption DEF Out
  <2>1. \A k \in Full' : /\ slot'[k] \in Out' \ InOverflow'
                         /\ \A m \in Full' : m # k => slot'[m] # slot'[k]
                         /\ \A u \in Takers : job'[u] # slot'[k]
    BY <2>0, <1>0, <1>2, <1>5, <1>6 DEF Apart
  <2>2. \A u \in Takers : job'[u] # None =>
                             /\ job'[u] \in Out' \ InOverflow'
                             /\ \A v \in Takers : v # u => job'[v] # job'[u]
    BY <1>0, <1>2, <1>5, <1>6 DEF Apart
  <2> QED
    BY <2>1, <2>2, <1>5, <1>6 DEF Apart
<1>9. Fates'
  <2>0. \A u \in Takers : \A k \in {"uncount", "running"} :
           /\ pc'[u] = k <=> pc[u] = k
           /\ pc[u] = k => job'[u] = job[u]
    BY <1>0, <1>1, <1>2
  <2>1. \A u \in Takers : /\ pc'[u] = "uncount" => job'[u] \notin started' \cup dropped'
                          /\ pc'[u] = "running" => job'[u] \in started' \ done'
    BY <2>0 DEF Fates
  <2>2. \A j \in started' \ done' : \E u \in Takers : pc'[u] = "running" /\ job'[u] = j
    <3>1. \A j \in started \ done : \E u \in Takers : pc[u] = "running" /\ job[u] = j
      BY DEF Fates
    <3> QED
      BY <3>1, <2>0
  <2>3. \A j \in Out :
          \/ j \in started \cup dropped \cup InOverflow
          \/ \E k \in Full : slot[k] = j
          \/ \E u \in Takers : pc'[u] = "uncount" /\ job'[u] = j
    BY <2>0 DEF Fates
  <2> QED
    BY <2>1, <2>2, <2>3, <1>5, <1>6 DEF Fates
<1>10. Counts'
  <2>2. Waiting' = Waiting
    BY WaitingStays
  <2>3. /\ Delta(Takers, Taking, t, to) + Delta(Posters, Outstanding, t, to) = -1
        /\ Delta(Takers, Taking, t, to) \in Int /\ Delta(Posters, Outstanding, t, to) \in Int
        /\ Delta(Takers, {"empty", "uncount"}, t, to) = 0
        /\ Delta(Posters, {"count"}, t, to) = 0
    BY <1>0 DEF Delta, Taking, Taken, Outstanding, Posting, Threads
  <2>4. Cardinality(Waiting) \in Nat /\ IsFiniteSet(Waiting) /\ outstanding \in Nat /\ queued \in Int
    BY CountsTyped, FS_CardinalityType DEF Counts
  <2>5. /\ Cardinality(Waiting') = Cardinality(Waiting) + 0 /\ 0 \in {-1, 0, 1}
        /\ outstanding' = outstanding + 0 + Delta(Takers, Taking, t, to)
                            + Delta(Posters, Outstanding, t, to)
        /\ queued' = queued + 0 + Delta(Takers, {"empty", "uncount"}, t, to)
                       - Delta(Posters, {"count"}, t, to)
    BY <2>2, <2>3, <2>4
  <2>6. IsFiniteSet(Waiting')
    BY <2>2, <2>4
  <2> QED
    BY <1>0, <2>5, <2>6, CountsMove
<1> QED
  BY <1>7, <1>8, <1>9, <1>10

\* tpool_destroy discards a job.
LEMMA AccountsDrop ==
    ASSUME Shape, Ring, Accounts, Shape', Ring', NEW t \in Takers,
           pc[t] = "uncount", pc' = [pc EXCEPT ![t] = "take"],
           queued' = queued - 1, outstanding' = outstanding - 1,
           dropped' = dropped \cup {job[t]}, job' = [job EXCEPT ![t] = None],
           Full' = Full, Emptying' = Emptying,
           UNCHANGED <<slot, over, next, started, done>>
    PROVE  Accounts'
<1> USE DEF Accounts
<1>0. t \in Threads /\ t \notin Posters /\ Posters \subseteq Threads /\ Takers \subseteq Threads
  BY RingRoles
<1>1. pc'[t] = "take" /\ \A u \in Threads : u # t => pc'[u] = pc[u]
  BY <1>0, Elsewhere
<1>2. job'[t] = None /\ \A u \in Threads : u # t => job'[u] = job[u]
  BY <1>0 DEF Shape
<1>4. \A p \in Posters : pc'[p] = pc[p] /\ job'[p] = job[p]
  BY <1>0, <1>1, <1>2
<1>a. \A u \in Takers : u # t => pc'[u] = pc[u] /\ job'[u] = job[u]
  BY <1>0, <1>1, <1>2
<1>5. Out' = Out
  BY <1>0, OutStays
<1>6. InOverflow' = InOverflow
  BY DEF InOverflow
<1>b. /\ job[t] # None /\ job[t] \in Out \ InOverflow /\ None \notin Out
      /\ \A u \in Takers : u # t => job[u] # job[t]
      /\ \A i \in Full : slot[i] # job[t]
      /\ job[t] \notin started \cup dropped
  BY TPoolAssumption DEF Own, Taken, Apart, Fates, Out
<1>7. Own'
  BY <1>1, <1>2, <1>4, <1>a DEF Own, Taken
<1>8. Apart'
  <2>1. \A k \in Full' : /\ slot'[k] \in Out' \ InOverflow'
                         /\ \A m \in Full' : m # k => slot'[m] # slot'[k]
                         /\ \A u \in Takers : job'[u] # slot'[k]
    BY <1>2, <1>5, <1>6, <1>a, <1>b DEF Apart
  <2>2. \A u \in Takers : job'[u] # None =>
                             /\ job'[u] \in Out' \ InOverflow'
                             /\ \A v \in Takers : v # u => job'[v] # job'[u]
    BY <1>2, <1>5, <1>6, <1>a DEF Apart
  <2> QED
    BY <2>1, <2>2, <1>5, <1>6 DEF Apart
<1>9. Fates'
  <2>1. \A u \in Takers : /\ pc'[u] = "uncount" => job'[u] \notin started' \cup dropped'
                          /\ pc'[u] = "running" => job'[u] \in started' \ done'
    BY <1>1, <1>a, <1>b DEF Fates
  <2>2. \A j \in started' \ done' : \E u \in Takers : pc'[u] = "running" /\ job'[u] = j
    <3>1. \A j \in started \ done : \E u \in Takers : pc[u] = "running" /\ job[u] = j
      BY DEF Fates
    <3> QED
      BY <3>1, <1>a
  <2>3. \A j \in Out :
          \/ j \in started \cup dropped' \cup InOverflow
          \/ \E k \in Full : slot[k] = j
          \/ \E u \in Takers : pc'[u] = "uncount" /\ job'[u] = j
    BY <1>a DEF Fates
  <2>4. /\ InOverflow' \cap (started' \cup dropped') = {}
        /\ \A i \in Full' : slot'[i] \notin started' \cup dropped'
    BY <1>6, <1>b DEF Fates
  <2>5. done' \subseteq started' /\ started' \cup dropped' \subseteq Out'
    BY <1>5, <1>b DEF Fates
  <2> QED
    BY <2>1, <2>2, <2>3, <2>4, <2>5, <1>5, <1>6 DEF Fates
<1>10. Counts'
  <2>2. Waiting' = Waiting
    BY WaitingStays
  <2>3. /\ Delta(Takers, Taking, t, "take") = -1 /\ Delta(Posters, Outstanding, t, "take") = 0
        /\ Delta(Takers, {"empty", "uncount"}, t, "take") = -1
        /\ Delta(Posters, {"count"}, t, "take") = 0
    BY <1>0 DEF Delta, Taking, Taken
  <2>4. Cardinality(Waiting) \in Nat /\ IsFiniteSet(Waiting) /\ outstanding \in Nat /\ queued \in Int
    BY CountsTyped, FS_CardinalityType DEF Counts
  <2>5. /\ Cardinality(Waiting') = Cardinality(Waiting) + 0 /\ 0 \in {-1, 0, 1}
        /\ outstanding' = outstanding + 0 + Delta(Takers, Taking, t, "take")
                            + Delta(Posters, Outstanding, t, "take")
        /\ queued' = queued + 0 + Delta(Takers, {"empty", "uncount"}, t, "take")
                       - Delta(Posters, {"count"}, t, "take")
    BY <2>2, <2>3, <2>4
  <2>6. IsFiniteSet(Waiting')
    BY <2>2, <2>4
  <2> QED
    BY <1>0, <2>5, <2>6, CountsMove
<1> QED
  BY <1>7, <1>8, <1>9, <1>10

(***************************************************************************)
(* The other parts, under a step that does not concern them.               *)
(***************************************************************************)
\* A place of that thread.
Place(t, at) ==
    /\ t \in Posters => at \in PosterPlaces
    /\ t \in Workers => at \in WorkerPlaces
    /\ t \in Clients => at \in ClientPlaces
    /\ t = Destroyer => at \in DestroyerPlaces

\* The types of everything but pc.
Values ==
    /\ seq \in [Slots -> 0..(Wrap - 1)] /\ slot \in [Slots -> Jobs \cup {None}]
    /\ over \in Seq(Jobs) /\ stop \in BOOLEAN
    /\ parked \in [Workers -> {0, 1}] /\ wake \in [Workers -> BOOLEAN]
    /\ job \in [Threads -> Jobs \cup {None}] /\ pos \in [Threads -> Nat]
    /\ next \in [Posters -> Nat \ {0}]

\* A thread that moves to one of its places.
LEMMA ShapeMove ==
    ASSUME Shape, NEW t \in Threads, NEW to, Place(t, to), pc' = [pc EXCEPT ![t] = to], Values'
    PROVE  Shape'
<1>0. Posters \subseteq Threads /\ Workers \subseteq Threads /\ Clients \subseteq Threads
      /\ Destroyer \in Threads
  BY DEF Threads, Takers
<1>1. pc'[t] = to /\ \A u \in Threads : u # t => pc'[u] = pc[u]
  BY Elsewhere
<1>2. \A u \in Threads : Place(u, pc'[u])
  BY <1>0, <1>1 DEF Place, Shape
<1>3. to \in PosterPlaces \cup WorkerPlaces \cup ClientPlaces \cup DestroyerPlaces
  BY DEF Place, Threads, Takers
<1>4. pc' \in [Threads -> PosterPlaces \cup WorkerPlaces \cup ClientPlaces \cup DestroyerPlaces]
  BY <1>3 DEF Shape
<1> QED
  BY <1>0, <1>2, <1>4 DEF Shape, Values, Place

\* Each thread has its part.
LEMMA Roles ==
    /\ Posters \subseteq Threads /\ Takers \subseteq Threads /\ Workers \subseteq Takers
    /\ Clients \subseteq Takers /\ Destroyer \in Takers
    /\ \A p \in Posters : p \notin Workers /\ p \notin Clients /\ p # Destroyer /\ p \notin Takers
    /\ \A w \in Workers : w \notin Posters /\ w \notin Clients /\ w # Destroyer
    /\ \A c \in Clients : c \notin Posters /\ c \notin Workers /\ c # Destroyer
    /\ Destroyer \notin Posters /\ Destroyer \notin Workers /\ Destroyer \notin Clients
    /\ \A t \in Threads : t \in Posters \/ t \in Workers \/ t \in Clients \/ t = Destroyer
BY TPoolAssumption DEF Threads, Takers

\* Marks and sleepers, when nobody marks, wakes, sleeps or queues.
LEMMA ParkingStays ==
    ASSUME Shape, Marks, Awake, UNCHANGED <<parked, wake, stop>>,
           queued \in Int, queued' \in Int, queued' <= queued,
           NEW t \in Threads, NEW to, pc' = [pc EXCEPT ![t] = to],
           t \in Workers => pc[t] \in TakerPlaces /\ to \in TakerPlaces,
           t \in Posters => pc[t] \notin {"wake", "notify"} /\ to \notin {"wake", "notify"},
           \A p \in Posters : pc[p] \in {"wake", "notify"} => pos'[p] = pos[p]
    PROVE  Marks' /\ Awake'
<1>0. Posters \subseteq Threads /\ Workers \subseteq Threads
  BY Roles
<1>1. pc'[t] = to /\ \A u \in Threads : u # t => pc'[u] = pc[u]
  BY Elsewhere
<1>2. \A w \in Workers : pc'[w] = pc[w] \/ (pc[w] \in TakerPlaces /\ pc'[w] \in TakerPlaces)
  BY <1>0, <1>1
<1>3. \A w \in Workers : \A k \in {"mark", "mark?", "stop?", "commit", "asleep", "exited"} : pc'[w] = k <=> pc[w] = k
  BY <1>2 DEF TakerPlaces, Taking, Taken
<1>a. \A w \in Workers : pc'[w] \in TakerPlaces <=> pc[w] \in TakerPlaces
  BY <1>2
<1>4. \A p \in Posters : \A k \in {"wake", "notify"} : /\ pc'[p] = k <=> pc[p] = k
                                                     /\ pc[p] = k => pos'[p] = pos[p]
  BY <1>0, <1>1
<1>5. Marks'
  <2>1. ASSUME NEW w \in Workers, pc'[w] \in TakerPlaces \cup {"mark", "exited"} PROVE parked'[w] = 0
    BY <1>3, <1>a, <2>1 DEF Marks
  <2>2. ASSUME NEW w \in Workers, pc'[w] \in {"stop?", "commit", "asleep"}, parked'[w] = 0
        PROVE  wake'[w] \/ \E p \in Posters : pc'[p] = "notify" /\ pos'[p] = w
    <3>1. wake[w] \/ \E p \in Posters : pc[p] = "notify" /\ pos[p] = w
      BY <1>3, <2>2 DEF Marks
    <3> QED
      BY <3>1, <1>4
  <2>3. \A p \in Posters : /\ pc'[p] = "wake" => pos'[p] >= 1
                           /\ pc'[p] = "notify" => pos'[p] \in Workers
    BY <1>4 DEF Marks
  <2> QED
    BY <2>1, <2>2, <2>3 DEF Marks
<1>6. Awake'
  <2>1. SUFFICES ASSUME ~stop'
                 PROVE  /\ \E w \in Workers : pc'[w] # "exited"
                        /\ queued' > 0 =>
                              \/ \E w \in Workers : Going(w)'
                              \/ \E p \in Posters :
                                    pc'[p] = "wake" /\ \E w \in Workers : w >= pos'[p] /\ parked'[w] = 1
    BY DEF Awake
  <2>2. \A w \in Workers : Going(w) => Going(w)'
    BY <1>3 DEF Going
  <2>3. /\ \E w \in Workers : pc[w] # "exited"
        /\ queued > 0 =>
              \/ \E w \in Workers : Going(w)
              \/ \E p \in Posters : pc[p] = "wake" /\ \E w \in Workers : w >= pos[p] /\ parked[w] = 1
    BY <2>1 DEF Awake
  <2>4. queued' > 0 => queued > 0
    OBVIOUS
  <2> QED
    BY <2>2, <2>3, <2>4, <1>3, <1>4
<1> QED
  BY <1>5, <1>6

\* A poster or a client that is inside the pool is not there with tpool_destroy.
LEMMA ShutOutside ==
    ASSUME Shape, Shut, NEW t \in Posters \cup Clients, pc[t] # "idle" \/ pc[Destroyer] = "idle",
           NEW to, pc' = [pc EXCEPT ![t] = to], stop' = stop
    PROVE  Shut'
<1>1. t \in Threads /\ Destroyer \in Threads /\ Destroyer # t
  BY Roles
<1>2. pc[Destroyer] = "idle"
  BY DEF Shut
<1>3. pc'[Destroyer] = "idle"
  BY <1>1, <1>2, Elsewhere
<1> QED
  BY <1>2, <1>3 DEF Shut

\* A worker does not fill the pool.
LEMMA ShutWorker ==
    ASSUME Shape, Shut, NEW w \in Workers, pc[w] # "exited", NEW to, pc' = [pc EXCEPT ![w] = to],
           stop' = stop, Full' \ Emptying' \subseteq Full \ Emptying, over = <<>> => over' = over
    PROVE  Shut'
<1>1. w \in Threads /\ Destroyer \in Threads /\ Destroyer # w /\ w \notin Posters \cup Clients
      /\ Posters \cup Clients \subseteq Threads
  BY Roles
<1>2. pc'[Destroyer] = pc[Destroyer] /\ \A u \in Posters \cup Clients : pc'[u] = pc[u]
  BY <1>1, Elsewhere
<1>3. pc[Destroyer] # "destroyed"
  BY DEF Shut
<1>4. pc[Destroyer] \in {"takeover", "none", "notifyall", "join", "destroyed"} => Full' \ Emptying' = {}
  BY DEF Shut
<1> QED
  BY <1>2, <1>3, <1>4 DEF Shut

\* The jobs posted only grow.
LEMMA PostedGrow ==
    ASSUME Shape, \/ next' = next
                  \/ \E p \in Posters : next' = [next EXCEPT ![p] = @ + 1]
    PROVE  PostedJobs \subseteq PostedJobs'
<1>1. \A p \in Posters : next[p] \in Nat /\ next'[p] \in Nat /\ next'[p] >= next[p]
  BY DEF Shape
<1>2. \A j \in Jobs : j[1] \in Posters /\ j[2] \in Nat
  BY JobFacts
<1> QED
  BY <1>1, <1>2 DEF PostedJobs

\* Nobody's tpool_wait returns.
LEMMA WaitsStay ==
    ASSUME Shape, Waits, asked' = asked, done \subseteq done', dropped \subseteq dropped',
           \/ next' = next
           \/ \E p \in Posters : next' = [next EXCEPT ![p] = @ + 1],
           NEW t \in Threads, NEW to, pc' = [pc EXCEPT ![t] = to],
           to # "waited"
    PROVE  Waits'
<1>1. PostedJobs \subseteq PostedJobs'
  BY PostedGrow
<1>2. \A c \in Clients : pc'[c] = "waited" => pc[c] = "waited"
  BY Elsewhere, Roles
<1> QED
  BY <1>1, <1>2 DEF Waits

\* Nothing a try looks at changes.
LEMMA TriesStay ==
    ASSUME Shape, Tries, UNCHANGED <<enq, seq>>, NEW t \in Threads, NEW to,
           pc' = [pc EXCEPT ![t] = to],
           to = "try" => pc[t] = "try",
           \A p \in Posters : pc'[p] = "try" => pos'[p] = pos[p]
    PROVE  Tries'
<1>1. \A p \in Posters : pc'[p] = "try" => pc[p] = "try"
  BY Elsewhere, Roles
<1> QED
  BY <1>1 DEF Tries, SeqAt

\* The slot of somebody else's position passes on.
LEMMA TriesElsewhere ==
    ASSUME Shape, Ring, Tries, NEW t \in Threads, NEW to, to # "try",
           pc' = [pc EXCEPT ![t] = to],
           \/ t \in Posters /\ pc[t] = "fill"
           \/ t \in Takers /\ pc[t] = "empty",
           NEW v, seq' = [seq EXCEPT ![pos[t] % QueueSize] = v], UNCHANGED enq,
           \A p \in Posters : pc'[p] = "try" => pos'[p] = pos[p]
    PROVE  Tries'
<1>1. \A p \in Posters : pc'[p] = "try" => pc[p] = "try"
  BY Elsewhere, Roles
<1>2. SeqAt(enq) = enq => pos[t] % QueueSize # enq % QueueSize
  BY TailUntouched
<1>3. enq % QueueSize \in Slots
  <2>1. PICK E \in Nat, D \in Nat : RingAt(E, D)
    BY DEF Ring
  <2>2. enq = Turn(E)
    BY <2>1 DEF RingAt
  <2> QED
    BY <2>2, TurnsAndSlots
<1>4. SeqAt(enq) = enq => seq'[enq % QueueSize] = enq
  <2>1. DOMAIN seq = Slots
    BY DEF Shape
  <2> QED
    BY <1>2, <1>3, <2>1 DEF SeqAt
<1> QED
  BY <1>1, <1>4 DEF Tries, SeqAt

\* The tail moves on, past nobody who tried at the new one.
LEMMA TriesClaim ==
    ASSUME Shape, Ring, Tries, TryIsBrief, NEW p \in Posters, pc' = [pc EXCEPT ![p] = "fill"],
           enq' = Plus(enq, 1), \A u \in Posters : pc'[u] = "try" => pos'[u] = pos[u]
    PROVE  Tries'
<1>1. pc'[p] = "fill" /\ \A u \in Posters : u # p => pc'[u] = pc[u]
  BY Elsewhere, Roles
<1>2. enq' # enq
  <2>1. PICK E \in Nat, D \in Nat : RingAt(E, D)
    BY DEF Ring
  <2>2. enq = Turn(E)
    BY <2>1 DEF RingAt
  <2> QED
    BY <2>2, TurnPlus, ThreeTurns
<1>3. \A u \in Posters : pc'[u] = "try" => pc[u] = "try"
  BY <1>1
<1>4. \A u \in Posters : pc'[u] = "try" => pos'[u] # enq'
  BY <1>2, <1>3 DEF TryIsBrief
<1> QED
  BY <1>4 DEF Tries

\* The parts together.
LEMMA Parts ==
    /\ IInv <=> Shape /\ Ring /\ Tries /\ Accounts /\ Marks /\ Awake /\ Shut /\ Waits
    /\ IInv' <=> /\ Shape' /\ Ring' /\ Tries' /\ Accounts' /\ Marks' /\ Awake'
                 /\ Shut' /\ Waits'
    /\ IInv => queued \in Int /\ outstanding \in Nat
<1>1. IInv <=> Shape /\ Ring /\ Tries /\ Accounts /\ Marks /\ Awake /\ Shut /\ Waits
  BY DEF IInv, Accounts
<1>2. IInv' <=> /\ Shape' /\ Ring' /\ Tries' /\ Accounts' /\ Marks' /\ Awake'
                /\ Shut' /\ Waits'
  BY DEF IInv, Accounts
<1>3. IInv => queued \in Int /\ outstanding \in Nat
  BY CountsTyped DEF IInv
<1> QED
  BY <1>1, <1>2, <1>3

\* A step that touches neither the ring nor a job.
LEMMA Quiet ==
    ASSUME IInv, NEW t \in Threads, NEW to, Place(t, to), pc' = [pc EXCEPT ![t] = to],
           Alike(pc[t], to), pc[t] # "fill", to # "fill", to # "try",
           pos' \in [Threads -> Nat], \A u \in Threads : u # t => pos'[u] = pos[u],
           UNCHANGED <<enq, deq, seq, slot, over, queued, outstanding, job, next,
                       started, done, dropped>>,
           stop' \in BOOLEAN, parked' \in [Workers -> {0, 1}], wake' \in [Workers -> BOOLEAN]
    PROVE  Shape' /\ Ring' /\ Tries' /\ Accounts' /\ Full' = Full /\ Emptying' = Emptying
<1>1. Shape /\ Ring /\ Tries /\ Accounts
  BY Parts
<1>2. pc'[t] = to /\ \A u \in Threads : u # t => pc'[u] = pc[u]
  BY <1>1, Elsewhere
<1>3. Shape'
  <2>1. Values'
    BY <1>1 DEF Shape, Values
  <2> QED
    BY <1>1, <2>1, ShapeMove
<1>4. pc[t] # "empty" /\ to # "empty"
  BY DEF Alike, Posting, Taking
<1>5. Ring' /\ Full' = Full /\ Emptying' = Emptying
  <2>1. \A u \in Threads : /\ \A k \in {"fill", "empty"} : pc'[u] = k <=> pc[u] = k
                           /\ pc[u] \in {"fill", "empty"} => pos'[u] = pos[u]
    BY <1>2, <1>4
  <2> QED
    BY <1>1, <2>1, RingStays
<1>6. Tries'
  <2>1. \A p \in Posters : pc'[p] = "try" => pos'[p] = pos[p]
    BY <1>2, Roles
  <2> QED
    BY <1>1, <2>1, TriesStay
<1>7. Accounts'
  BY <1>1, <1>3, <1>5, AccountsStay DEF counts
<1> QED
  BY <1>3, <1>5, <1>6, <1>7

\* What a poster or a client leaves alone.
LEMMA OutsideRest ==
    ASSUME IInv, NEW t \in Posters \cup Clients, NEW to, pc' = [pc EXCEPT ![t] = to],
           pc[t] # "idle" \/ pc[Destroyer] = "idle",
           pc[t] \notin {"wake", "notify"}, to \notin {"wake", "notify", "waited"},
           UNCHANGED <<parked, wake, stop, asked>>, queued' \in Int, queued' <= queued,
           done \subseteq done', dropped \subseteq dropped',
           \/ next' = next
           \/ \E p \in Posters : next' = [next EXCEPT ![p] = @ + 1],
           \A u \in Threads : u # t => pos'[u] = pos[u]
    PROVE  Marks' /\ Awake' /\ Shut' /\ Waits'
<1>1. Shape /\ Marks /\ Awake /\ Shut /\ Waits /\ queued \in Int
  BY Parts
<1>2. t \in Threads /\ t \notin Workers
  BY Roles
<1>3. \A p \in Posters : pc[p] \in {"wake", "notify"} => pos'[p] = pos[p]
  BY Roles
<1>4. Marks' /\ Awake'
  BY <1>1, <1>2, <1>3, ParkingStays
<1>5. Shut'
  BY <1>1, ShutOutside
<1>6. Waits'
  BY <1>1, <1>2, WaitsStay
<1> QED
  BY <1>4, <1>5, <1>6

\* What a worker that takes and runs jobs leaves alone.
LEMMA WorkerRest ==
    ASSUME IInv, NEW w \in Workers, NEW to \in TakerPlaces, pc' = [pc EXCEPT ![w] = to],
           pc[w] \in TakerPlaces,
           UNCHANGED <<parked, wake, stop, next, asked>>, queued' \in Int, queued' <= queued,
           done \subseteq done', dropped \subseteq dropped',
           \A u \in Threads : u # w => pos'[u] = pos[u],
           Full' \ Emptying' \subseteq Full \ Emptying, over = <<>> => over' = over
    PROVE  Marks' /\ Awake' /\ Shut' /\ Waits'
<1>1. Shape /\ Marks /\ Awake /\ Shut /\ Waits /\ queued \in Int
  BY Parts
<1>2. w \in Threads /\ w \notin Posters
  BY Roles
<1>3. \A p \in Posters : pc[p] \in {"wake", "notify"} => pos'[p] = pos[p]
  BY Roles
<1>4. Marks' /\ Awake'
  BY <1>1, <1>2, <1>3, ParkingStays
<1>5. Shut'
  BY <1>1, ShutWorker DEF TakerPlaces, Taking, Taken
<1>6. Waits'
  BY <1>1, <1>2, WaitsStay DEF TakerPlaces, Taking, Taken
<1> QED
  BY <1>4, <1>5, <1>6

\* The same for either.
LEMMA TakerRest ==
    ASSUME IInv, NEW t \in Takers \ {Destroyer}, NEW to, pc' = [pc EXCEPT ![t] = to],
           pc[t] \in TakerPlaces, to \in TakerPlaces \/ (t \in Clients /\ to = "idle"),
           UNCHANGED <<parked, wake, stop, next, asked>>, queued' \in Int, queued' <= queued,
           done \subseteq done', dropped \subseteq dropped',
           \A u \in Threads : u # t => pos'[u] = pos[u],
           Full' \ Emptying' \subseteq Full \ Emptying, over = <<>> => over' = over
    PROVE  Marks' /\ Awake' /\ Shut' /\ Waits'
<1>1. CASE t \in Workers
  <2>1. to \in TakerPlaces
    BY <1>1, Roles
  <2> QED
    BY <1>1, <2>1, WorkerRest
<1>2. CASE t \in Clients
  <2>1. /\ pc[t] # "idle" /\ pc[t] \notin {"wake", "notify"} /\ to \notin {"wake", "notify", "waited"}
    BY DEF TakerPlaces, Taking, Taken
  <2>2. t \in Posters \cup Clients
    BY <1>2
  <2> QED
    BY <2>1, <2>2, OutsideRest
<1> QED
  BY <1>1, <1>2 DEF Takers

\* What tpool_destroy leaves alone while it empties the pool.
LEMMA DestroyerRest ==
    ASSUME IInv, NEW to \in DestroyerPlaces, pc' = [pc EXCEPT ![Destroyer] = to],
           UNCHANGED <<parked, wake, stop, next, asked>>, queued' \in Int, queued' <= queued,
           done \subseteq done', dropped \subseteq dropped',
           \A u \in Threads : u # Destroyer => pos'[u] = pos[u]
    PROVE  Marks' /\ Awake' /\ Waits'
<1>1. Shape /\ Marks /\ Awake /\ Waits /\ queued \in Int
  BY Parts
<1>2. Destroyer \in Threads /\ Destroyer \notin Posters /\ Destroyer \notin Workers
  BY Roles
<1>3. \A p \in Posters : pc[p] \in {"wake", "notify"} => pos'[p] = pos[p]
  BY Roles
<1>4. Marks' /\ Awake'
  BY <1>1, <1>2, <1>3, ParkingStays
<1>6. Waits'
  BY <1>1, <1>2, WaitsStay DEF DestroyerPlaces
<1> QED
  BY <1>4, <1>6

(***************************************************************************)
(* Posting.                                                                *)
(***************************************************************************)
LEMMA AddWorkStep ==
    ASSUME IInv, NEW p \in Posters, AddWork(p)
    PROVE  IInv'
<1> USE DEF AddWork, Goto, ring, list, signals, history
<1>0. Shape /\ Ring /\ Tries /\ Accounts /\ queued \in Int
  BY Parts
<1>1. p \in Threads /\ pc' = [pc EXCEPT ![p] = "post"] /\ pc[p] = "idle"
  BY Roles
<1>2. /\ <<p, next[p]>> \in Jobs
      /\ job' = [job EXCEPT ![p] = <<p, next[p]>>] /\ next[p] <= JobsEach[p]
  <2>1. next[p] \in 1..JobsEach[p]
    BY <1>0, JobFacts DEF Shape
  <2> QED
    BY <2>1, JobFacts
<1>3. Shape'
  <2>1. Values'
    BY <1>0, <1>2 DEF Shape, Values
  <2>2. Place(p, "post")
    BY Roles DEF Place, PosterPlaces, Posting
  <2> QED
    BY <1>0, <1>1, <2>1, <2>2, ShapeMove
<1>4. pc'[p] = "post" /\ \A u \in Threads : u # p => pc'[u] = pc[u]
  BY <1>0, <1>1, Elsewhere
<1>5. Ring' /\ Full' = Full /\ Emptying' = Emptying
  <2>1. \A u \in Threads : /\ \A k \in {"fill", "empty"} : pc'[u] = k <=> pc[u] = k
                           /\ pc[u] \in {"fill", "empty"} => pos'[u] = pos[u]
    BY <1>1, <1>4
  <2> QED
    BY <1>0, <2>1, RingStays
<1>6. Tries'
  BY <1>0, <1>1, TriesStay
<1>7. Accounts'
  <2>1. "post" \in Posting
    BY DEF Posting
  <2> QED
    BY <1>0, <1>1, <1>2, <1>3, <1>5, <2>1, AccountsAsked
<1>8. Marks' /\ Awake' /\ Shut' /\ Waits'
  <2>1. /\ p \in Posters \cup Clients /\ "post" \notin {"wake", "notify", "waited"}
        /\ pc[p] \notin {"wake", "notify"} /\ pc[Destroyer] = "idle"
        /\ UNCHANGED <<parked, wake, stop, asked>> /\ queued' \in Int /\ queued' <= queued
        /\ done \subseteq done' /\ dropped \subseteq dropped' /\ next' = next /\ pos' = pos
    BY <1>0, <1>1
  <2> QED
    BY <1>1, <2>1, OutsideRest
<1> QED
  BY <1>3, <1>5, <1>6, <1>7, <1>8, Parts

\* A poster that still has its job, on its way.
LEMMA PosterMoves ==
    ASSUME IInv, NEW p \in Posters, pc[p] \in Posting \ {"fill"}, NEW to \in Posting \ {"fill", "try"},
           pc' = [pc EXCEPT ![p] = to],
           UNCHANGED <<ring, list, counts, stop, signals, job, pos, next, history>>
    PROVE  IInv'
<1> USE DEF ring, list, counts, signals, history
<1>0. Shape /\ queued \in Int
  BY Parts
<1>1. /\ p \in Threads /\ p \in Posters \cup Clients /\ pc[p] # "fill" /\ pc[p] # "idle"
      /\ pc[p] \notin {"wake", "notify"}
      /\ to # "fill" /\ to # "try" /\ to \notin {"wake", "notify", "waited"}
  BY Roles DEF Posting
<1>2. Place(p, to) /\ Alike(pc[p], to)
  BY Roles DEF Place, PosterPlaces, Alike
<1>3. /\ pos' \in [Threads -> Nat] /\ pos' = pos /\ stop' \in BOOLEAN
      /\ parked' \in [Workers -> {0, 1}] /\ wake' \in [Workers -> BOOLEAN]
  BY <1>0 DEF Shape
<1>4. Shape' /\ Ring' /\ Tries' /\ Accounts'
  BY <1>1, <1>2, <1>3, Quiet
<1>5. Marks' /\ Awake' /\ Shut' /\ Waits'
  <2>1. /\ UNCHANGED <<parked, wake, stop, asked>> /\ queued' \in Int /\ queued' <= queued
        /\ done \subseteq done' /\ dropped \subseteq dropped' /\ next' = next
    BY <1>0
  <2> QED
    BY <1>1, <1>3, <2>1, OutsideRest
<1> QED
  BY <1>4, <1>5, Parts

\* A poster looks whether the overflow list is empty.
LEMMA PostStep ==
    ASSUME IInv, NEW p \in Posters, Post(p)
    PROVE  IInv'
<1> DEFINE to == IF over = <<>> THEN "put" ELSE "over"
<1>1. pc[p] \in Posting \ {"fill"} /\ to \in Posting \ {"fill", "try"}
  BY DEF Post, Move, Goto, Posting
<1>2. /\ pc' = [pc EXCEPT ![p] = to]
      /\ UNCHANGED <<ring, list, counts, stop, signals, job, pos, next, history>>
  BY DEF Post, Move, Goto
<1> HIDE DEF to
<1> QED
  BY <1>1, <1>2, PosterMoves

\* tpool_queue_put or tpool_try_add_work claims the tail.
LEMMA ClaimStep ==
    ASSUME IInv, TryIsBrief, NEW p \in Posters, pc[p] \in {"put", "try"}, SeqAt(enq) = enq,
           pc' = [pc EXCEPT ![p] = "fill"], pos' = [pos EXCEPT ![p] = enq], enq' = Plus(enq, 1),
           UNCHANGED <<deq, seq, slot, list, counts, stop, signals, job, next, history>>
    PROVE  IInv'
<1> USE DEF list, counts, signals, history
<1>0. Shape /\ Ring /\ Tries /\ Accounts /\ queued \in Int
  BY Parts
<1>1. /\ p \in Threads /\ p \in Posters \cup Clients /\ pc[p] # "fill" /\ pc[p] # "idle"
      /\ pc[p] \notin {"wake", "notify"} /\ "fill" \notin {"wake", "notify", "waited"}
  BY Roles
<1>2. enq \in Nat
  <2>1. PICK E \in Nat, D \in Nat : RingAt(E, D)
    BY <1>0 DEF Ring
  <2>2. enq = Turn(E) /\ Turn(E) \in 0..(Wrap - 1)
    BY <2>1, TurnsAndSlots DEF RingAt
  <2> QED
    BY <2>2, Sizes
<1>3. pos' \in [Threads -> Nat] /\ pos'[p] = enq /\ \A u \in Threads : u # p => pos'[u] = pos[u]
  BY <1>0, <1>1, <1>2 DEF Shape
<1>4. Shape'
  <2>1. Values'
    BY <1>0, <1>3 DEF Shape, Values
  <2>2. Place(p, "fill")
    BY Roles DEF Place, PosterPlaces, Posting
  <2> QED
    BY <1>0, <1>1, <2>1, <2>2, ShapeMove
<1>5. Ring' /\ Full' = Full /\ Emptying' = Emptying
  BY <1>0, <1>1, <1>3, RingClaim
<1>6. Tries'
  <2>1. \A u \in Posters : pc'[u] = "try" => pos'[u] = pos[u]
    BY <1>0, <1>1, <1>3, Elsewhere, Roles
  <2> QED
    BY <1>0, <2>1, TriesClaim
<1>7. Accounts'
  <2>1. Alike(pc[p], "fill")
    BY DEF Alike, Posting
  <2> QED
    BY <1>0, <1>1, <1>4, <1>5, <2>1, AccountsStay
<1>8. Marks' /\ Awake' /\ Shut' /\ Waits'
  <2>1. /\ UNCHANGED <<parked, wake, stop, asked>> /\ queued' \in Int /\ queued' <= queued
        /\ done \subseteq done' /\ dropped \subseteq dropped' /\ next' = next
    BY <1>0
  <2> QED
    BY <1>1, <1>3, <2>1, OutsideRest
<1> QED
  BY <1>4, <1>5, <1>6, <1>7, <1>8, Parts

\* A poster claims a slot, or finds the ring full.
LEMMA PutStep ==
    ASSUME IInv, TryIsBrief, NEW p \in Posters, Put(p)
    PROVE  IInv'
<1>1. CASE /\ Dif(SeqAt(enq), enq) < 0 /\ Goto(p, "put", "over") /\ UNCHANGED <<enq, pos>>
  <2>1. pc[p] \in Posting \ {"fill"} /\ "over" \in Posting \ {"fill", "try"}
    BY <1>1 DEF Goto, Posting
  <2>2. /\ pc' = [pc EXCEPT ![p] = "over"]
        /\ UNCHANGED <<ring, list, counts, stop, signals, job, pos, next, history>>
    BY <1>1 DEF Put, Goto, ring
  <2> QED
    BY <2>1, <2>2, PosterMoves
<1>2. CASE /\ Dif(SeqAt(enq), enq) = 0 /\ Goto(p, "put", "fill")
           /\ pos' = [pos EXCEPT ![p] = enq] /\ enq' = Plus(enq, 1)
  <2>1. SeqAt(enq) = enq
    BY <1>2, Parts, TailFree
  <2>2. /\ pc[p] \in {"put", "try"} /\ pc' = [pc EXCEPT ![p] = "fill"]
        /\ UNCHANGED <<deq, seq, slot, list, counts, stop, signals, job, next, history>>
    BY <1>2 DEF Put, Goto
  <2> QED
    BY <1>2, <2>1, <2>2, ClaimStep
<1> QED
  BY <1>1, <1>2 DEF Put

\* tpool_try_add_work wins its compare-and-swap: its slot is still given back (Tries).
LEMMA TryClaimWins ==
    ASSUME IInv, TryIsBrief, NEW p \in Posters, TryClaim(p), enq = pos[p]
    PROVE  IInv'
<1>0. Shape /\ Tries /\ p \in Threads
  BY Parts, Roles
<1>1. /\ pc[p] \in {"put", "try"} /\ pc[p] = "try" /\ pc' = [pc EXCEPT ![p] = "fill"]
      /\ enq' = Plus(enq, 1)
      /\ UNCHANGED <<deq, seq, slot, list, counts, stop, signals, job, next, history>>
      /\ pos' = pos
  BY DEF TryClaim, Goto, history
<1>2. pos' = [pos EXCEPT ![p] = enq]
  BY <1>0, <1>1 DEF Shape
<1>3. SeqAt(enq) = enq
  BY <1>0, <1>1 DEF Tries
<1> QED
  BY <1>1, <1>2, <1>3, ClaimStep

\* A poster fills its slot and gives it to the takers.
LEMMA FillStep ==
    ASSUME IInv, NEW p \in Posters, Fill(p)
    PROVE  IInv'
<1> USE DEF Fill, Goto, list, counts, signals, history
<1> DEFINE i == pos[p] % QueueSize
<1>0. Shape /\ Ring /\ Tries /\ Accounts /\ queued \in Int
  BY Parts
<1>1. /\ p \in Threads /\ p \in Posters \cup Clients /\ pc[p] = "fill"
      /\ pc' = [pc EXCEPT ![p] = "count"] /\ "count" \notin {"wake", "notify", "waited"}
      /\ pos' = pos
  BY Roles
<1>2. Ring' /\ i \in Slots \ Full /\ Full' = Full \cup {i} /\ Emptying' = Emptying
  BY <1>0, RingFill
<1>3. Plus(pos[p], 1) \in 0..(Wrap - 1)
  <2>1. pos[p] + 1 \in Nat
    BY <1>0, <1>1 DEF Shape
  <2> QED
    BY <2>1, Sizes, QuotientRemainder DEF Plus
<1>4. Shape'
  <2>1. Values'
    BY <1>0, <1>1, <1>3 DEF Shape, Values
  <2>2. Place(p, "count")
    BY Roles DEF Place, PosterPlaces, HandedOver
  <2> QED
    BY <1>0, <1>1, <2>1, <2>2, ShapeMove
<1>5. Tries'
  BY <1>0, <1>1, TriesElsewhere
<1>6. Accounts'
  <2> HIDE DEF i
  <2>1. slot' = [slot EXCEPT ![i] = job[p]]
    BY DEF i
  <2> QED
    BY <1>0, <1>1, <1>2, <1>4, <2>1, AccountsFill
<1>7. Marks' /\ Awake' /\ Shut' /\ Waits'
  <2>1. /\ UNCHANGED <<parked, wake, stop, asked>> /\ queued' \in Int /\ queued' <= queued
        /\ done \subseteq done' /\ dropped \subseteq dropped' /\ next' = next
        /\ pc[p] \notin {"wake", "notify"} /\ pc[p] # "idle"
    BY <1>0, <1>1
  <2> QED
    BY <1>1, <2>1, OutsideRest
<1> QED
  BY <1>2, <1>4, <1>5, <1>6, <1>7, Parts

\* The job goes to the end of the overflow.
LEMMA AppendStep ==
    ASSUME IInv, NEW p \in Posters, pc[p] \in {"over", "alloc"}, pc' = [pc EXCEPT ![p] = "count"],
           over' = Append(over, job[p]),
           UNCHANGED <<ring, counts, stop, signals, job, pos, next, history>>
    PROVE  IInv'
<1> USE DEF ring, counts, signals, history
<1>0. Shape /\ Ring /\ Tries /\ Accounts /\ queued \in Int
  BY Parts
<1>1. /\ p \in Threads /\ p \in Posters \cup Clients /\ pc[p] # "idle"
      /\ "count" \notin {"wake", "notify", "waited"} /\ pc[p] \notin {"wake", "notify"}
  BY Roles
<1>2. pc'[p] = "count" /\ \A u \in Threads : u # p => pc'[u] = pc[u]
  BY <1>0, <1>1, Elsewhere
<1>3. Ring' /\ Full' = Full /\ Emptying' = Emptying
  <2>1. \A u \in Threads : /\ \A k \in {"fill", "empty"} : pc'[u] = k <=> pc[u] = k
                           /\ pc[u] \in {"fill", "empty"} => pos'[u] = pos[u]
    BY <1>2
  <2> QED
    BY <1>0, <2>1, RingStays
<1>4. Shape'
  <2>1. job[p] \in Jobs
    BY <1>0, OutGrows DEF Accounts, Posting, HandedOver
  <2>2. over' \in Seq(Jobs)
    BY <1>0, <2>1, AppendProperties DEF Shape
  <2>3. Values'
    BY <1>0, <2>2 DEF Shape, Values
  <2>4. Place(p, "count")
    BY Roles DEF Place, PosterPlaces, HandedOver
  <2> QED
    BY <1>0, <1>1, <2>3, <2>4, ShapeMove
<1>5. Tries'
  BY <1>0, <1>1, TriesStay
<1>6. Accounts'
  BY <1>0, <1>1, <1>3, <1>4, AccountsOverflow
<1>7. Marks' /\ Awake' /\ Shut' /\ Waits'
  <2>1. /\ UNCHANGED <<parked, wake, stop, asked>> /\ queued' \in Int /\ queued' <= queued
        /\ done \subseteq done' /\ dropped \subseteq dropped' /\ next' = next /\ pos' = pos
    BY <1>0
  <2> QED
    BY <1>1, <2>1, OutsideRest
<1> QED
  BY <1>3, <1>4, <1>5, <1>6, <1>7, Parts

\* A poster appends its job with a node that was kept, or goes to allocate one.
LEMMA OverflowStep ==
    ASSUME IInv, NEW p \in Posters, Overflow(p)
    PROVE  IInv'
<1>0. UNCHANGED <<ring, counts, stop, signals, job, pos, next, history>>
  BY DEF Overflow
<1>1. CASE spare > 0
  <2>1. /\ pc[p] \in {"over", "alloc"} /\ pc' = [pc EXCEPT ![p] = "count"]
        /\ over' = Append(over, job[p])
    BY <1>1 DEF Overflow, Goto
  <2> QED
    BY <1>0, <2>1, AppendStep
<1>2. CASE ~(spare > 0)
  <2>1. /\ pc[p] \in Posting \ {"fill"} /\ "alloc" \in Posting \ {"fill", "try"}
        /\ pc' = [pc EXCEPT ![p] = "alloc"] /\ UNCHANGED list
    BY <1>2 DEF Overflow, Goto, Posting
  <2> QED
    BY <1>0, <2>1, PosterMoves
<1> QED
  BY <1>1, <1>2

\* A poster appends its job with a node it allocated.
LEMMA AllocStep ==
    ASSUME IInv, NEW p \in Posters, Alloc(p)
    PROVE  IInv'
<1>1. /\ pc[p] \in {"over", "alloc"} /\ pc' = [pc EXCEPT ![p] = "count"]
      /\ over' = Append(over, job[p])
      /\ UNCHANGED <<ring, counts, stop, signals, job, pos, next, history>>
  BY DEF Alloc, Goto
<1> QED
  BY <1>1, AppendStep

\* No memory, or another poster won.
LEMMA RefusedStep ==
    ASSUME IInv, NEW p \in Posters, pc[p] \in {"alloc", "try"}, pc' = [pc EXCEPT ![p] = "retire"],
           Refused(p),
           UNCHANGED <<ring, list, counts, stop, signals, job, pos, started, done, asked>>
    PROVE  IInv'
<1> USE DEF Refused, ring, list, counts, signals
<1>0. Shape /\ Ring /\ Tries /\ Accounts /\ queued \in Int
  BY Parts
<1>1. /\ p \in Threads /\ p \in Posters \cup Clients /\ pc[p] # "idle"
      /\ "retire" \notin {"wake", "notify", "waited"} /\ pc[p] \notin {"wake", "notify"}
  BY Roles
<1>2. pc'[p] = "retire" /\ \A u \in Threads : u # p => pc'[u] = pc[u]
  BY <1>0, <1>1, Elsewhere
<1>3. Ring' /\ Full' = Full /\ Emptying' = Emptying
  <2>1. \A u \in Threads : /\ \A k \in {"fill", "empty"} : pc'[u] = k <=> pc[u] = k
                           /\ pc[u] \in {"fill", "empty"} => pos'[u] = pos[u]
    BY <1>2
  <2> QED
    BY <1>0, <2>1, RingStays
<1>4. Shape'
  <2>1. next' \in [Posters -> Nat \ {0}]
    BY <1>0 DEF Shape
  <2>3. Values'
    BY <1>0, <2>1 DEF Shape, Values
  <2>4. Place(p, "retire")
    BY Roles DEF Place, PosterPlaces
  <2> QED
    BY <1>0, <1>1, <2>3, <2>4, ShapeMove
<1>5. Tries'
  BY <1>0, <1>1, TriesStay
<1>6. Accounts'
  BY <1>0, <1>1, <1>3, <1>4, AccountsRefused
<1>7. Marks' /\ Awake' /\ Shut' /\ Waits'
  <2>1. /\ UNCHANGED <<parked, wake, stop, asked>> /\ queued' \in Int /\ queued' <= queued
        /\ done \subseteq done' /\ dropped \subseteq dropped' /\ pos' = pos
    BY <1>0
  <2>2. \E u \in Posters : next' = [next EXCEPT ![u] = @ + 1]
    BY Zenon
  <2> QED
    BY <1>1, <2>1, <2>2, OutsideRest
<1> QED
  BY <1>3, <1>4, <1>5, <1>6, <1>7, Parts

\* The node for the overflow list cannot be allocated: the job is taken back.
LEMMA AllocFailsStep ==
    ASSUME IInv, NEW p \in Posters, AllocFails(p)
    PROVE  IInv'
<1>1. /\ pc[p] \in {"alloc", "try"} /\ pc' = [pc EXCEPT ![p] = "retire"] /\ Refused(p)
      /\ UNCHANGED <<ring, list, counts, stop, signals, job, pos, started, done, asked>>
  BY DEF AllocFails, Goto
<1> QED
  BY <1>1, RefusedStep

\* The compare-and-swap of tpool_try_add_work, won or lost.
LEMMA TryClaimStep ==
    ASSUME IInv, TryIsBrief, NEW p \in Posters, TryClaim(p)
    PROVE  IInv'
<1>1. CASE enq = pos[p]
  BY <1>1, TryClaimWins
<1>2. CASE enq # pos[p]
  <2>1. /\ pc[p] \in {"alloc", "try"} /\ pc' = [pc EXCEPT ![p] = "retire"] /\ Refused(p)
        /\ UNCHANGED <<ring, list, counts, stop, signals, job, pos, started, done, asked>>
    BY <1>2 DEF TryClaim, Goto, ring
  <2> QED
    BY <2>1, RefusedStep
<1> QED
  BY <1>1, <1>2

\* tpool_try_add_work reads its position and its slot's turn.
LEMMA TryAddWorkStep ==
    ASSUME IInv, NEW p \in Posters, TryAddWork(p)
    PROVE  IInv'
<1> USE DEF TryAddWork, Goto, ring, list, signals, history
<1>0. Shape /\ Ring /\ Tries /\ Accounts /\ queued \in Int
  BY Parts
<1>1. /\ p \in Threads /\ p \in Posters \cup Clients /\ pc[p] = "idle" /\ pc[Destroyer] = "idle"
      /\ pc' = [pc EXCEPT ![p] = "try"]
      /\ "try" \notin {"wake", "notify", "waited"}
  BY Roles
<1>2. pc'[p] = "try" /\ \A u \in Threads : u # p => pc'[u] = pc[u]
  BY <1>0, <1>1, Elsewhere
<1>a. enq \in Nat
  <2>1. PICK E \in Nat, D \in Nat : RingAt(E, D)
    BY <1>0 DEF Ring
  <2>2. enq = Turn(E) /\ Turn(E) \in 0..(Wrap - 1)
    BY <2>1, TurnsAndSlots DEF RingAt
  <2> QED
    BY <2>2, Sizes
<1>b. pos' \in [Threads -> Nat] /\ pos'[p] = enq /\ \A u \in Threads : u # p => pos'[u] = pos[u]
  BY <1>0, <1>1, <1>a DEF Shape
<1>c. /\ <<p, next[p]>> \in Jobs
      /\ job' = [job EXCEPT ![p] = <<p, next[p]>>] /\ next[p] <= JobsEach[p]
  <2>1. next[p] \in 1..JobsEach[p]
    BY <1>0, JobFacts DEF Shape
  <2> QED
    BY <2>1, JobFacts
<1>3. Ring' /\ Full' = Full /\ Emptying' = Emptying
  <2>1. \A u \in Threads : /\ \A k \in {"fill", "empty"} : pc'[u] = k <=> pc[u] = k
                           /\ pc[u] \in {"fill", "empty"} => pos'[u] = pos[u]
    BY <1>1, <1>2, <1>b
  <2> QED
    BY <1>0, <2>1, RingStays
<1>4. Shape'
  <2>3. Values'
    BY <1>0, <1>b, <1>c DEF Shape, Values
  <2>4. Place(p, "try")
    BY Roles DEF Place, PosterPlaces, Posting
  <2> QED
    BY <1>0, <1>1, <2>3, <2>4, ShapeMove
<1>5. Tries'
  <2>1. SeqAt(enq) = enq /\ enq' = enq /\ seq' = seq
    OBVIOUS
  <2> QED
    BY <2>1 DEF Tries, SeqAt
<1>6. Accounts'
  <2>1. "try" \in Posting
    BY DEF Posting
  <2> QED
    BY <1>0, <1>1, <1>c, <1>3, <1>4, <2>1, AccountsAsked
<1>7. Marks' /\ Awake' /\ Shut' /\ Waits'
  <2>1. /\ UNCHANGED <<parked, wake, stop, asked>> /\ queued' \in Int /\ queued' <= queued
        /\ done \subseteq done' /\ dropped \subseteq dropped' /\ next' = next
        /\ pc[p] \notin {"wake", "notify"}
    BY <1>0, <1>1
  <2> QED
    BY <1>1, <1>b, <2>1, OutsideRest
<1> QED
  BY <1>3, <1>4, <1>5, <1>6, <1>7, Parts

\* Marks as a step of posters finds and leaves them.
LEMMA MarksByPosters ==
    ASSUME Marks, \A w \in Workers : pc'[w] = pc[w],
           \A w \in Workers : wake[w] => wake'[w],
           \A w \in Workers : pc[w] \in TakerPlaces \cup {"mark", "exited"} => parked'[w] = 0,
           \A w \in Workers : \/ parked'[w] = parked[w]
                              \/ \E p \in Posters : pc'[p] = "notify" /\ pos'[p] = w,
           \A p \in Posters : pc[p] = "notify" => \/ pc'[p] = "notify" /\ pos'[p] = pos[p]
                                                  \/ wake'[pos[p]],
           \A p \in Posters : /\ pc'[p] = "wake" => pos'[p] >= 1
                              /\ pc'[p] = "notify" => pos'[p] \in Workers
    PROVE  Marks'
<1>1. ASSUME NEW w \in Workers, pc'[w] \in {"stop?", "commit", "asleep"}, parked'[w] = 0
      PROVE  wake'[w] \/ \E p \in Posters : pc'[p] = "notify" /\ pos'[p] = w
  <2>1. CASE parked'[w] = parked[w]
    <3>1. wake[w] \/ \E p \in Posters : pc[p] = "notify" /\ pos[p] = w
      BY <1>1, <2>1 DEF Marks
    <3> QED
      BY <3>1
  <2> QED
    BY <2>1
<1> QED
  BY <1>1 DEF Marks

\* A poster counts its job as queued: from here somebody must look for it (Awake).
LEMMA CountStep ==
    ASSUME IInv, NEW p \in Posters, Count(p)
    PROVE  IInv'
<1> USE DEF Count, Goto, ring, list, signals, history
<1>0. Shape /\ Ring /\ Tries /\ Accounts /\ Marks /\ Awake /\ Shut /\ Waits /\ queued \in Int
  BY Parts
<1>1. /\ p \in Threads /\ p \in Posters \cup Clients /\ pc[p] = "count"
      /\ pc' = [pc EXCEPT ![p] = "wake"]
  BY Roles
<1>2. pc'[p] = "wake" /\ \A u \in Threads : u # p => pc'[u] = pc[u]
  BY <1>0, <1>1, Elsewhere
<1>b. pos' \in [Threads -> Nat] /\ pos'[p] = 1 /\ \A u \in Threads : u # p => pos'[u] = pos[u]
  BY <1>0, <1>1 DEF Shape
<1>3. Ring' /\ Full' = Full /\ Emptying' = Emptying
  <2>1. \A u \in Threads : /\ \A k \in {"fill", "empty"} : pc'[u] = k <=> pc[u] = k
                           /\ pc[u] \in {"fill", "empty"} => pos'[u] = pos[u]
    BY <1>1, <1>2, <1>b
  <2> QED
    BY <1>0, <2>1, RingStays
<1>4. Shape'
  <2>3. Values'
    BY <1>0, <1>b DEF Shape, Values
  <2>4. Place(p, "wake")
    BY Roles DEF Place, PosterPlaces, HandedOver
  <2> QED
    BY <1>0, <1>1, <2>3, <2>4, ShapeMove
<1>5. Tries'
  <2>1. \A u \in Posters : pc'[u] = "try" => pos'[u] = pos[u]
    BY <1>2, <1>b, Roles
  <2> QED
    BY <1>0, <1>1, <2>1, TriesStay
<1>6. Accounts'
  BY <1>0, <1>1, <1>3, <1>4, AccountsCount
<1>7. Shut' /\ Waits'
  <2>1. Shut'
    BY <1>0, <1>1, ShutOutside
  <2> QED
    BY <1>0, <1>1, <2>1, WaitsStay
<1>8. Marks'
  <2>1. \A w \in Workers : pc'[w] = pc[w]
    BY <1>2, Roles
  <2>2. \A u \in Posters : pc[u] = "notify" => pc'[u] = "notify" /\ pos'[u] = pos[u]
    BY <1>1, <1>2, <1>b, Roles
  <2>3. \A u \in Posters : /\ pc'[u] = "wake" => pos'[u] >= 1
                           /\ pc'[u] = "notify" => pos'[u] \in Workers
    BY <1>0, <1>2, <1>b, Roles DEF Marks
  <2> QED
    BY <1>0, <2>1, <2>2, <2>3, MarksByPosters DEF Marks
<1>9. Awake'
  <2>1. SUFFICES ASSUME ~stop'
                 PROVE  /\ \E w \in Workers : pc'[w] # "exited"
                        /\ \/ \E w \in Workers : Going(w)'
                           \/ \E u \in Posters :
                                 pc'[u] = "wake" /\ \E w \in Workers : w >= pos'[u] /\ parked'[w] = 1
    BY DEF Awake
  <2>2. PICK w \in Workers : pc[w] # "exited"
    BY <1>0, <2>1 DEF Awake
  <2>3. pc'[w] = pc[w] /\ w \in Nat /\ w >= 1 /\ parked[w] \in {0, 1}
    BY <1>0, <1>2, Roles DEF Workers, Shape
  <2>4. CASE parked[w] = 1
    BY <1>2, <1>b, <2>2, <2>3, <2>4
  <2>5. CASE parked[w] = 0
    BY <2>2, <2>3, <2>5 DEF Going
  <2> QED
    BY <2>3, <2>4, <2>5
<1> QED
  BY <1>3, <1>4, <1>5, <1>6, <1>7, <1>8, <1>9, Parts

\* A poster that looks for a thread to wake.
LEMMA WakeMoves ==
    ASSUME IInv, NEW p \in Posters, pc[p] = "wake", NEW to \in {"wake", "notify"},
           pc' = [pc EXCEPT ![p] = to],
           pos' \in [Threads -> Nat], \A u \in Threads : u # p => pos'[u] = pos[u],
           parked' \in [Workers -> {0, 1}],
           UNCHANGED <<ring, list, counts, stop, wake, idle, job, next, history>>
    PROVE  Shape' /\ Ring' /\ Tries' /\ Accounts' /\ Shut' /\ Waits'
<1> USE DEF ring, list, counts, history
<1>0. Shape /\ Shut /\ Waits
  BY Parts
<1>1. /\ p \in Threads /\ p \in Posters \cup Clients /\ pc[p] # "fill" /\ pc[p] # "idle"
      /\ to # "fill" /\ to # "try" /\ to # "waited"
  BY Roles
<1>2. Place(p, to) /\ Alike(pc[p], to)
  BY Roles DEF Place, PosterPlaces, HandedOver, Alike
<1>3. stop' \in BOOLEAN /\ wake' \in [Workers -> BOOLEAN]
  BY <1>0 DEF Shape
<1>4. Shape' /\ Ring' /\ Tries' /\ Accounts'
  BY <1>1, <1>2, <1>3, Quiet
<1>5. Shut'
  BY <1>0, <1>1, ShutOutside
<1>6. Waits'
  BY <1>0, <1>1, WaitsStay
<1> QED
  BY <1>4, <1>5, <1>6

\* A poster looks at one worker's mark, and takes it.
LEMMA WakeOneStep ==
    ASSUME IInv, NEW p \in Posters, WakeOne(p)
    PROVE  IInv'
<1>0. Shape /\ Marks /\ Awake /\ p \in Threads /\ Workers \subseteq Threads /\ Posters \subseteq Threads
  BY Parts, Roles
<1> DEFINE v == pos[p]
<1>1. /\ pc[p] = "wake" /\ v \in Workers
      /\ UNCHANGED <<ring, list, counts, stop, wake, idle, job, next, history>>
  BY DEF WakeOne
<1>2. CASE parked[v] = 1
  <2>1. /\ parked' = [parked EXCEPT ![v] = 0] /\ pc' = [pc EXCEPT ![p] = "notify"] /\ pos' = pos
    BY <1>2 DEF WakeOne
  <2>2. /\ parked' \in [Workers -> {0, 1}] /\ parked'[v] = 0
        /\ \A w \in Workers : w # v => parked'[w] = parked[w]
    BY <1>0, <1>1, <2>1 DEF Shape
  <2>3. Shape' /\ Ring' /\ Tries' /\ Accounts' /\ Shut' /\ Waits'
    <3>1. pos' \in [Threads -> Nat] /\ \A u \in Threads : u # p => pos'[u] = pos[u]
      BY <1>0, <2>1 DEF Shape
    <3> QED
      BY <1>1, <2>1, <2>2, <3>1, WakeMoves
  <2>4. pc'[p] = "notify" /\ \A u \in Threads : u # p => pc'[u] = pc[u]
    BY <1>0, <2>1, Elsewhere
  <2>5. \A w \in Workers : pc'[w] = pc[w]
    BY <1>0, <2>4, Roles
  <2>a. \A w \in Workers : w # v => parked'[w] = parked[w]
    BY <2>2
  <2>b. wake' = wake /\ stop' = stop /\ queued' = queued
    BY <1>1 DEF counts
  <2> HIDE DEF v
  <2>6. Marks'
    <3>1. \A w \in Workers : \/ parked'[w] = parked[w]
                             \/ \E u \in Posters : pc'[u] = "notify" /\ pos'[u] = w
      BY <2>1, <2>4, <2>a DEF v
    <3>2. \A u \in Posters : pc[u] = "notify" => pc'[u] = "notify" /\ pos'[u] = pos[u]
      BY <1>0, <1>1, <2>1, <2>4
    <3>3. \A u \in Posters : /\ pc'[u] = "wake" => pos'[u] >= 1
                             /\ pc'[u] = "notify" => pos'[u] \in Workers
      BY <1>0, <1>1, <2>1, <2>4 DEF Marks, v
    <3>4. \A w \in Workers : pc[w] \in TakerPlaces \cup {"mark", "exited"} => parked'[w] = 0
      BY <1>0, <2>2 DEF Marks
    <3> QED
      BY <1>0, <2>5, <2>b, <3>1, <3>2, <3>3, <3>4, MarksByPosters
  <2>7. Awake'
    <3>1. pc[v] # "exited"
      BY <1>0, <1>1, <1>2 DEF Marks
    <3>2. ASSUME NEW w \in Workers, w = v PROVE Going(w)' /\ pc'[w] # "exited"
      BY <2>2, <2>5, <3>1, <3>2 DEF Going
    <3>3. \E w \in Workers : Going(w)' /\ pc'[w] # "exited"
      BY <1>1, <3>2
    <3> QED
      BY <3>3 DEF Awake
  <2> QED
    BY <2>3, <2>6, <2>7, Parts
<1>3. CASE parked[v] # 1
  <2>1. pos' = [pos EXCEPT ![p] = @ + 1] /\ parked' = parked /\ pc' = pc
    BY <1>3 DEF WakeOne
  <2>2. /\ pos' \in [Threads -> Nat] /\ pos'[p] = v + 1 /\ v \in Nat
        /\ \A u \in Threads : u # p => pos'[u] = pos[u]
    BY <1>0, <2>1 DEF Shape
  <2>b. wake' = wake /\ stop' = stop /\ queued' = queued
    BY <1>1 DEF counts
  <2> HIDE DEF v
  <2>3. Shape' /\ Ring' /\ Tries' /\ Accounts' /\ Shut' /\ Waits'
    <3>1. pc' = [pc EXCEPT ![p] = "wake"]
      BY <1>0, <1>1, <2>1 DEF Shape
    <3>2. parked' \in [Workers -> {0, 1}]
      BY <1>0, <2>1 DEF Shape
    <3> QED
      BY <1>1, <2>2, <3>1, <3>2, WakeMoves
  <2>4. Marks'
    <3>1. \A u \in Posters : pc[u] = "notify" => pc'[u] = "notify" /\ pos'[u] = pos[u]
      BY <1>0, <1>1, <2>1, <2>2
    <3>2. \A u \in Posters : /\ pc'[u] = "wake" => pos'[u] >= 1
                             /\ pc'[u] = "notify" => pos'[u] \in Workers
      BY <1>0, <1>1, <2>1, <2>2 DEF Marks
    <3> QED
      BY <1>0, <2>1, <2>b, <3>1, <3>2, MarksByPosters DEF Marks
  <2>5. Awake'
    <3>1. \A w \in Workers : Going(w) => Going(w)'
      BY <2>1, <2>b DEF Going
    <3>2. ASSUME NEW u \in Posters, pc[u] = "wake", NEW w \in Workers, w >= pos[u], parked[w] = 1
          PROVE  pc'[u] = "wake" /\ w >= pos'[u] /\ parked'[w] = 1
      <4>1. CASE u = p
        <5>1. w # v /\ w \in Nat /\ w >= v
          BY <1>3, <3>2, <4>1 DEF Workers, v
        <5> QED
          BY <3>2, <4>1, <5>1, <2>1, <2>2
      <4>2. CASE u # p
        BY <1>0, <3>2, <4>2, <2>1, <2>2
      <4> QED
        BY <4>1, <4>2
    <3> QED
      BY <1>0, <2>1, <2>b, <3>1, <3>2 DEF Awake
  <2> QED
    BY <2>3, <2>4, <2>5, Parts
<1> QED
  BY <1>2, <1>3

\* tpool_add_work returns.
LEMMA PostedMoves ==
    ASSUME IInv, NEW p \in Posters, pc[p] \in {"wake", "notify"}, pc' = [pc EXCEPT ![p] = "idle"],
           Posted(p), wake' \in [Workers -> BOOLEAN],
           UNCHANGED <<ring, list, counts, stop, parked, idle, history>>
    PROVE  /\ Shape' /\ Ring' /\ Tries' /\ Accounts' /\ Shut' /\ Waits'
           /\ pc'[p] = "idle" /\ \A u \in Threads : u # p => pc'[u] = pc[u] /\ pos'[u] = pos[u]
<1> USE DEF Posted, ring, list, counts, history
<1>0. Shape /\ Ring /\ Tries /\ Accounts /\ Shut /\ Waits /\ queued \in Int
  BY Parts
<1>1. p \in Threads /\ p \in Posters \cup Clients /\ pc[p] # "idle"
  BY Roles
<1>2. pc'[p] = "idle" /\ \A u \in Threads : u # p => pc'[u] = pc[u]
  BY <1>0, <1>1, Elsewhere
<1>b. pos' \in [Threads -> Nat] /\ \A u \in Threads : u # p => pos'[u] = pos[u]
  BY <1>0, <1>1 DEF Shape
<1>3. Ring' /\ Full' = Full /\ Emptying' = Emptying
  <2>1. \A u \in Threads : /\ \A k \in {"fill", "empty"} : pc'[u] = k <=> pc[u] = k
                           /\ pc[u] \in {"fill", "empty"} => pos'[u] = pos[u]
    BY <1>1, <1>2, <1>b
  <2> QED
    BY <1>0, <2>1, RingStays
<1>4. Shape'
  <2>1. next' \in [Posters -> Nat \ {0}]
    BY <1>0 DEF Shape
  <2>2. job' \in [Threads -> Jobs \cup {None}]
    BY <1>0, <1>1 DEF Shape
  <2>3. Values'
    BY <1>0, <1>b, <2>1, <2>2 DEF Shape, Values
  <2>4. Place(p, "idle")
    BY Roles DEF Place, PosterPlaces
  <2> QED
    BY <1>0, <1>1, <2>3, <2>4, ShapeMove
<1>5. Tries'
  <2>1. \A u \in Posters : pc'[u] = "try" => pos'[u] = pos[u]
    BY <1>2, <1>b, Roles
  <2> QED
    BY <1>0, <1>1, <2>1, TriesStay
<1>6. Accounts'
  BY <1>0, <1>1, <1>3, <1>4, AccountsPosted
<1>7. Shut'
  BY <1>0, <1>1, ShutOutside
<1>8. Waits'
  <2>1. \E u \in Posters : next' = [next EXCEPT ![u] = @ + 1]
    BY Zenon
  <2>2. asked' = asked /\ done \subseteq done' /\ dropped \subseteq dropped' /\ "idle" # "waited"
    OBVIOUS
  <2> QED
    BY <1>0, <1>1, <2>1, <2>2, WaitsStay
<1> QED
  BY <1>2, <1>b, <1>3, <1>4, <1>5, <1>6, <1>7, <1>8

\* A poster wakes the worker whose mark it took.
LEMMA NotifyWorkerStep ==
    ASSUME IInv, NEW p \in Posters, NotifyWorker(p)
    PROVE  IInv'
<1>0. Shape /\ Marks /\ Awake /\ p \in Threads /\ Workers \subseteq Threads /\ Posters \subseteq Threads
  BY Parts, Roles
<1> DEFINE v == pos[p]
<1>1. /\ pc[p] = "notify" /\ pc' = [pc EXCEPT ![p] = "idle"]
      /\ wake' = [wake EXCEPT ![v] = TRUE] /\ Posted(p)
      /\ UNCHANGED <<ring, list, counts, stop, parked, idle, history>>
  BY DEF NotifyWorker, Goto
<1>2. v \in Workers
  BY <1>0, <1>1 DEF Marks
<1>3. /\ wake' \in [Workers -> BOOLEAN] /\ wake'[v] = TRUE
      /\ \A w \in Workers : w # v => wake'[w] = wake[w]
  BY <1>0, <1>1, <1>2 DEF Shape
<1>4. /\ Shape' /\ Ring' /\ Tries' /\ Accounts' /\ Shut' /\ Waits'
      /\ pc'[p] = "idle" /\ \A u \in Threads : u # p => pc'[u] = pc[u] /\ pos'[u] = pos[u]
  BY <1>1, <1>3, PostedMoves
<1>5. \A w \in Workers : pc'[w] = pc[w] /\ (wake[w] => wake'[w]) /\ parked'[w] = parked[w]
  BY <1>0, <1>1, <1>3, <1>4, Roles
<1>6. stop' = stop /\ queued' = queued
  BY <1>1 DEF counts
<1> HIDE DEF v
<1>7. Marks'
  <2>1. \A u \in Posters : pc[u] = "notify" => \/ pc'[u] = "notify" /\ pos'[u] = pos[u]
                                               \/ wake'[pos[u]]
    BY <1>0, <1>3, <1>4 DEF v
  <2>2. \A u \in Posters : /\ pc'[u] = "wake" => pos'[u] >= 1
                           /\ pc'[u] = "notify" => pos'[u] \in Workers
    BY <1>0, <1>4 DEF Marks
  <2>3. \A w \in Workers : pc[w] \in TakerPlaces \cup {"mark", "exited"} => parked'[w] = 0
    BY <1>0, <1>5 DEF Marks
  <2> QED
    BY <1>0, <1>5, <2>1, <2>2, <2>3, MarksByPosters
<1>8. Awake'
  <2>1. \A w \in Workers : Going(w) => Going(w)'
    BY <1>5 DEF Going
  <2>2. \A u \in Posters : pc[u] = "wake" => pc'[u] = "wake" /\ pos'[u] = pos[u]
    BY <1>0, <1>1, <1>4
  <2> QED
    BY <1>0, <1>5, <1>6, <2>1, <2>2 DEF Awake
<1> QED
  BY <1>4, <1>7, <1>8, Parts

\* A poster found no mark: the workers it passed were on their way to look.
LEMMA NobodyParkedStep ==
    ASSUME IInv, NEW p \in Posters, NobodyParked(p)
    PROVE  IInv'
<1>0. Shape /\ Marks /\ Awake /\ p \in Threads /\ Workers \subseteq Threads /\ Posters \subseteq Threads
  BY Parts, Roles
<1>1. /\ pc[p] = "wake" /\ pos[p] \notin Workers /\ pc' = [pc EXCEPT ![p] = "idle"]
      /\ wake' = wake /\ Posted(p)
      /\ UNCHANGED <<ring, list, counts, stop, parked, idle, history>>
  BY DEF NobodyParked, Goto, signals
<1>2. \A w \in Workers : ~(w >= pos[p])
  <2>1. pos[p] \in Nat /\ pos[p] >= 1 /\ NumThreads \in Nat
    BY <1>0, <1>1, TPoolAssumption DEF Marks, Shape
  <2> QED
    BY <1>1, <2>1 DEF Workers
<1>3. wake' \in [Workers -> BOOLEAN]
  BY <1>0, <1>1 DEF Shape
<1>4. /\ Shape' /\ Ring' /\ Tries' /\ Accounts' /\ Shut' /\ Waits'
      /\ pc'[p] = "idle" /\ \A u \in Threads : u # p => pc'[u] = pc[u] /\ pos'[u] = pos[u]
  BY <1>1, <1>3, PostedMoves
<1>5. \A w \in Workers : pc'[w] = pc[w] /\ wake'[w] = wake[w] /\ parked'[w] = parked[w]
  BY <1>0, <1>1, <1>4, Roles
<1>6. stop' = stop /\ queued' = queued
  BY <1>1 DEF counts
<1>7. Marks'
  <2>1. \A u \in Posters : pc[u] = "notify" => pc'[u] = "notify" /\ pos'[u] = pos[u]
    BY <1>0, <1>1, <1>4
  <2>2. \A u \in Posters : /\ pc'[u] = "wake" => pos'[u] >= 1
                           /\ pc'[u] = "notify" => pos'[u] \in Workers
    BY <1>0, <1>4 DEF Marks
  <2>3. \A w \in Workers : pc[w] \in TakerPlaces \cup {"mark", "exited"} => parked'[w] = 0
    BY <1>0, <1>5 DEF Marks
  <2> QED
    BY <1>0, <1>5, <2>1, <2>2, <2>3, MarksByPosters
<1>8. Awake'
  <2>1. \A w \in Workers : Going(w) => Going(w)'
    BY <1>5 DEF Going
  <2>2. \A u \in Posters : pc[u] = "wake" /\ u # p => pc'[u] = "wake" /\ pos'[u] = pos[u]
    BY <1>0, <1>1, <1>4
  <2> QED
    BY <1>0, <1>2, <1>5, <1>6, <2>1, <2>2 DEF Awake
<1> QED
  BY <1>4, <1>7, <1>8, Parts

(***************************************************************************)
(* Retiring, by a poster or by a taker.                                    *)
(***************************************************************************)
\* Where a thread goes from there.
LEMMA HomePlace ==
    ASSUME NEW t \in Threads, t # Destroyer
    PROVE  /\ Home(t) \in {"take", "idle"} /\ Place(t, Home(t)) /\ Place(t, "notifyidle")
           /\ t \in Workers => Home(t) = "take"
<1>1. Home(t) = IF t \in Workers THEN "take" ELSE "idle"
  BY DEF Home
<1> QED
  BY <1>1, Roles DEF Place, PosterPlaces, WorkerPlaces, ClientPlaces, TakerPlaces

\* A thread on its way home, once it is done with a job.
LEMMA HomeRest ==
    ASSUME IInv, NEW t \in Threads, t # Destroyer, pc[t] \in {"retire", "notifyidle"},
           NEW to, to = Home(t) \/ to = "notifyidle", pc' = [pc EXCEPT ![t] = to],
           UNCHANGED <<enq, deq, seq, slot, list, queued, stop, parked, wake, next, history>>,
           \A u \in Threads : u # t => pos'[u] = pos[u],
           Full' = Full, Emptying' = Emptying
    PROVE  Marks' /\ Awake' /\ Shut' /\ Waits'
<1> USE DEF list, history
<1>0. queued \in Int
  BY Parts
<1>1. /\ UNCHANGED <<parked, wake, stop, next, asked>> /\ queued' \in Int /\ queued' <= queued
      /\ done \subseteq done' /\ dropped \subseteq dropped' /\ over' = over
      /\ Full' \ Emptying' \subseteq Full \ Emptying
  BY <1>0
<1>2. /\ to \in {"take", "idle", "notifyidle"} /\ (t \in Workers => to # "idle")
      /\ pc[t] # "idle" /\ pc[t] \notin {"wake", "notify"} /\ to \notin {"wake", "notify", "waited"}
  BY HomePlace
<1>3. CASE t \in Posters \cup Clients
  BY <1>1, <1>2, <1>3, OutsideRest
<1>4. CASE t \in Workers
  <2>1. pc[t] \in TakerPlaces /\ to \in TakerPlaces
    BY <1>2, <1>4 DEF TakerPlaces, Taking, Taken
  <2> QED
    BY <1>1, <1>4, <2>1, WorkerRest
<1> QED
  BY <1>3, <1>4, Roles

\* A thread gives up a job it had counted outstanding.
LEMMA RetireStep ==
    ASSUME IInv, NEW t \in Threads, t # Destroyer, Retire(t)
    PROVE  IInv'
<1> USE DEF ring, list, signals, history
<1> DEFINE to == IF outstanding = 1 THEN "notifyidle" ELSE Home(t)
<1>0. Shape /\ Ring /\ Tries /\ Accounts
  BY Parts
<1>1. /\ pc[t] = "retire" /\ pc' = [pc EXCEPT ![t] = to]
      /\ outstanding' = outstanding - 1 /\ job' = [job EXCEPT ![t] = None]
      /\ pos' = [pos EXCEPT ![t] = 0]
      /\ UNCHANGED <<ring, list, queued, stop, signals, next, history>>
  BY DEF Retire, Goto
<1>2. /\ to \in {"notifyidle", "take", "idle"} /\ Place(t, to) /\ (to = Home(t) \/ to = "notifyidle")
  BY HomePlace
<1> HIDE DEF to
<1>3. pc'[t] = to /\ \A u \in Threads : u # t => pc'[u] = pc[u]
  BY <1>0, <1>1, Elsewhere
<1>b. pos' \in [Threads -> Nat] /\ \A u \in Threads : u # t => pos'[u] = pos[u]
  BY <1>0, <1>1 DEF Shape
<1>4. Ring' /\ Full' = Full /\ Emptying' = Emptying
  <2>1. \A u \in Threads : /\ \A k \in {"fill", "empty"} : pc'[u] = k <=> pc[u] = k
                           /\ pc[u] \in {"fill", "empty"} => pos'[u] = pos[u]
    BY <1>1, <1>2, <1>3, <1>b
  <2> QED
    BY <1>0, <1>1, <2>1, RingStays
<1>5. Shape'
  <2>1. job' \in [Threads -> Jobs \cup {None}]
    BY <1>0, <1>1 DEF Shape
  <2>2. Values'
    BY <1>0, <1>1, <1>b, <2>1 DEF Shape, Values
  <2> QED
    BY <1>0, <1>1, <1>2, <2>2, ShapeMove
<1>6. Tries'
  <2>1. \A u \in Posters : pc'[u] = "try" => pos'[u] = pos[u]
    BY <1>2, <1>3, <1>b, Roles
  <2> QED
    BY <1>0, <1>1, <1>2, <2>1, TriesStay
<1>7. Accounts'
  BY <1>0, <1>1, <1>2, <1>4, <1>5, AccountsRetire
<1>8. Marks' /\ Awake' /\ Shut' /\ Waits'
  BY <1>1, <1>2, <1>4, <1>b, HomeRest
<1> QED
  BY <1>4, <1>5, <1>6, <1>7, <1>8, Parts

\* The thread that retired the last job wakes the waiting clients.
LEMMA NotifyIdleStep ==
    ASSUME IInv, NEW t \in Threads, t # Destroyer, NotifyIdle(t)
    PROVE  IInv'
<1> USE DEF ring, list, counts, history
<1> DEFINE to == Home(t)
<1>0. Shape
  BY Parts
<1>1. /\ pc[t] = "notifyidle" /\ pc' = [pc EXCEPT ![t] = to]
      /\ UNCHANGED <<ring, list, counts, stop, parked, wake, job, pos, next, history>>
  BY DEF NotifyIdle, Goto
<1>2. to \in {"take", "idle"} /\ Place(t, to) /\ to = Home(t)
  BY HomePlace
<1> HIDE DEF to
<1>3. Alike(pc[t], to) /\ pc[t] # "fill" /\ to # "fill" /\ to # "try"
  BY <1>1, <1>2 DEF Alike, Posting, HandedOver, Taking, Taken
<1>4. /\ pos' \in [Threads -> Nat] /\ pos' = pos /\ stop' \in BOOLEAN
      /\ parked' \in [Workers -> {0, 1}] /\ wake' \in [Workers -> BOOLEAN]
  BY <1>0, <1>1 DEF Shape
<1>5. Shape' /\ Ring' /\ Tries' /\ Accounts' /\ Full' = Full /\ Emptying' = Emptying
  BY <1>1, <1>2, <1>3, <1>4, Quiet
<1>6. Marks' /\ Awake' /\ Shut' /\ Waits'
  BY <1>1, <1>2, <1>4, <1>5, HomeRest
<1> QED
  BY <1>5, <1>6, Parts

(***************************************************************************)
(* Taking and running.                                                     *)
(***************************************************************************)
\* A step of tpool_destroy.
LEMMA ShutDestroyer ==
    ASSUME Shape, Shut,
           \/ pc[Destroyer] # "idle"
           \/ \A t \in Posters \cup Clients : pc[t] = "idle",
           NEW to, pc' = [pc EXCEPT ![Destroyer] = to],
           stop' <=> to \in {"notifyall", "join", "destroyed"},
           to \in {"takeover", "none", "notifyall", "join", "destroyed"} => Full' \ Emptying' = {},
           to \in {"none", "notifyall", "join", "destroyed"} => over' = <<>>,
           to = "destroyed" => \A w \in Workers : pc[w] = "exited"
    PROVE  Shut'
<1>1. /\ Destroyer \in Threads /\ Workers \subseteq Threads /\ Posters \cup Clients \subseteq Threads
      /\ Destroyer \notin Workers /\ Destroyer \notin Posters \cup Clients
  BY Roles
<1>2. pc'[Destroyer] = to /\ \A u \in Threads : u # Destroyer => pc'[u] = pc[u]
  BY <1>1, Elsewhere
<1>3. \A t \in Posters \cup Clients : pc'[t] = "idle"
  <2>1. \A t \in Posters \cup Clients : pc[t] = "idle"
    BY DEF Shut
  <2> QED
    BY <1>1, <1>2, <2>1
<1>4. to = "destroyed" => \A w \in Workers : pc'[w] = "exited"
  BY <1>1, <1>2
<1> QED
  BY <1>2, <1>3, <1>4 DEF Shut

\* Places of a taker.
LEMMA TakerPlace ==
    ASSUME NEW t \in Takers, NEW to \in {"take", "takeover", "none", "empty", "uncount"}
    PROVE  Place(t, to) /\ to \in TakerPlaces /\ to \in DestroyerPlaces
BY Roles DEF Place, WorkerPlaces, ClientPlaces, TakerPlaces, DestroyerPlaces, Taking, Taken

\* A taker that finds nothing where it looked.
LEMMA LookOn ==
    ASSUME IInv, NEW t \in Takers, pc[t] \in {"take", "takeover"}, NEW to \in {"takeover", "none"},
           pc' = [pc EXCEPT ![t] = to],
           UNCHANGED <<ring, list, counts, stop, signals, job, pos, next, history>>
    PROVE  Shape' /\ Ring' /\ Tries' /\ Accounts' /\ Full' = Full /\ Emptying' = Emptying
<1> USE DEF ring, list, counts, signals, history
<1>0. Shape /\ t \in Threads
  BY Parts, Roles
<1>1. /\ pos' \in [Threads -> Nat] /\ pos' = pos /\ stop' \in BOOLEAN
      /\ parked' \in [Workers -> {0, 1}] /\ wake' \in [Workers -> BOOLEAN]
  BY <1>0 DEF Shape
<1>2. Alike(pc[t], to) /\ pc[t] # "fill" /\ to # "fill" /\ to # "try"
  BY DEF Alike, Posting, HandedOver, Taking, Taken
<1>3. Place(t, to)
  BY TakerPlace
<1> QED
  BY <1>0, <1>1, <1>2, <1>3, Quiet

\* A taker that claims the head of the ring.
LEMMA TakeClaims ==
    ASSUME IInv, NEW t \in Takers, pc[t] = "take", Dif(SeqAt(deq), Plus(deq, 1)) = 0,
           pc' = [pc EXCEPT ![t] = "empty"], pos' = [pos EXCEPT ![t] = deq], deq' = Plus(deq, 1),
           UNCHANGED <<enq, seq, slot, list, counts, stop, signals, job, next, history>>
    PROVE  /\ Shape' /\ Ring' /\ Tries' /\ Accounts'
           /\ Full' \ Emptying' \subseteq Full \ Emptying
           /\ \A u \in Threads : u # t => pos'[u] = pos[u]
<1> USE DEF list, counts, signals, history
<1>0. Shape /\ Ring /\ Tries /\ Accounts /\ t \in Threads /\ t \notin Posters
  BY Parts, Roles
<1>1. deq \in Nat
  <2>1. PICK E \in Nat, D \in Nat : RingAt(E, D)
    BY <1>0 DEF Ring
  <2>2. deq = Turn(D) /\ Turn(D) \in 0..(Wrap - 1)
    BY <2>1, TurnsAndSlots DEF RingAt
  <2> QED
    BY <2>2, Sizes
<1>2. pos' \in [Threads -> Nat] /\ \A u \in Threads : u # t => pos'[u] = pos[u]
  BY <1>0, <1>1 DEF Shape
<1> DEFINE i == deq % QueueSize
<1>3. Ring' /\ i \in Full \ Emptying /\ Full' = Full /\ Emptying' = Emptying \cup {i}
  BY <1>0, RingTake
<1>4. Shape'
  <2>1. Values'
    BY <1>0, <1>2 DEF Shape, Values
  <2>2. Place(t, "empty")
    BY TakerPlace
  <2> QED
    BY <1>0, <2>1, <2>2, ShapeMove
<1>5. Tries'
  <2>1. \A u \in Posters : pc'[u] = "try" => pos'[u] = pos[u]
    BY <1>0, <1>2, Roles
  <2> QED
    BY <1>0, <2>1, TriesStay
<1> HIDE DEF i
<1>6. Accounts'
  BY <1>0, <1>3, <1>4, AccountsTake
<1> QED
  BY <1>2, <1>3, <1>4, <1>5, <1>6

\* A taker claims a slot, or finds the ring empty.
LEMMA TakeRingStep ==
    ASSUME IInv, NEW t \in Takers, TakeRing(t)
    PROVE  IInv'
<1>0. Shape /\ Ring /\ Shut /\ queued \in Int /\ t \in Threads
  BY Parts, Roles
<1>1. CASE Dif(SeqAt(deq), Plus(deq, 1)) < 0 /\ Goto(t, "take", "takeover") /\ UNCHANGED <<deq, pos>>
  <2>1. /\ pc[t] = "take" /\ pc' = [pc EXCEPT ![t] = "takeover"] /\ pos' = pos
        /\ UNCHANGED <<ring, list, counts, stop, signals, job, pos, next, history>>
    BY <1>1 DEF TakeRing, Goto, ring
  <2>2. Shape' /\ Ring' /\ Tries' /\ Accounts' /\ Full' = Full /\ Emptying' = Emptying
    BY <2>1, LookOn
  <2>3. /\ UNCHANGED <<parked, wake, stop, next, asked>> /\ queued' \in Int /\ queued' <= queued
        /\ done \subseteq done' /\ dropped \subseteq dropped' /\ over' = over
        /\ Full' \ Emptying' \subseteq Full \ Emptying
    BY <1>0, <2>1, <2>2 DEF list, counts, signals, history
  <2>4. pc[t] \in TakerPlaces /\ "takeover" \in TakerPlaces /\ "takeover" \in DestroyerPlaces
    BY <2>1 DEF TakerPlaces, DestroyerPlaces
  <2>5. CASE t # Destroyer
    <3>1. Marks' /\ Awake' /\ Shut' /\ Waits'
      BY <2>1, <2>3, <2>4, <2>5, TakerRest
    <3> QED
      BY <2>2, <3>1, Parts
  <2>6. CASE t = Destroyer
    <3>1. Marks' /\ Awake' /\ Waits'
      BY <2>1, <2>3, <2>4, <2>6, DestroyerRest
    <3>2. Full \ Emptying = {}
      <4>1. \A p \in Posters : pc[p] # "fill"
        BY <1>0, <2>1, <2>6 DEF Shut
      <4> QED
        BY <1>0, <1>1, <4>1, RingDrained
    <3>3. stop' <=> "takeover" \in {"notifyall", "join", "destroyed"}
      BY <1>0, <2>1, <2>6 DEF Shut
    <3>4. Shut'
      BY <1>0, <2>1, <2>2, <2>6, <3>2, <3>3, ShutDestroyer
    <3> QED
      BY <2>2, <3>1, <3>4, Parts
  <2> QED
    BY <2>5, <2>6
<1>2. CASE /\ Dif(SeqAt(deq), Plus(deq, 1)) = 0 /\ Goto(t, "take", "empty")
           /\ pos' = [pos EXCEPT ![t] = deq] /\ deq' = Plus(deq, 1)
  <2>1. /\ pc[t] = "take" /\ pc' = [pc EXCEPT ![t] = "empty"]
        /\ UNCHANGED <<enq, seq, slot, list, counts, stop, signals, job, next, history>>
    BY <1>2 DEF TakeRing, Goto
  <2>2. /\ Shape' /\ Ring' /\ Tries' /\ Accounts'
        /\ Full' \ Emptying' \subseteq Full \ Emptying
        /\ \A u \in Threads : u # t => pos'[u] = pos[u]
    BY <1>2, <2>1, TakeClaims
  <2>3. /\ UNCHANGED <<parked, wake, stop, next, asked>> /\ queued' \in Int /\ queued' <= queued
        /\ done \subseteq done' /\ dropped \subseteq dropped' /\ over' = over
    BY <1>0, <2>1 DEF list, counts, signals, history
  <2>4. pc[t] \in TakerPlaces /\ "empty" \in TakerPlaces /\ "empty" \in DestroyerPlaces
    BY <2>1 DEF TakerPlaces, DestroyerPlaces, Taking
  <2>5. CASE t # Destroyer
    <3>1. Marks' /\ Awake' /\ Shut' /\ Waits'
      BY <2>1, <2>2, <2>3, <2>4, <2>5, TakerRest
    <3> QED
      BY <2>2, <3>1, Parts
  <2>6. CASE t = Destroyer
    <3>1. Marks' /\ Awake' /\ Waits'
      BY <2>1, <2>2, <2>3, <2>4, <2>6, DestroyerRest
    <3>3. stop' <=> "empty" \in {"notifyall", "join", "destroyed"}
      BY <1>0, <2>1, <2>6 DEF Shut
    <3>4. Shut'
      BY <1>0, <2>1, <2>6, <3>3, ShutDestroyer
    <3> QED
      BY <2>2, <3>1, <3>4, Parts
  <2> QED
    BY <2>5, <2>6
<1> QED
  BY <1>1, <1>2 DEF TakeRing

\* A taker takes the job out of its slot and gives the slot back.
LEMMA EmptyStep ==
    ASSUME IInv, NEW t \in Takers, Empty(t)
    PROVE  IInv'
<1> USE DEF Empty, Goto, list, counts, signals, history
<1>0. Shape /\ Ring /\ Tries /\ Accounts /\ Shut /\ queued \in Int /\ t \in Threads
  BY Parts, Roles
<1> DEFINE i == pos[t] % QueueSize
<1>1. /\ pc[t] = "empty" /\ pc' = [pc EXCEPT ![t] = "uncount"]
  OBVIOUS
<1>2. pos' \in [Threads -> Nat] /\ \A u \in Threads : u # t => pos'[u] = pos[u]
  BY <1>0 DEF Shape
<1>3. Ring' /\ i \in Full \cap Emptying /\ Full' = Full \ {i} /\ Emptying' = Emptying \ {i}
  BY <1>0, RingEmpty
<1>4. Shape'
  <2>1. Plus(pos[t], QueueSize) \in 0..(Wrap - 1)
    <3>1. pos[t] + QueueSize \in Nat
      BY <1>0, Sizes DEF Shape
    <3> QED
      BY <3>1, Sizes, QuotientRemainder DEF Plus
  <2>2. slot[i] \in Jobs \cup {None}
    <3>1. i \in Slots
      BY <1>3 DEF Full
    <3> QED
      BY <1>0, <3>1 DEF Shape
  <2>3. seq' \in [Slots -> 0..(Wrap - 1)]
    BY <1>0, <2>1 DEF Shape
  <2>4. job' \in [Threads -> Jobs \cup {None}]
    BY <1>0, <2>2 DEF Shape
  <2>5. Values'
    BY <1>0, <1>2, <2>3, <2>4 DEF Shape, Values
  <2>6. Place(t, "uncount")
    BY TakerPlace
  <2> QED
    BY <1>0, <1>1, <2>5, <2>6, ShapeMove
<1>5. Tries'
  <2>1. \A u \in Posters : pc'[u] = "try" => pos'[u] = pos[u]
    BY <1>2, Roles
  <2> QED
    BY <1>0, <1>1, <2>1, TriesElsewhere
<1>6. Accounts'
  <2>1. job' = [job EXCEPT ![t] = slot[i]]
    OBVIOUS
  <2> HIDE DEF i
  <2> QED
    BY <1>0, <1>1, <1>3, <1>4, <2>1, AccountsEmpty
<1>7. /\ UNCHANGED <<parked, wake, stop, next, asked>> /\ queued' \in Int /\ queued' <= queued
      /\ done \subseteq done' /\ dropped \subseteq dropped' /\ over' = over
      /\ Full' \ Emptying' \subseteq Full \ Emptying
  BY <1>0, <1>3
<1>8. pc[t] \in TakerPlaces /\ "uncount" \in TakerPlaces /\ "uncount" \in DestroyerPlaces
  BY <1>1 DEF TakerPlaces, DestroyerPlaces, Taking, Taken
<1>9. CASE t # Destroyer
  <2>1. Marks' /\ Awake' /\ Shut' /\ Waits'
    BY <1>1, <1>2, <1>7, <1>8, <1>9, TakerRest
  <2> QED
    BY <1>3, <1>4, <1>5, <1>6, <2>1, Parts
<1>10. CASE t = Destroyer
  <2>1. Marks' /\ Awake' /\ Waits'
    BY <1>1, <1>2, <1>7, <1>8, <1>10, DestroyerRest
  <2>2. stop' <=> "uncount" \in {"notifyall", "join", "destroyed"}
    BY <1>0, <1>1, <1>7, <1>10 DEF Shut
  <2>3. Shut'
    BY <1>0, <1>1, <1>10, <2>2, ShutDestroyer
  <2> QED
    BY <1>3, <1>4, <1>5, <1>6, <2>1, <2>3, Parts
<1> QED
  BY <1>9, <1>10

\* A taker that takes the head of the overflow.
LEMMA TakesOver ==
    ASSUME IInv, NEW t \in Takers, pc[t] = "takeover", pc' = [pc EXCEPT ![t] = "uncount"],
           over # <<>>, over' = Tail(over), job' = [job EXCEPT ![t] = Head(over)],
           UNCHANGED <<ring, counts, stop, signals, pos, next, history>>
    PROVE  Shape' /\ Ring' /\ Tries' /\ Accounts' /\ Full' = Full /\ Emptying' = Emptying
<1> USE DEF ring, counts, signals, history
<1>0. Shape /\ Ring /\ Tries /\ Accounts /\ t \in Threads
  BY Parts, Roles
<1>1. pc'[t] = "uncount" /\ \A u \in Threads : u # t => pc'[u] = pc[u]
  BY <1>0, Elsewhere
<1>2. Ring' /\ Full' = Full /\ Emptying' = Emptying
  <2>1. \A u \in Threads : /\ \A k \in {"fill", "empty"} : pc'[u] = k <=> pc[u] = k
                           /\ pc[u] \in {"fill", "empty"} => pos'[u] = pos[u]
    BY <1>1
  <2> QED
    BY <1>0, <2>1, RingStays
<1>3. Shape'
  <2>1. over' \in Seq(Jobs) /\ Head(over) \in Jobs
    BY <1>0, OverflowShrinks DEF Accounts
  <2>2. job' \in [Threads -> Jobs \cup {None}]
    BY <1>0, <2>1 DEF Shape
  <2>3. Values'
    BY <1>0, <2>1, <2>2 DEF Shape, Values
  <2>4. Place(t, "uncount")
    BY TakerPlace
  <2> QED
    BY <1>0, <2>3, <2>4, ShapeMove
<1>4. Tries'
  BY <1>0, TriesStay
<1>5. Accounts'
  BY <1>0, <1>2, <1>3, AccountsTakeOver
<1> QED
  BY <1>2, <1>3, <1>4, <1>5

\* A taker takes the first job of the overflow list, or finds it empty.
LEMMA TakeOverStep ==
    ASSUME IInv, NEW t \in Takers, TakeOver(t)
    PROVE  IInv'
<1>0. Shape /\ Shut /\ queued \in Int /\ t \in Threads
  BY Parts, Roles
<1>a. /\ UNCHANGED <<ring, counts, stop, signals, pos, next, history>> /\ pos' = pos
  BY DEF TakeOver
<1>b. /\ UNCHANGED <<parked, wake, stop, next, asked>> /\ queued' \in Int /\ queued' <= queued
      /\ done \subseteq done' /\ dropped \subseteq dropped'
  BY <1>0, <1>a DEF counts, signals, history
<1>1. CASE over = <<>>
  <2>1. /\ pc[t] = "takeover" /\ pc' = [pc EXCEPT ![t] = "none"] /\ UNCHANGED <<list, job>>
    BY <1>1 DEF TakeOver, Goto
  <2>2. Shape' /\ Ring' /\ Tries' /\ Accounts' /\ Full' = Full /\ Emptying' = Emptying
    BY <1>a, <2>1, LookOn
  <2>3. over' = over /\ Full' \ Emptying' \subseteq Full \ Emptying
    BY <2>1, <2>2 DEF list
  <2>4. pc[t] \in TakerPlaces /\ "none" \in TakerPlaces /\ "none" \in DestroyerPlaces
    BY <2>1 DEF TakerPlaces, DestroyerPlaces
  <2>5. CASE t # Destroyer
    <3>1. Marks' /\ Awake' /\ Shut' /\ Waits'
      BY <1>a, <1>b, <2>1, <2>3, <2>4, <2>5, TakerRest
    <3> QED
      BY <2>2, <3>1, Parts
  <2>6. CASE t = Destroyer
    <3>1. Marks' /\ Awake' /\ Waits'
      BY <1>a, <1>b, <2>1, <2>4, <2>6, DestroyerRest
    <3>2. Full' \ Emptying' = {}
      BY <1>0, <2>1, <2>2, <2>6 DEF Shut
    <3>3. stop' <=> "none" \in {"notifyall", "join", "destroyed"}
      BY <1>0, <1>b, <2>1, <2>6 DEF Shut
    <3>4. Shut'
      BY <1>0, <1>1, <2>1, <2>3, <2>6, <3>2, <3>3, ShutDestroyer
    <3> QED
      BY <2>2, <3>1, <3>4, Parts
  <2> QED
    BY <2>5, <2>6
<1>2. CASE over # <<>>
  <2>1. /\ pc[t] = "takeover" /\ pc' = [pc EXCEPT ![t] = "uncount"]
        /\ over' = Tail(over) /\ job' = [job EXCEPT ![t] = Head(over)]
    BY <1>2 DEF TakeOver, Goto
  <2>2. Shape' /\ Ring' /\ Tries' /\ Accounts' /\ Full' = Full /\ Emptying' = Emptying
    BY <1>2, <1>a, <2>1, TakesOver
  <2>3. Full' \ Emptying' \subseteq Full \ Emptying
    BY <2>2
  <2>4. pc[t] \in TakerPlaces /\ "uncount" \in TakerPlaces /\ "uncount" \in DestroyerPlaces
    BY <2>1 DEF TakerPlaces, DestroyerPlaces, Taking, Taken
  <2>5. CASE t # Destroyer
    <3>1. Marks' /\ Awake' /\ Shut' /\ Waits'
      BY <1>2, <1>a, <1>b, <2>1, <2>3, <2>4, <2>5, TakerRest
    <3> QED
      BY <2>2, <3>1, Parts
  <2>6. CASE t = Destroyer
    <3>1. Marks' /\ Awake' /\ Waits'
      BY <1>a, <1>b, <2>1, <2>4, <2>6, DestroyerRest
    <3>3. stop' <=> "uncount" \in {"notifyall", "join", "destroyed"}
      BY <1>0, <1>b, <2>1, <2>6 DEF Shut
    <3>4. Shut'
      BY <1>0, <2>1, <2>6, <3>3, ShutDestroyer
    <3> QED
      BY <2>2, <3>1, <3>4, Parts
  <2> QED
    BY <2>5, <2>6
<1> QED
  BY <1>1, <1>2

\* A taker's step with the job it has.
LEMMA InHandMoves ==
    ASSUME IInv, NEW t \in Takers, pc[t] \in {"uncount", "running"},
           NEW to \in {"running", "retire", "take"}, Place(t, to), pc' = [pc EXCEPT ![t] = to],
           job' \in [Threads -> Jobs \cup {None}],
           UNCHANGED <<ring, list, stop, signals, pos, next>>
    PROVE  Shape' /\ Ring' /\ Tries' /\ Full' = Full /\ Emptying' = Emptying
<1> USE DEF ring, list, signals
<1>0. Shape /\ Ring /\ Tries /\ t \in Threads
  BY Parts, Roles
<1>1. pc'[t] = to /\ \A u \in Threads : u # t => pc'[u] = pc[u]
  BY <1>0, Elsewhere
<1>2. Ring' /\ Full' = Full /\ Emptying' = Emptying
  <2>1. \A u \in Threads : /\ \A k \in {"fill", "empty"} : pc'[u] = k <=> pc[u] = k
                           /\ pc[u] \in {"fill", "empty"} => pos'[u] = pos[u]
    BY <1>1
  <2> QED
    BY <1>0, <2>1, RingStays
<1>3. Shape'
  <2>1. Values'
    BY <1>0 DEF Shape, Values
  <2> QED
    BY <1>0, <2>1, ShapeMove
<1>4. Tries'
  BY <1>0, TriesStay
<1> QED
  BY <1>2, <1>3, <1>4

\* A taker counts its job as no longer queued, and runs it.
LEMMA UncountStep ==
    ASSUME IInv, NEW t \in Takers \ {Destroyer}, Uncount(t)
    PROVE  IInv'
<1> USE DEF Uncount, Goto, ring, list, signals
<1>0. Shape /\ Ring /\ Accounts /\ queued \in Int /\ t \in Threads
  BY Parts, Roles
<1>1. /\ pc[t] = "uncount" /\ pc' = [pc EXCEPT ![t] = "running"] /\ pos' = pos
  OBVIOUS
<1>2. Place(t, "running") /\ pc[t] \in TakerPlaces /\ "running" \in TakerPlaces
  BY <1>1, Roles DEF Place, WorkerPlaces, ClientPlaces, TakerPlaces, Taking, Taken
<1>3. job' \in [Threads -> Jobs \cup {None}]
  BY <1>0 DEF Shape
<1>4. Shape' /\ Ring' /\ Tries' /\ Full' = Full /\ Emptying' = Emptying
  BY <1>1, <1>2, <1>3, InHandMoves
<1>5. Accounts'
  BY <1>0, <1>1, <1>4, AccountsUncount
<1>6. /\ UNCHANGED <<parked, wake, stop, next, asked>> /\ queued' \in Int /\ queued' <= queued
      /\ done \subseteq done' /\ dropped \subseteq dropped' /\ over' = over
      /\ Full' \ Emptying' \subseteq Full \ Emptying
  BY <1>0, <1>4
<1>7. Marks' /\ Awake' /\ Shut' /\ Waits'
  BY <1>1, <1>2, <1>6, TakerRest
<1> QED
  BY <1>4, <1>5, <1>7, Parts

\* A taker has run its job.
LEMMA FinishStep ==
    ASSUME IInv, NEW t \in Takers \ {Destroyer}, Finish(t)
    PROVE  IInv'
<1> USE DEF Finish, Goto, ring, list, counts, signals
<1>0. Shape /\ Ring /\ Accounts /\ queued \in Int /\ t \in Threads
  BY Parts, Roles
<1>1. /\ pc[t] = "running" /\ pc' = [pc EXCEPT ![t] = "retire"] /\ pos' = pos
  OBVIOUS
<1>2. Place(t, "retire") /\ pc[t] \in TakerPlaces /\ "retire" \in TakerPlaces
  BY <1>1, Roles DEF Place, WorkerPlaces, ClientPlaces, TakerPlaces, Taking, Taken
<1>3. job' \in [Threads -> Jobs \cup {None}]
  BY <1>0 DEF Shape
<1>4. Shape' /\ Ring' /\ Tries' /\ Full' = Full /\ Emptying' = Emptying
  BY <1>1, <1>2, <1>3, InHandMoves
<1>5. Accounts'
  BY <1>0, <1>1, <1>4, AccountsFinish
<1>6. /\ UNCHANGED <<parked, wake, stop, next, asked>> /\ queued' \in Int /\ queued' <= queued
      /\ done \subseteq done' /\ dropped \subseteq dropped' /\ over' = over
      /\ Full' \ Emptying' \subseteq Full \ Emptying
  BY <1>0, <1>4
<1>7. Marks' /\ Awake' /\ Shut' /\ Waits'
  BY <1>1, <1>2, <1>6, TakerRest
<1> QED
  BY <1>4, <1>5, <1>7, Parts

\* tpool_destroy drops a job it took.
LEMMA DropStep ==
    ASSUME IInv, Drop
    PROVE  IInv'
<1> USE DEF Drop, Goto, ring, list, signals
<1>0. Shape /\ Ring /\ Accounts /\ Shut /\ queued \in Int /\ Destroyer \in Threads /\ Destroyer \in Takers
  BY Parts, Roles
<1>1. /\ pc[Destroyer] = "uncount" /\ pc' = [pc EXCEPT ![Destroyer] = "take"] /\ pos' = pos
  OBVIOUS
<1>2. Place(Destroyer, "take") /\ "take" \in DestroyerPlaces
  BY <1>0, TakerPlace
<1>3. job' \in [Threads -> Jobs \cup {None}]
  BY <1>0 DEF Shape
<1>4. Shape' /\ Ring' /\ Tries' /\ Full' = Full /\ Emptying' = Emptying
  BY <1>0, <1>1, <1>2, <1>3, InHandMoves
<1>5. Accounts'
  BY <1>0, <1>1, <1>4, AccountsDrop
<1>6. /\ UNCHANGED <<parked, wake, stop, next, asked>> /\ queued' \in Int /\ queued' <= queued
      /\ done \subseteq done' /\ dropped \subseteq dropped'
  BY <1>0
<1>7. Marks' /\ Awake' /\ Waits'
  BY <1>1, <1>2, <1>6, DestroyerRest
<1>8. Shut'
  <2>1. stop' <=> "take" \in {"notifyall", "join", "destroyed"}
    BY <1>0, <1>1, <1>6 DEF Shut
  <2> QED
    BY <1>0, <1>1, <2>1, ShutDestroyer
<1> QED
  BY <1>4, <1>5, <1>7, <1>8, Parts

(***************************************************************************)
(* A worker with nothing to take.                                          *)
(***************************************************************************)
\* What parking leaves alone, and what it has to see to.
LEMMA WorkerParks ==
    ASSUME IInv, NEW w \in Workers, pc[w] \in WorkerPlaces \ (Taking \cup {"exited"}),
           NEW to \in WorkerPlaces \ Taking, pc' = [pc EXCEPT ![w] = to],
           parked' \in [Workers -> {0, 1}], wake' \in [Workers -> BOOLEAN],
           \A v \in Workers : v # w => parked'[v] = parked[v] /\ wake'[v] = wake[v],
           UNCHANGED <<ring, list, counts, stop, idle, job, pos, next, history>>,
           to \in TakerPlaces \cup {"mark", "exited"} => parked'[w] = 0,
           to \in {"stop?", "commit", "asleep"} /\ parked'[w] = 0 =>
              wake'[w] \/ \E p \in Posters : pc[p] = "notify" /\ pos[p] = w,
           to = "exited" => stop,
           ~stop /\ queued > 0 /\ Going(w) => Going(w)',
           parked'[w] = parked[w] \/ Going(w)'
    PROVE  IInv'
<1> USE DEF ring, list, counts, history
<1>0. Shape /\ Marks /\ Awake /\ Shut /\ Waits
  BY Parts
<1>1. w \in Threads /\ w \notin Posters
  BY Roles
<1>2. pc'[w] = to /\ \A u \in Threads : u # w => pc'[u] = pc[u]
  BY <1>0, <1>1, Elsewhere
<1>3. /\ \A v \in Workers : v # w => pc'[v] = pc[v] /\ parked'[v] = parked[v] /\ wake'[v] = wake[v]
      /\ \A p \in Posters : pc'[p] = pc[p]
  BY <1>1, <1>2, Roles
<1>4. Shape' /\ Ring' /\ Tries' /\ Accounts' /\ Full' = Full /\ Emptying' = Emptying
  <2>1. Place(w, to)
    BY Roles DEF Place
  <2>2. Alike(pc[w], to) /\ pc[w] # "fill" /\ to # "fill" /\ to # "try"
    BY DEF Alike, WorkerPlaces, TakerPlaces, Taking, Taken, Posting, HandedOver
  <2>3. pos' \in [Threads -> Nat] /\ pos' = pos /\ stop' \in BOOLEAN
    BY <1>0 DEF Shape
  <2> QED
    BY <1>1, <2>1, <2>2, <2>3, Quiet
<1>5. Shut'
  <2>1. Full' \ Emptying' \subseteq Full \ Emptying /\ over' = over /\ stop' = stop /\ pc[w] # "exited"
    BY <1>4
  <2> QED
    BY <1>0, <2>1, ShutWorker
<1>6. Waits'
  <2>1. to # "waited"
    BY DEF WorkerPlaces, TakerPlaces, Taking, Taken
  <2>2. asked' = asked /\ done \subseteq done' /\ dropped \subseteq dropped' /\ next' = next
    OBVIOUS
  <2> QED
    BY <1>0, <1>1, <2>1, <2>2, WaitsStay
<1>7. Marks'
  <2>1. ASSUME NEW v \in Workers, pc'[v] \in TakerPlaces \cup {"mark", "exited"} PROVE parked'[v] = 0
    BY <1>0, <1>2, <1>3, <2>1 DEF Marks
  <2>2. ASSUME NEW v \in Workers, pc'[v] \in {"stop?", "commit", "asleep"}, parked'[v] = 0
        PROVE  wake'[v] \/ \E p \in Posters : pc'[p] = "notify" /\ pos'[p] = v
    <3>1. CASE v = w
      BY <1>2, <1>3, <2>2, <3>1
    <3>2. CASE v # w
      <4>1. wake[v] \/ \E p \in Posters : pc[p] = "notify" /\ pos[p] = v
        BY <1>0, <1>3, <2>2, <3>2 DEF Marks
      <4> QED
        BY <1>3, <3>2, <4>1
    <3> QED
      BY <3>1, <3>2
  <2>3. \A p \in Posters : /\ pc'[p] = "wake" => pos'[p] >= 1
                           /\ pc'[p] = "notify" => pos'[p] \in Workers
    BY <1>0, <1>3 DEF Marks
  <2> QED
    BY <2>1, <2>2, <2>3 DEF Marks
<1>8. Awake'
  <2>1. SUFFICES ASSUME ~stop
                 PROVE  /\ \E v \in Workers : pc'[v] # "exited"
                        /\ queued > 0 =>
                              \/ \E v \in Workers : Going(v)'
                              \/ \E p \in Posters :
                                    pc[p] = "wake" /\ \E v \in Workers : v >= pos[p] /\ parked'[v] = 1
    BY <1>3 DEF Awake
  <2>2. \A v \in Workers : v # w /\ Going(v) => Going(v)'
    BY <1>3 DEF Going
  <2>3. \E v \in Workers : pc'[v] # "exited"
    BY <1>2, <2>1
  <2>4. ASSUME queued > 0
        PROVE  \/ \E v \in Workers : Going(v)'
               \/ \E p \in Posters : pc[p] = "wake" /\ \E v \in Workers : v >= pos[p] /\ parked'[v] = 1
    <3>1. CASE \E v \in Workers : Going(v)
      BY <2>1, <2>2, <2>4, <3>1
    <3>2. CASE \E p \in Posters : pc[p] = "wake" /\ \E v \in Workers : v >= pos[p] /\ parked[v] = 1
      BY <1>3, <3>2
    <3> QED
      BY <1>0, <2>1, <2>4, <3>1, <3>2 DEF Awake
  <2> QED
    BY <2>3, <2>4
<1> QED
  BY <1>4, <1>5, <1>6, <1>7, <1>8, Parts

\* A worker that only moves.
LEMMA WorkerMoves ==
    ASSUME IInv, NEW w \in Workers, NEW from, from \in WorkerPlaces \ (Taking \cup {"exited"}),
           NEW to \in WorkerPlaces \ Taking, Move(w, from, to),
           to \in TakerPlaces \cup {"mark", "exited"} => parked[w] = 0,
           to \in {"stop?", "commit", "asleep"} =>
              \/ parked[w] # 0
              \/ from \in {"stop?", "commit", "asleep"},
           to = "exited" => stop,
           \/ to \notin {"mark?", "stop?", "commit", "asleep"}
           \/ from \in {"mark?", "stop?", "commit", "asleep"} /\ to \in {"mark?", "stop?", "commit", "asleep"}
           \/ ~(queued > 0)
    PROVE  IInv'
<1>0. Shape /\ Marks
  BY Parts
<1>1. /\ pc[w] = from /\ pc' = [pc EXCEPT ![w] = to]
      /\ UNCHANGED <<ring, list, counts, stop, idle, job, pos, next, history>>
      /\ parked' = parked /\ wake' = wake
  BY DEF Move, Goto, signals
<1>2. parked' \in [Workers -> {0, 1}] /\ wake' \in [Workers -> BOOLEAN]
  BY <1>0, <1>1 DEF Shape
<1>3. pc'[w] = to
  BY <1>0, <1>1, Elsewhere, Roles
<1>4. to \in {"stop?", "commit", "asleep"} /\ parked'[w] = 0 =>
              wake'[w] \/ \E p \in Posters : pc[p] = "notify" /\ pos[p] = w
  BY <1>0, <1>1 DEF Marks
<1>5. ~stop /\ queued > 0 /\ Going(w) => Going(w)'
  BY <1>1, <1>3 DEF Going
<1>6. pc[w] \in WorkerPlaces \ (Taking \cup {"exited"})
  BY <1>1
<1> QED
  BY <1>1, <1>2, <1>4, <1>5, <1>6, WorkerParks

\* A worker that found nothing looks whether to stop.
LEMMA CheckStopStep ==
    ASSUME IInv, NEW w \in Workers, CheckStop(w)
    PROVE  IInv'
<1> DEFINE to == IF stop THEN "exited" ELSE "mark"
<1>1. Move(w, "none", to) /\ pc[w] = "none"
  BY DEF CheckStop, Move, Goto
<1>2. parked[w] = 0
  BY <1>1, Parts DEF Marks, TakerPlaces
<1>3. /\ "none" \in WorkerPlaces \ (Taking \cup {"exited"}) /\ to \in WorkerPlaces \ Taking
      /\ to \in {"exited", "mark"} /\ (to = "exited" => stop)
  BY DEF WorkerPlaces, TakerPlaces, Taking, Taken
<1> HIDE DEF to
<1> QED
  BY <1>1, <1>2, <1>3, WorkerMoves

\* A worker with its mark looks once more for something queued.
LEMMA LookQueuedStep ==
    ASSUME IInv, NEW w \in Workers, LookQueued(w)
    PROVE  IInv'
<1> DEFINE to == IF queued > 0 THEN "unmark" ELSE "mark?"
<1>1. Move(w, "queued?", to)
  BY DEF LookQueued
<1>2. /\ "queued?" \in WorkerPlaces \ (Taking \cup {"exited"}) /\ to \in WorkerPlaces \ Taking
      /\ to \notin TakerPlaces \cup {"mark", "exited"} /\ to \notin {"stop?", "commit", "asleep"}
      /\ (to \notin {"mark?", "stop?", "commit", "asleep"} \/ ~(queued > 0))
  BY DEF WorkerPlaces, TakerPlaces, Taking, Taken
<1> HIDE DEF to
<1> QED
  BY <1>1, <1>2, WorkerMoves

\* A worker looks whether its mark was taken.
LEMMA LookMarkStep ==
    ASSUME IInv, NEW w \in Workers, LookMark(w)
    PROVE  IInv'
<1> DEFINE to == IF parked[w] = 0 THEN "unmark" ELSE "stop?"
<1>1. Move(w, "mark?", to)
  BY DEF LookMark
<1>2. /\ "mark?" \in WorkerPlaces \ (Taking \cup {"exited"}) /\ to \in WorkerPlaces \ Taking
      /\ to \notin TakerPlaces \cup {"mark", "exited"} /\ (to = "stop?" => parked[w] # 0)
      /\ to \in {"unmark", "stop?"}
  BY DEF WorkerPlaces, TakerPlaces, Taking, Taken
<1> HIDE DEF to
<1> QED
  BY <1>1, <1>2, WorkerMoves

\* The look at stop, the commit and the end of the sleep.
LEMMA AsleepMoves ==
    ASSUME IInv, NEW w \in Workers, NEW from \in {"stop?", "commit", "asleep"},
           NEW to \in {"commit", "asleep", "unmark"}, Move(w, from, to)
    PROVE  IInv'
<1>1. /\ from \in WorkerPlaces \ (Taking \cup {"exited"}) /\ to \in WorkerPlaces \ Taking
      /\ to \notin TakerPlaces \cup {"mark", "exited"}
  BY DEF WorkerPlaces, TakerPlaces, Taking, Taken
<1> QED
  BY <1>1, WorkerMoves

\* A worker looks at stop, sleeps, and is woken with or without cause.
LEMMA SleepSteps ==
    ASSUME IInv, NEW w \in Workers,
           LookStop(w) \/ Commit(w) \/ WakeUp(w) \/ Move(w, "asleep", "unmark")
    PROVE  IInv'
<1>1. CASE LookStop(w)
  <2>1. PICK to \in {"commit", "asleep", "unmark"} : Move(w, "stop?", to)
    BY <1>1 DEF LookStop
  <2> QED
    BY <2>1, AsleepMoves
<1>2. CASE Commit(w)
  <2>1. PICK to \in {"commit", "asleep", "unmark"} : Move(w, "commit", to)
    BY <1>2 DEF Commit
  <2> QED
    BY <2>1, AsleepMoves
<1>3. CASE Move(w, "asleep", "unmark")
  BY <1>3, AsleepMoves
<1> QED
  BY <1>1, <1>2, <1>3 DEF WakeUp

\* A worker sets its mark.
LEMMA MarkStep ==
    ASSUME IInv, NEW w \in Workers, Mark(w)
    PROVE  IInv'
<1>0. Shape /\ Marks /\ w \in Threads
  BY Parts, Roles
<1>1. /\ pc[w] = "mark" /\ pc' = [pc EXCEPT ![w] = "prepare"] /\ wake' = wake
      /\ parked' = [parked EXCEPT ![w] = @ + 1]
      /\ UNCHANGED <<ring, list, counts, stop, idle, job, pos, next, history>>
  BY DEF Mark, Goto
<1>2. parked[w] = 0
  BY <1>0, <1>1 DEF Marks
<1>3. /\ parked' \in [Workers -> {0, 1}] /\ wake' \in [Workers -> BOOLEAN]
      /\ \A v \in Workers : v # w => parked'[v] = parked[v] /\ wake'[v] = wake[v]
  BY <1>0, <1>1, <1>2 DEF Shape
<1>4. Going(w)'
  <2>1. pc'[w] = "prepare"
    BY <1>0, <1>1, Elsewhere
  <2> QED
    BY <2>1 DEF Going
<1>5. /\ pc[w] \in WorkerPlaces \ (Taking \cup {"exited"}) /\ "prepare" \in WorkerPlaces \ Taking
      /\ "prepare" \notin TakerPlaces \cup {"mark", "exited"}
  BY <1>1 DEF WorkerPlaces, TakerPlaces, Taking, Taken
<1> QED
  BY <1>1, <1>3, <1>4, <1>5, WorkerParks

\* A worker announces itself as a waiter: wakes from here on count.
LEMMA PrepareStep ==
    ASSUME IInv, NEW w \in Workers, Prepare(w)
    PROVE  IInv'
<1>0. Shape /\ w \in Threads
  BY Parts, Roles
<1>1. /\ pc[w] = "prepare" /\ pc' = [pc EXCEPT ![w] = "queued?"] /\ parked' = parked
      /\ wake' = [wake EXCEPT ![w] = FALSE]
      /\ UNCHANGED <<ring, list, counts, stop, idle, job, pos, next, history>>
  BY DEF Prepare, Goto
<1>3. /\ parked' \in [Workers -> {0, 1}] /\ wake' \in [Workers -> BOOLEAN]
      /\ \A v \in Workers : v # w => parked'[v] = parked[v] /\ wake'[v] = wake[v]
  BY <1>0, <1>1 DEF Shape
<1>4. Going(w)'
  <2>1. pc'[w] = "queued?"
    BY <1>0, <1>1, Elsewhere
  <2> QED
    BY <2>1 DEF Going
<1>5. /\ pc[w] \in WorkerPlaces \ (Taking \cup {"exited"}) /\ "queued?" \in WorkerPlaces \ Taking
      /\ "queued?" \notin TakerPlaces \cup {"mark", "exited"}
  BY <1>1 DEF WorkerPlaces, TakerPlaces, Taking, Taken
<1> QED
  BY <1>1, <1>3, <1>4, <1>5, WorkerParks

\* A worker takes its mark back and looks into the pool again.
LEMMA UnmarkStep ==
    ASSUME IInv, NEW w \in Workers, Unmark(w)
    PROVE  IInv'
<1>0. Shape /\ w \in Threads
  BY Parts, Roles
<1>1. /\ pc[w] = "unmark" /\ pc' = [pc EXCEPT ![w] = "take"] /\ wake' = wake
      /\ parked' = [parked EXCEPT ![w] = IF @ = 1 THEN 0 ELSE @]
      /\ UNCHANGED <<ring, list, counts, stop, idle, job, pos, next, history>>
  BY DEF Unmark, Goto
<1>2. parked[w] \in {0, 1}
  BY <1>0 DEF Shape
<1>3. /\ parked' \in [Workers -> {0, 1}] /\ wake' \in [Workers -> BOOLEAN] /\ parked'[w] = 0
      /\ \A v \in Workers : v # w => parked'[v] = parked[v] /\ wake'[v] = wake[v]
  BY <1>0, <1>1, <1>2 DEF Shape
<1>4. Going(w)'
  <2>1. pc'[w] = "take"
    BY <1>0, <1>1, Elsewhere
  <2> QED
    BY <2>1 DEF Going
<1>5. /\ pc[w] \in WorkerPlaces \ (Taking \cup {"exited"}) /\ "take" \in WorkerPlaces \ Taking
  BY <1>1 DEF WorkerPlaces, TakerPlaces, Taking, Taken
<1> QED
  BY <1>1, <1>3, <1>4, <1>5, WorkerParks

(***************************************************************************)
(* tpool_help and tpool_wait.                                              *)
(***************************************************************************)
\* With nothing outstanding every job that left its poster is over.
LEMMA NothingOutstanding ==
    ASSUME IInv, outstanding = 0
    PROVE  Out \subseteq done \cup dropped
<1>0. Shape /\ Ring /\ Fates /\ Counts
  BY DEF IInv
<1>1. /\ IsFiniteSet(Waiting) /\ IsFiniteSet(Those(Takers, Taking))
      /\ IsFiniteSet(Those(Posters, Outstanding))
  BY <1>0, ThreadsFinite DEF Counts
<1>2. Waiting = {} /\ Those(Takers, Taking) = {}
  <2>1. /\ Cardinality(Waiting) \in Nat /\ Cardinality(Those(Takers, Taking)) \in Nat
        /\ Cardinality(Those(Posters, Outstanding)) \in Nat
    BY <1>1, FS_CardinalityType
  <2>2. Cardinality(Waiting) = 0 /\ Cardinality(Those(Takers, Taking)) = 0
    <3> DEFINE a == Cardinality(Waiting)
               b == Cardinality(Those(Takers, Taking))
               c == Cardinality(Those(Posters, Outstanding))
    <3>1. 0 = a + b + c
      BY <1>0 DEF Counts
    <3>2. a \in Nat /\ b \in Nat /\ c \in Nat
      BY <2>1
    <3>3. a = 0 /\ b = 0
      <4> HIDE DEF a, b, c
      <4> QED
        BY <3>1, <3>2
    <3> QED
      BY <3>3
  <2> QED
    BY <1>1, <2>2, FS_EmptySet
<1>3. \A t \in Takers : pc[t] \notin {"empty", "uncount", "running"}
  BY <1>2 DEF Those, Taking, Taken
<1>4. Emptying = {}
  BY <1>3 DEF Emptying
<1>5. InOverflow = {} /\ Full = {}
  BY <1>0, <1>2, <1>4, WaitingIs
<1>6. started \subseteq done
  BY <1>0, <1>3 DEF Fates
<1> QED
  BY <1>0, <1>3, <1>5, <1>6 DEF Fates

\* A client that takes no job.
LEMMA ClientMoves ==
    ASSUME IInv, NEW c \in Clients, pc[c] # "idle" \/ pc[Destroyer] = "idle",
           pc[c] \notin Taking, NEW to \in ClientPlaces \ Taking, pc' = [pc EXCEPT ![c] = to],
           UNCHANGED <<ring, list, counts, stop, parked, wake, job, pos, next, started, done, dropped>>
    PROVE  Shape' /\ Ring' /\ Tries' /\ Accounts' /\ Marks' /\ Awake' /\ Shut'
<1> USE DEF ring, list, counts
<1>0. Shape /\ Marks /\ Awake /\ Shut /\ queued \in Int
  BY Parts
<1>1. c \in Threads /\ c \notin Workers /\ c \notin Posters /\ c \in Posters \cup Clients
  BY Roles
<1>2. Place(c, to) /\ to # "fill" /\ to # "try" /\ pc[c] # "fill" /\ Alike(pc[c], to)
  <2>1. pc[c] \in ClientPlaces
    BY <1>0 DEF Shape
  <2> QED
    BY <2>1, Roles DEF Place, ClientPlaces, TakerPlaces, Taking, Taken, Alike, Posting, HandedOver
<1>3. /\ pos' \in [Threads -> Nat] /\ pos' = pos /\ stop' \in BOOLEAN
      /\ parked' \in [Workers -> {0, 1}] /\ wake' \in [Workers -> BOOLEAN]
  BY <1>0 DEF Shape
<1>4. Shape' /\ Ring' /\ Tries' /\ Accounts'
  BY <1>1, <1>2, <1>3, Quiet
<1>5. Marks' /\ Awake'
  <2>1. UNCHANGED <<parked, wake, stop>> /\ queued' \in Int /\ queued' <= queued
    BY <1>0
  <2> QED
    BY <1>0, <1>1, <1>3, <2>1, ParkingStays
<1>6. Shut'
  BY <1>0, <1>1, ShutOutside
<1> QED
  BY <1>4, <1>5, <1>6

\* One that is not done waiting.
LEMMA ClientGoesOn ==
    ASSUME IInv, NEW c \in Clients, pc[c] # "idle" \/ pc[Destroyer] = "idle",
           pc[c] \notin Taking, NEW to \in ClientPlaces \ (Taking \cup {"waited"}),
           pc' = [pc EXCEPT ![c] = to],
           UNCHANGED <<ring, list, counts, stop, parked, wake, job, pos, next, history>>
    PROVE  IInv'
<1>1. /\ UNCHANGED <<ring, list, counts, stop, parked, wake, job, pos, next, started, done, dropped>>
      /\ asked' = asked /\ done \subseteq done' /\ dropped \subseteq dropped' /\ next' = next
  BY DEF history
<1>2. Shape' /\ Ring' /\ Tries' /\ Accounts' /\ Marks' /\ Awake' /\ Shut'
  BY <1>1, ClientMoves
<1>3. Waits'
  BY <1>1, Parts, Roles, WaitsStay
<1> QED
  BY <1>2, <1>3, Parts

\* One that may be.
LEMMA ClientTests ==
    ASSUME IInv, NEW c \in Clients, NEW from \in {"wait", "itest"}, NEW to \in {"iprepare", "icommit"},
           Move(c, from, IF outstanding = 0 THEN "waited" ELSE to)
    PROVE  IInv'
<1>0. Shape /\ Waits /\ c \in Threads /\ Clients \subseteq Threads
  BY Parts, Roles
<1>1. /\ pc[c] = from /\ pc[c] # "idle" /\ pc[c] \notin Taking
      /\ UNCHANGED <<ring, list, counts, stop, signals, job, pos, next, history>>
  BY DEF Move, Goto, Taking, Taken
<1>2. /\ UNCHANGED <<ring, list, counts, stop, parked, wake, job, pos, next, started, done, dropped>>
      /\ UNCHANGED <<ring, list, counts, stop, parked, wake, job, pos, next, history>>
      /\ asked' = asked /\ done' = done /\ dropped' = dropped /\ next' = next
  BY <1>1 DEF history, signals
<1>3. CASE outstanding = 0
  <2>1. pc' = [pc EXCEPT ![c] = "waited"] /\ "waited" \in ClientPlaces \ Taking
    BY <1>3 DEF Move, Goto, ClientPlaces, Taking, Taken
  <2>2. Shape' /\ Ring' /\ Tries' /\ Accounts' /\ Marks' /\ Awake' /\ Shut'
    BY <1>1, <1>2, <2>1, ClientMoves
  <2>3. PostedJobs \subseteq Out
    BY DEF PostedJobs, Out
  <2>4. asked[c] \subseteq done \cup dropped
    BY <1>0, <1>3, <2>3, NothingOutstanding DEF Waits
  <2>5. PostedJobs' = PostedJobs
    BY <1>2 DEF PostedJobs
  <2>6. \A d \in Clients : d # c => pc'[d] = pc[d]
    BY <1>0, <2>1, Elsewhere
  <2>7. Waits'
    BY <1>0, <1>2, <2>4, <2>5, <2>6 DEF Waits
  <2> QED
    BY <2>2, <2>7, Parts
<1>4. CASE outstanding # 0
  <2>1. pc' = [pc EXCEPT ![c] = to] /\ to \in ClientPlaces \ (Taking \cup {"waited"})
    BY <1>4 DEF Move, Goto, ClientPlaces, Taking, Taken
  <2> QED
    BY <1>1, <1>2, <2>1, ClientGoesOn
<1> QED
  BY <1>3, <1>4

\* A client helps: it starts to take.
LEMMA HelpStep ==
    ASSUME IInv, NEW c \in Clients, Help(c) \/ HelpFindsNone(c)
    PROVE  IInv'
<1>1. PICK to \in {"take", "idle"} :
         /\ pc' = [pc EXCEPT ![c] = to] /\ (pc[c] # "idle" \/ pc[Destroyer] = "idle")
         /\ pc[c] \in {"idle", "none"}
         /\ UNCHANGED <<ring, list, counts, stop, parked, wake, job, pos, next, history>>
  BY DEF Help, HelpFindsNone, Move, Goto, signals
<1>2. pc[c] \notin Taking /\ to \in ClientPlaces \ (Taking \cup {"waited"})
  BY <1>1 DEF ClientPlaces, TakerPlaces, Taking, Taken
<1> QED
  BY <1>1, <1>2, ClientGoesOn

\* tpool_wait is called, and returns.
LEMMA WaitEnds ==
    ASSUME IInv, NEW c \in Clients, Wait(c) \/ WaitReturn(c)
    PROVE  IInv'
<1>0. Shape /\ Waits /\ c \in Threads /\ Clients \subseteq Threads
  BY Parts, Roles
<1>1. PICK to \in {"wait", "idle"} :
         /\ pc' = [pc EXCEPT ![c] = to] /\ (pc[c] # "idle" \/ pc[Destroyer] = "idle")
         /\ pc[c] \in {"idle", "waited"}
         /\ UNCHANGED <<ring, list, counts, stop, parked, wake, job, pos, next, started, done, dropped>>
  BY DEF Wait, WaitReturn, Goto, signals
<1>2. PICK S \in {PostedJobs, {}} : asked' = [asked EXCEPT ![c] = S]
  BY DEF Wait, WaitReturn
<1>3. pc[c] \notin Taking /\ to \in ClientPlaces \ Taking
  BY <1>1 DEF ClientPlaces, TakerPlaces, Taking, Taken
<1>4. Shape' /\ Ring' /\ Tries' /\ Accounts' /\ Marks' /\ Awake' /\ Shut'
  BY <1>1, <1>3, ClientMoves
<1>5. PostedJobs' = PostedJobs /\ S \subseteq PostedJobs /\ PostedJobs \subseteq Jobs
  BY <1>1 DEF PostedJobs
<1>6. /\ asked' \in [Clients -> SUBSET Jobs] /\ asked'[c] = S
      /\ \A d \in Clients : d # c => asked'[d] = asked[d]
  BY <1>0, <1>2, <1>5 DEF Waits
<1>7. pc'[c] = to /\ \A d \in Clients : d # c => pc'[d] = pc[d]
  BY <1>0, <1>1, Elsewhere
<1>8. Waits'
  BY <1>0, <1>1, <1>5, <1>6, <1>7 DEF Waits
<1> QED
  BY <1>4, <1>8, Parts

\* In between.
LEMMA WaitSteps ==
    ASSUME IInv, NEW c \in Clients,
           \/ WaitTest(c) \/ WaitPrepare(c) \/ WaitTestAgain(c) \/ WaitCommit(c) \/ WaitWakeUp(c)
           \/ Move(c, "iasleep", "wait")
    PROVE  IInv'
<1>1. CASE WaitTest(c)
  BY <1>1, ClientTests DEF WaitTest
<1>2. CASE WaitTestAgain(c)
  BY <1>2, ClientTests DEF WaitTestAgain
<1>3. CASE WaitPrepare(c) \/ WaitCommit(c) \/ WaitWakeUp(c) \/ Move(c, "iasleep", "wait")
  <2>1. PICK to \in {"itest", "wait", "iasleep"} :
           /\ pc' = [pc EXCEPT ![c] = to] /\ pc[c] \in {"iprepare", "icommit", "iasleep"}
           /\ UNCHANGED <<ring, list, counts, stop, parked, wake, job, pos, next, history>>
    BY <1>3 DEF WaitPrepare, WaitCommit, WaitWakeUp, Move, Goto, signals
  <2>2. /\ pc[c] \notin Taking /\ pc[c] # "idle"
        /\ to \in ClientPlaces \ (Taking \cup {"waited"})
    BY <2>1 DEF ClientPlaces, Taking, Taken
  <2> QED
    BY <2>1, <2>2, ClientGoesOn
<1> QED
  BY <1>1, <1>2, <1>3

(***************************************************************************)
(* tpool_destroy.                                                          *)
(***************************************************************************)
LEMMA DestroyerMoves ==
    ASSUME IInv, NEW to \in DestroyerPlaces, pc[Destroyer] \notin Taking, to \notin Taking,
           pc' = [pc EXCEPT ![Destroyer] = to],
           pos' \in [Threads -> Nat], \A u \in Threads : u # Destroyer => pos'[u] = pos[u],
           stop' \in BOOLEAN, wake' \in [Workers -> BOOLEAN],
           UNCHANGED <<ring, list, counts, parked, job, next, history>>
    PROVE  Shape' /\ Ring' /\ Tries' /\ Accounts' /\ Full' = Full /\ Emptying' = Emptying
<1> USE DEF ring, list, counts, history
<1>0. Shape /\ Destroyer \in Threads
  BY Parts, Roles
<1>1. /\ Place(Destroyer, to) /\ Alike(pc[Destroyer], to) /\ pc[Destroyer] # "fill" /\ to # "fill"
      /\ to # "try"
  <2>1. pc[Destroyer] \in DestroyerPlaces
    BY <1>0 DEF Shape
  <2> QED
    BY <2>1, Roles DEF Place, DestroyerPlaces, Taking, Taken, Alike, Posting, HandedOver
<1>2. parked' \in [Workers -> {0, 1}]
  BY <1>0 DEF Shape
<1> QED
  BY <1>0, <1>1, <1>2, Quiet

\* One that only moves.
LEMMA DestroyerOn ==
    ASSUME IInv, NEW from \in {"idle", "notifyall", "join"}, NEW to \in {"take", "join", "destroyed"},
           pc[Destroyer] = from, pc' = [pc EXCEPT ![Destroyer] = to],
           UNCHANGED <<ring, list, counts, stop, parked, wake, job, pos, next, history>>,
           from = "idle" <=> to = "take",
           from = "idle" => \A t \in Posters \cup Clients : pc[t] = "idle",
           to = "destroyed" => \A w \in Workers : pc[w] = "exited"
    PROVE  IInv'
<1>0. Shape /\ Shut /\ queued \in Int
  BY Parts
<1>1. /\ to \in DestroyerPlaces /\ pc[Destroyer] \notin Taking /\ to \notin Taking
  BY DEF DestroyerPlaces, Taking, Taken
<1>2. pos' \in [Threads -> Nat] /\ pos' = pos /\ stop' \in BOOLEAN /\ wake' \in [Workers -> BOOLEAN]
  BY <1>0 DEF Shape
<1>3. Shape' /\ Ring' /\ Tries' /\ Accounts' /\ Full' = Full /\ Emptying' = Emptying
  BY <1>1, <1>2, DestroyerMoves
<1>4. Marks' /\ Awake' /\ Waits'
  <2>1. /\ UNCHANGED <<parked, wake, stop, next, asked>> /\ queued' \in Int /\ queued' <= queued
        /\ done \subseteq done' /\ dropped \subseteq dropped'
    BY <1>0 DEF counts, history
  <2> QED
    BY <1>1, <1>2, <2>1, DestroyerRest
<1>5. Shut'
  <2>1. stop' <=> to \in {"notifyall", "join", "destroyed"}
    BY <1>0 DEF Shut
  <2>2. to \in {"takeover", "none", "notifyall", "join", "destroyed"} => Full' \ Emptying' = {}
    BY <1>0, <1>3 DEF Shut
  <2>3. to \in {"none", "notifyall", "join", "destroyed"} => over' = <<>>
    BY <1>0 DEF Shut, list
  <2> QED
    BY <1>0, <2>1, <2>2, <2>3, ShutDestroyer
<1> QED
  BY <1>3, <1>4, <1>5, Parts

\* The steps of tpool_destroy that change nothing but where it is.
LEMMA DestroyMoveSteps ==
    ASSUME IInv, Destroy \/ NotifiedAll \/ Join
    PROVE  IInv'
<1>1. CASE Destroy
  <2>1. /\ pc[Destroyer] = "idle" /\ pc' = [pc EXCEPT ![Destroyer] = "take"]
        /\ \A t \in Posters \cup Clients : pc[t] = "idle"
        /\ UNCHANGED <<ring, list, counts, stop, parked, wake, job, pos, next, history>>
    BY <1>1 DEF Destroy, Move, Goto, signals
  <2> QED
    BY <2>1, DestroyerOn
<1>2. CASE NotifiedAll
  <2>1. /\ pc[Destroyer] = "notifyall" /\ pc' = [pc EXCEPT ![Destroyer] = "join"]
        /\ UNCHANGED <<ring, list, counts, stop, parked, wake, job, pos, next, history>>
    BY <1>2 DEF NotifiedAll, Goto
  <2> QED
    BY <2>1, DestroyerOn
<1>3. CASE Join
  <2>1. /\ pc[Destroyer] = "join" /\ pc' = [pc EXCEPT ![Destroyer] = "destroyed"]
        /\ \A w \in Workers : pc[w] = "exited"
        /\ UNCHANGED <<ring, list, counts, stop, parked, wake, job, pos, next, history>>
    BY <1>3 DEF Join, Move, Goto, signals
  <2> QED
    BY <2>1, DestroyerOn
<1> QED
  BY <1>1, <1>2, <1>3

\* The stop, and the notify of each worker.
LEMMA StopSteps ==
    ASSUME IInv, StopAll \/ NotifyNext
    PROVE  IInv'
<1>0. Shape /\ Marks /\ Shut /\ Waits /\ Destroyer \in Threads
  BY Parts, Roles
<1>1. /\ pc[Destroyer] \in {"none", "notifyall"} /\ pc' = [pc EXCEPT ![Destroyer] = "notifyall"]
      /\ UNCHANGED <<ring, list, counts, parked, job, next, history>>
  <2>1. CASE StopAll
    BY <2>1 DEF StopAll, Goto, signals
  <2>2. CASE NotifyNext
    BY <1>0, <2>2 DEF NotifyNext, Shape
  <2> QED
    BY <2>1, <2>2
<1>2. stop' = TRUE
  BY <1>0 DEF StopAll, NotifyNext, Shut, Shape
<1>3. pos' \in [Threads -> Nat] /\ \A u \in Threads : u # Destroyer => pos'[u] = pos[u]
  <2>1. CASE StopAll
    BY <1>0, <2>1 DEF StopAll, Shape
  <2>2. CASE NotifyNext
    BY <1>0, <2>2 DEF NotifyNext, Shape
  <2> QED
    BY <2>1, <2>2
<1>4. wake' \in [Workers -> BOOLEAN] /\ \A w \in Workers : wake[w] => wake'[w]
  <2>1. CASE StopAll
    BY <1>0, <2>1 DEF StopAll, signals, Shape
  <2>2. CASE NotifyNext
    BY <1>0, <2>2 DEF NotifyNext, Shape
  <2> QED
    BY <2>1, <2>2
<1>5. /\ "notifyall" \in DestroyerPlaces /\ pc[Destroyer] \notin Taking /\ "notifyall" \notin Taking
  BY <1>1 DEF DestroyerPlaces, Taking, Taken
<1>6. Shape' /\ Ring' /\ Tries' /\ Accounts' /\ Full' = Full /\ Emptying' = Emptying
  BY <1>1, <1>2, <1>3, <1>4, <1>5, DestroyerMoves
<1>7. \A u \in Posters \cup Workers : pc'[u] = pc[u]
  BY <1>0, <1>1, Elsewhere, Roles
<1>8. Marks'
  <2>1. \A w \in Workers : pc[w] \in TakerPlaces \cup {"mark", "exited"} => parked'[w] = 0
    BY <1>0, <1>1 DEF Marks
  <2>2. \A p \in Posters : pc'[p] = pc[p] /\ pos'[p] = pos[p]
    BY <1>3, <1>7, Roles
  <2>3. \A p \in Posters : /\ pc'[p] = "wake" => pos'[p] >= 1
                           /\ pc'[p] = "notify" => pos'[p] \in Workers
    BY <1>0, <2>2 DEF Marks
  <2>4. \A w \in Workers : parked'[w] = parked[w] /\ pc'[w] = pc[w]
    BY <1>1, <1>7
  <2> QED
    BY <1>0, <1>4, <2>1, <2>2, <2>3, <2>4, MarksByPosters
<1>9. Awake'
  BY <1>2 DEF Awake
<1>10. Shut'
  <2>1. Full' \ Emptying' = {} /\ over' = <<>>
    BY <1>0, <1>1, <1>6 DEF Shut, list
  <2> QED
    BY <1>0, <1>1, <1>2, <2>1, ShutDestroyer
<1>11. Waits'
  <2>1. asked' = asked /\ done \subseteq done' /\ dropped \subseteq dropped' /\ next' = next
    BY <1>1 DEF history
  <2> QED
    BY <1>0, <1>1, <2>1, WaitsStay
<1> QED
  BY <1>6, <1>8, <1>9, <1>10, <1>11, Parts

(***************************************************************************)
(* The start.                                                              *)
(***************************************************************************)
\* The empty ring: every slot is given back for the first round.
LEMMA InitRing ==
    ASSUME Init, \A t \in Threads : pc[t] \notin {"fill", "empty"}
    PROVE  Ring /\ Full = {} /\ Emptying = {}
<1> DEFINE E == Wrap
<1>0. /\ enq = 0 /\ deq = 0 /\ seq = [i \in Slots |-> i]
      /\ E \in Nat /\ QueueSize \in Nat /\ QueueSize <= E /\ E <= E + QueueSize
      /\ Posters \subseteq Threads /\ Takers \subseteq Threads
  BY Sizes, Roles DEF Init
<1>1. Turn(E) = 0
  <2>1. (0 + 1 * Wrap) % Wrap = 0 % Wrap /\ (0 * Wrap + 0) % Wrap = 0
    BY Sizes, Rounds, RemainderUnique
  <2>2. 0 + 1 * Wrap = Wrap /\ 0 * Wrap + 0 = 0
    BY Sizes
  <2> QED
    BY <2>1, <2>2 DEF Turn
<1>2. ASSUME NEW r \in Slots PROVE r % QueueSize = r /\ r % Wrap = r
  <2>1. r \in 0..(QueueSize - 1) /\ r \in 0..(Wrap - 1) /\ 0 * QueueSize + r = r /\ 0 * Wrap + r = r
    BY Sizes DEF Slots
  <2>2. (0 * QueueSize + r) % QueueSize = r /\ (0 * Wrap + r) % Wrap = r
    BY <2>1, Sizes, RemainderUnique
  <2> QED
    BY <2>1, <2>2
<1>3. ASSUME NEW x \in (E - QueueSize)..(E - 1)
      PROVE  x < E /\ seq[SlotOf(x)] = Turn(x + QueueSize)
  <2>1. x \in Nat /\ x < E /\ x + QueueSize \in Nat
    BY <1>0, <1>3, Sizes
  <2> DEFINE r == x + QueueSize - Wrap
  <2>2. r \in Slots /\ r \in Nat /\ x + QueueSize = r + 1 * Wrap
    BY <1>0, <1>3, Sizes DEF Slots
  <2> HIDE DEF r
  <2>3. Turn(x + QueueSize) = r
    <3>1. (r + 1 * Wrap) % Wrap = r % Wrap
      BY <2>2, Sizes, Rounds
    <3> QED
      BY <1>2, <2>2, <3>1 DEF Turn
  <2>4. SlotOf(Turn(x + QueueSize)) = SlotOf(x + QueueSize) /\ SlotOf(x + QueueSize) = SlotOf(x)
    BY <2>1, TurnsAndSlots
  <2>5. SlotOf(x) = r
    BY <1>2, <2>2, <2>3, <2>4 DEF SlotOf
  <2> QED
    BY <1>0, <2>1, <2>2, <2>3, <2>5
<1>4. RingAt(E, E)
  <2>1. \A t, u \in Threads :
           t # u /\ pc[t] = pc[u] /\ pc[t] \in {"fill", "empty"} => pos[t] # pos[u]
    OBVIOUS
  <2>2. \A p \in Posters : pc[p] # "fill"
    BY <1>0
  <2>3. \A t \in Takers : pc[t] # "empty"
    BY <1>0
  <2> HIDE DEF E
  <2> QED
    BY <1>0, <1>1, <1>3, <2>1, <2>2, <2>3 DEF RingAt
<1>5. Full = {}
  BY <1>0, <1>2 DEF Full
<1>6. Emptying = {}
  BY <1>0 DEF Emptying
<1> QED
  BY <1>0, <1>4, <1>5, <1>6 DEF Ring

\* tpool_create makes a pool with the invariant.
LEMMA InitIInv ==
    ASSUME Init
    PROVE  IInv
<1>0. PICK made \in SUBSET Workers :
         /\ made # {}
         /\ pc = [t \in Threads |-> IF t \in made THEN "take"
                                    ELSE IF t \in Workers THEN "exited" ELSE "idle"]
  BY DEF Init
<1>1. /\ \A t \in Threads : pc[t] \in {"take", "exited", "idle"}
      /\ \A t \in Threads : t \notin Workers => pc[t] = "idle"
      /\ \A w \in Workers : pc[w] \in {"take", "exited"}
      /\ pc[Destroyer] = "idle"
      /\ Posters \subseteq Threads /\ Takers \subseteq Threads /\ Workers \subseteq Threads
      /\ Clients \subseteq Threads /\ Destroyer \in Threads
  BY <1>0, Roles
<1>2. Ring /\ Full = {} /\ Emptying = {}
  BY <1>1, InitRing
<1>3. Shape
  <2>1. seq \in [Slots -> 0..(Wrap - 1)] /\ slot \in [Slots -> Jobs \cup {None}]
    <3>1. \A i \in Slots : i \in 0..(Wrap - 1)
      BY Sizes DEF Slots
    <3>2. seq = [i \in Slots |-> i] /\ slot = [i \in Slots |-> None]
      BY DEF Init
    <3> QED
      BY <3>1, <3>2
  <2>4. over \in Seq(Jobs) /\ stop \in BOOLEAN
    BY EmptySeq DEF Init
  <2>5. parked \in [Workers -> {0, 1}] /\ wake \in [Workers -> BOOLEAN]
    BY DEF Init
  <2>6. /\ job \in [Threads -> Jobs \cup {None}] /\ pos \in [Threads -> Nat]
        /\ next \in [Posters -> Nat \ {0}]
    BY DEF Init
  <2>2. /\ \A p \in Posters : pc[p] \in PosterPlaces
        /\ \A w \in Workers : pc[w] \in WorkerPlaces
        /\ \A c \in Clients : pc[c] \in ClientPlaces
        /\ pc[Destroyer] \in DestroyerPlaces
    BY <1>1, Roles DEF PosterPlaces, WorkerPlaces, ClientPlaces, DestroyerPlaces, TakerPlaces
  <2>3. pc \in [Threads -> PosterPlaces \cup WorkerPlaces \cup ClientPlaces \cup DestroyerPlaces]
    BY <1>0, <1>1 DEF PosterPlaces, WorkerPlaces, TakerPlaces
  <2> QED
    BY <2>1, <2>2, <2>3, <2>4, <2>5, <2>6 DEF Shape
<1>4. \A t \in Threads : pc[t] \notin Posting \cup HandedOver \cup Taking \cup {"retire", "try", "notify", "wake"}
  BY <1>1 DEF Posting, HandedOver, Taking, Taken
<1>5. Tries
  BY <1>1, <1>4 DEF Tries
<1>6. Own
  <2>1. \A t \in Threads : job[t] = None
    BY DEF Init
  <2> QED
    BY <1>1, <1>4, <2>1 DEF Own, Taking
<1>7. Out = {} /\ InOverflow = {}
  <2>1. \A p \in Posters : next[p] = 1
    BY DEF Init
  <2>2. \A j \in Jobs : j[1] \in Posters /\ j[2] \in Nat /\ j[2] >= 1
    BY JobFacts
  <2>3. \A j \in Jobs : ~(j[2] < next[j[1]]) /\ pc[j[1]] \notin HandedOver
    BY <1>1, <1>4, <2>1, <2>2
  <2>4. over = <<>> /\ DOMAIN over = {}
    BY DEF Init
  <2> QED
    BY <2>3, <2>4 DEF Out, InOverflow
<1>8. Apart
  <2>1. \A t \in Takers : job[t] = None
    BY <1>1 DEF Init
  <2>2. over = <<>> /\ Len(over) = 0
    BY DEF Init
  <2> QED
    BY <1>2, <1>7, <2>1, <2>2 DEF Apart
<1>9. Fates
  <2>1. started = {} /\ done = {} /\ dropped = {}
    BY DEF Init
  <2> QED
    BY <1>1, <1>2, <1>4, <1>7, <2>1 DEF Fates, Taking, Taken
<1>10. Counts
  <2>1. Waiting = {}
    BY <1>2, <1>3, <1>7, WaitingIs
  <2>2. /\ Those(Takers, Taking) = {} /\ Those(Posters, Outstanding) = {}
        /\ Those(Takers, {"empty", "uncount"}) = {} /\ Those(Posters, {"count"}) = {}
    BY <1>1, <1>4 DEF Those, Outstanding, Taking, Taken, HandedOver
  <2>3. IsFiniteSet({}) /\ Cardinality({}) = 0
    BY FS_EmptySet
  <2>4. queued = 0 /\ outstanding = 0
    BY DEF Init
  <2> QED
    BY <2>1, <2>2, <2>3, <2>4 DEF Counts
<1>11. Marks
  <2>1. \A w \in Workers : parked[w] = 0 /\ pc[w] \notin {"stop?", "commit", "asleep"}
    BY <1>1 DEF Init
  <2> QED
    BY <1>1, <1>4, <2>1 DEF Marks
<1>12. Awake
  <2>1. queued = 0
    BY DEF Init
  <2>2. \E w \in Workers : pc[w] # "exited"
    BY <1>0, <1>1
  <2> QED
    BY <2>1, <2>2 DEF Awake
<1>13. Shut
  <2>1. stop = FALSE
    BY DEF Init
  <2> QED
    BY <1>1, <2>1 DEF Shut
<1>14. Waits
  <2>1. \A c \in Clients : pc[c] = "idle"
    BY <1>1, Roles
  <2> QED
    BY <2>1 DEF Waits, Init
<1> QED
  BY <1>2, <1>3, <1>5, <1>6, <1>8, <1>9, <1>10, <1>11, <1>12, <1>13, <1>14 DEF IInv

(***************************************************************************)
(* Every step.                                                             *)
(***************************************************************************)
\* A step that changes nothing.
LEMMA StutterIInv ==
    ASSUME IInv, UNCHANGED vars
    PROVE  IInv'
<1> USE DEF vars, ring, list, counts, signals, history
<1>1. Shape' /\ Own' /\ Tries'
  BY DEF IInv, Shape, Own, Tries, SeqAt
<1>2. Ring'
  BY DEF IInv, Ring, RingAt
<1>3. Out' = Out /\ Full' = Full /\ InOverflow' = InOverflow /\ Emptying' = Emptying
  BY DEF Out, Full, InOverflow, Emptying
<1>4. Apart' /\ Fates'
  BY <1>3 DEF IInv, Apart, Fates
<1>5. Waiting' = Waiting
  BY DEF Waiting, InRing, InOverflow
<1>6. Counts'
  BY <1>5 DEF IInv, Counts, Those
<1>7. Marks' /\ Awake'
  BY DEF IInv, Marks, Awake, Going
<1>8. Shut' /\ Waits'
  BY <1>3 DEF IInv, Shut, Waits, PostedJobs
<1> QED
  BY <1>1, <1>2, <1>4, <1>6, <1>7, <1>8 DEF IInv

\* Every step of a poster.
LEMMA PosterKeeps ==
    ASSUME IInv, TryIsBrief, NEW p \in Posters,
           AddWork(p) \/ TryAddWork(p) \/ AllocFails(p) \/ PosterStep(p)
    PROVE  IInv'
<1>0. p \in Threads /\ p # Destroyer
  BY Roles
<1>1. CASE AddWork(p) \/ TryAddWork(p) \/ AllocFails(p)
  BY <1>1, AddWorkStep, TryAddWorkStep, AllocFailsStep
<1>2. CASE Post(p) \/ Put(p) \/ Fill(p) \/ Overflow(p) \/ Alloc(p)
  BY <1>2, PostStep, PutStep, FillStep, OverflowStep, AllocStep
<1>3. CASE Count(p) \/ WakeOne(p) \/ NotifyWorker(p) \/ NobodyParked(p)
  BY <1>3, CountStep, WakeOneStep, NotifyWorkerStep, NobodyParkedStep
<1>4. CASE TryClaim(p) \/ Retire(p) \/ NotifyIdle(p)
  BY <1>0, <1>4, TryClaimStep, RetireStep, NotifyIdleStep
<1> QED
  BY <1>1, <1>2, <1>3, <1>4 DEF PosterStep

\* Every step of a worker or a client that takes and runs a job.
LEMMA TakerKeeps ==
    ASSUME IInv, NEW t \in Takers \ {Destroyer}, TakerStep(t)
    PROVE  IInv'
<1>0. t \in Threads /\ t # Destroyer /\ t \in Takers
  BY Roles
<1>1. CASE TakeRing(t) \/ Empty(t) \/ TakeOver(t)
  BY <1>0, <1>1, TakeRingStep, EmptyStep, TakeOverStep
<1>2. CASE Uncount(t) \/ Finish(t)
  BY <1>2, UncountStep, FinishStep
<1>3. CASE Retire(t) \/ NotifyIdle(t)
  BY <1>0, <1>3, RetireStep, NotifyIdleStep
<1> QED
  BY <1>1, <1>2, <1>3 DEF TakerStep

\* Every step of a worker.
LEMMA WorkerKeeps ==
    ASSUME IInv, NEW w \in Workers, WorkerStep(w) \/ Spurious(w)
    PROVE  IInv'
<1>0. w \in Takers \ {Destroyer} /\ w \notin Clients
  BY Roles
<1>1. CASE TakerStep(w)
  BY <1>0, <1>1, TakerKeeps
<1>2. CASE CheckStop(w) \/ Mark(w) \/ Prepare(w) \/ LookQueued(w) \/ LookMark(w) \/ Unmark(w)
  BY <1>2, CheckStopStep, MarkStep, PrepareStep, LookQueuedStep, LookMarkStep, UnmarkStep
<1>3. CASE LookStop(w) \/ Commit(w) \/ WakeUp(w)
  BY <1>3, SleepSteps
<1>4. CASE Spurious(w)
  <2>1. Move(w, "asleep", "unmark")
    BY <1>0, <1>4 DEF Spurious, Move
  <2> QED
    BY <2>1, SleepSteps
<1> QED
  BY <1>1, <1>2, <1>3, <1>4 DEF WorkerStep

\* Every step of a client.
LEMMA ClientKeeps ==
    ASSUME IInv, NEW c \in Clients, Help(c) \/ Wait(c) \/ ClientStep(c) \/ Spurious(c)
    PROVE  IInv'
<1>0. c \in Takers \ {Destroyer} /\ c \notin Workers
  BY Roles
<1>1. CASE TakerStep(c)
  BY <1>0, <1>1, TakerKeeps
<1>2. CASE Help(c) \/ HelpFindsNone(c)
  BY <1>2, HelpStep
<1>3. CASE Wait(c) \/ WaitReturn(c)
  BY <1>3, WaitEnds
<1>4. CASE WaitTest(c) \/ WaitPrepare(c) \/ WaitTestAgain(c) \/ WaitCommit(c) \/ WaitWakeUp(c)
  BY <1>4, WaitSteps
<1>5. CASE Spurious(c)
  <2>1. Move(c, "iasleep", "wait")
    BY <1>0, <1>5 DEF Spurious, Move
  <2> QED
    BY <2>1, WaitSteps
<1> QED
  BY <1>1, <1>2, <1>3, <1>4, <1>5 DEF ClientStep

\* Every step of tpool_destroy.
LEMMA DestroyerKeeps ==
    ASSUME IInv, Destroy \/ DestroyerStep
    PROVE  IInv'
<1>0. Destroyer \in Takers
  BY Roles
<1>1. CASE TakeRing(Destroyer) \/ Empty(Destroyer) \/ TakeOver(Destroyer)
  BY <1>0, <1>1, TakeRingStep, EmptyStep, TakeOverStep
<1>2. CASE Drop
  BY <1>2, DropStep
<1>3. CASE StopAll \/ NotifyNext
  BY <1>3, StopSteps
<1>4. CASE Destroy \/ NotifiedAll \/ Join
  BY <1>4, DestroyMoveSteps
<1> QED
  BY <1>1, <1>2, <1>3, <1>4 DEF DestroyerStep

\* The invariant is inductive, while no tpool_try_add_work spans a wrap.
LEMMA NextIInv ==
    ASSUME IInv, [Next]_vars, [TryIsBrief]_vars
    PROVE  IInv'
<1>1. CASE UNCHANGED vars
  BY <1>1, StutterIInv
<1>2. CASE Next /\ TryIsBrief
  <2>1. CASE \E p \in Posters : AddWork(p) \/ TryAddWork(p) \/ AllocFails(p) \/ PosterStep(p)
    BY <1>2, <2>1, PosterKeeps
  <2>2. CASE \E w \in Workers : WorkerStep(w) \/ Spurious(w)
    BY <2>2, WorkerKeeps
  <2>3. CASE \E c \in Clients : Help(c) \/ Wait(c) \/ ClientStep(c) \/ Spurious(c)
    BY <2>3, ClientKeeps
  <2>4. CASE Destroy \/ DestroyerStep
    BY <2>4, DestroyerKeeps
  <2> QED
    BY <1>2, <2>1, <2>2, <2>3, <2>4 DEF Next
<1> QED
  BY <1>1, <1>2

(***************************************************************************)
(* The theorems.                                                           *)
(***************************************************************************)
\* The inductive invariant: in every behaviour in which no tpool_try_add_work
\* is under way while as many jobs are posted as there are positions.
THEOREM Invariance == Spec /\ [][TryIsBrief]_vars => []IInv
<1>1. Init => IInv
  BY InitIInv
<1>2. IInv /\ [Next]_vars /\ [TryIsBrief]_vars => IInv'
  BY NextIInv
<1> QED
  BY <1>1, <1>2, PTL DEF Spec

\* The types of the ring's ends, of the slots and of the rest.
LEMMA IInvTypeOK ==
    ASSUME IInv
    PROVE  TypeOK
<1>0. Shape /\ Ring /\ queued \in Int /\ outstanding \in Nat
  BY Parts
<1>1. PICK E \in Nat, D \in Nat : RingAt(E, D)
  BY <1>0 DEF Ring
<1>2. enq \in 0..(Wrap - 1) /\ deq \in 0..(Wrap - 1)
  BY <1>1, TurnsAndSlots DEF RingAt
<1> QED
  BY <1>0, <1>2 DEF TypeOK, Shape

\* A job is in one place, and its fate decided once.
LEMMA IInvExactlyOnce ==
    ASSUME IInv
    PROVE  ExactlyOnce
<1>1. Shape /\ Ring /\ Apart /\ Fates
  BY DEF IInv
<1>2. \A t, u \in Takers : t # u /\ job[t] # None => job[t] # job[u]
  BY <1>1 DEF Apart
<1>3. \A t \in Takers : pc[t] = "uncount" => job[t] \notin started \cup dropped
  BY <1>1 DEF Fates
<1>4. Waiting \cap (started \cup dropped) = {}
  BY <1>1, WaitingIs DEF Fates
<1> QED
  BY <1>2, <1>3, <1>4 DEF ExactlyOnce

\* The numbers of Counts are those the property names.
LEMMA IInvCountsExact ==
    ASSUME IInv
    PROVE  CountsExact
<1>0. Shape /\ Own /\ Counts
  BY DEF IInv
<1>1. TypeOK
  BY IInvTypeOK
<1>r. Posters \subseteq Threads /\ Takers \subseteq Threads
  BY Roles
<1> DEFINE A == {t \in Takers : pc[t] = "empty"}
           B == InHand({"uncount", "running", "retire"}) \cap Takers
           P == InHand({"post", "put", "fill", "over", "alloc", "try", "retire"}) \cap Posters
<1>2. Those(Takers, Taking) = A \cup B /\ A \cap B = {}
  BY <1>0, <1>r DEF Own, InHand, Those, Taking, Taken
<1>3. Those(Posters, Outstanding) = P
  <2>1. \A p \in Posters : pc[p] \in Outstanding => job[p] # None
    <3>1. ASSUME NEW p \in Posters, pc[p] \in Posting PROVE job[p] # None
      <4>1. job[p] = <<p, next[p]>> /\ next[p] \in 1..JobsEach[p]
        BY <1>0, <3>1, JobFacts DEF Own, Shape
      <4> QED
        BY <4>1, JobFacts, TPoolAssumption
    <3>2. \A p \in Posters : pc[p] = "retire" => job[p] # None
      BY <1>0 DEF Own
    <3> QED
      BY <3>1, <3>2 DEF Outstanding
  <2> QED
    BY <1>r, <2>1 DEF InHand, Those, Outstanding, Posting
<1>4. /\ Those(Takers, {"empty", "uncount"}) = {t \in Takers : pc[t] \in {"empty", "uncount"}}
      /\ Those(Posters, {"count"}) = {p \in Posters : pc[p] = "count"}
  BY DEF Those
<1>5. IsFiniteSet(A) /\ IsFiniteSet(B)
  <2>1. A \subseteq Takers /\ B \subseteq Takers /\ IsFiniteSet(Takers)
    BY ThreadsFinite
  <2> HIDE DEF A, B
  <2> QED
    BY <2>1, FS_Subset
<1>6. Cardinality(Those(Takers, Taking)) = Cardinality(A) + Cardinality(B)
  <2> HIDE DEF A, B
  <2>1. /\ Cardinality(A \cup B) = Cardinality(A) + Cardinality(B) - Cardinality(A \cap B)
        /\ Cardinality(A) \in Nat /\ Cardinality(B) \in Nat /\ Cardinality(A \cap B) = 0
    BY <1>2, <1>5, FS_Union, FS_EmptySet, FS_CardinalityType
  <2> QED
    BY <1>2, <2>1
<1>7. outstanding = Cardinality(Waiting) + Cardinality(A) + Cardinality(B) + Cardinality(P)
  <2> DEFINE k == Cardinality(Waiting)
             a == Cardinality(A)
             b == Cardinality(B)
             m == Cardinality(P)
             n == Cardinality(Those(Takers, Taking))
  <2>1. k \in Nat /\ a \in Nat /\ b \in Nat
    BY <1>0, <1>5, FS_CardinalityType DEF Counts
  <2>2. outstanding = k + n + m /\ n = a + b
    BY <1>0, <1>3, <1>6 DEF Counts
  <2>3. m \in Nat
    <3>1. IsFiniteSet(P)
      BY <1>3, ThreadsFinite
    <3> QED
      BY <3>1, FS_CardinalityType
  <2> HIDE DEF k, a, b, m, n
  <2>4. outstanding = k + a + b + m
    BY <2>1, <2>2, <2>3
  <2> QED
    BY <2>4 DEF k, a, b, m
<1>8. queued = Cardinality(Waiting) + Cardinality({t \in Takers : pc[t] \in {"empty", "uncount"}})
                 - Cardinality({p \in Posters : pc[p] = "count"})
  BY <1>0, <1>4 DEF Counts
<1> QED
  BY <1>1, <1>7, <1>8 DEF CountsExact

\* With something queued a worker is up, or a poster is on its way to one.
LEMMA IInvNoLostWakeup ==
    ASSUME IInv
    PROVE  NoLostWakeup
<1>0. Shape /\ Ring /\ Counts /\ Marks /\ Awake /\ Shut
  BY DEF IInv
<1>1. SUFFICES ASSUME Waiting # {}, \A p \in Posters : pc[p] = "idle"
               PROVE  \E w \in Workers : WillLook(w)
  BY DEF NoLostWakeup
<1>2. ~stop
  <2>1. SUFFICES ASSUME stop PROVE FALSE
    OBVIOUS
  <2>2. Full \ Emptying = {} /\ over = <<>>
    BY <1>0, <2>1 DEF Shut
  <2>3. InOverflow = {}
    BY <2>2 DEF InOverflow
  <2> QED
    BY <1>0, <1>1, <2>2, <2>3, WaitingIs
<1>3. queued > 0
  <2> DEFINE k == Cardinality(Waiting)
             a == Cardinality(Those(Takers, {"empty", "uncount"}))
             m == Cardinality(Those(Posters, {"count"}))
  <2>1. m = 0
    <3>1. Those(Posters, {"count"}) = {}
      BY <1>1 DEF Those
    <3> QED
      BY <3>1, FS_EmptySet
  <2>2. k \in Nat /\ k # 0
    BY <1>0, <1>1, FS_EmptySet, FS_CardinalityType DEF Counts
  <2>3. a \in Nat
    BY ThreadsFinite, FS_CardinalityType
  <2>4. queued = k + a - m
    BY <1>0 DEF Counts
  <2> HIDE DEF k, a, m
  <2> QED
    BY <2>1, <2>2, <2>3, <2>4
<1>4. PICK w \in Workers : Going(w)
  BY <1>0, <1>1, <1>2, <1>3 DEF Awake
<1>5. pc[w] # "exited"
  BY <1>4 DEF Going
<1>6. ASSUME pc[w] = "asleep" PROVE wake[w]
  <2>1. parked[w] = 0 \/ wake[w]
    BY <1>4, <1>6 DEF Going
  <2>2. parked[w] = 0 => wake[w] \/ \E p \in Posters : pc[p] = "notify" /\ pos[p] = w
    BY <1>0, <1>6 DEF Marks
  <2> QED
    BY <1>1, <2>1, <2>2
<1> QED
  BY <1>5, <1>6 DEF WillLook

\* After tpool_destroy there is no thread and no job.
LEMMA IInvDestroyedMeansGone ==
    ASSUME IInv
    PROVE  DestroyedMeansGone
<1>0. Shape /\ Ring /\ Fates /\ Counts /\ Shut
  BY DEF IInv
<1>1. SUFFICES ASSUME pc[Destroyer] = "destroyed"
               PROVE  started = done /\ Waiting = {} /\ queued = 0 /\ outstanding = 0
  BY DEF DestroyedMeansGone
<1>2. /\ \A t \in Posters \cup Clients : pc[t] = "idle"
      /\ \A w \in Workers : pc[w] = "exited"
      /\ Full \ Emptying = {} /\ over = <<>>
  BY <1>0, <1>1 DEF Shut
<1>3. \A t \in Takers : pc[t] \in {"idle", "exited", "destroyed"}
  BY <1>1, <1>2 DEF Takers
<1>4. started = done
  BY <1>0, <1>3 DEF Fates
<1>5. Waiting = {}
  <2>1. InOverflow = {}
    BY <1>2 DEF InOverflow
  <2> QED
    BY <1>0, <1>2, <2>1, WaitingIs
<1>6. /\ Those(Takers, Taking) = {} /\ Those(Takers, {"empty", "uncount"}) = {}
      /\ Those(Posters, Outstanding) = {} /\ Those(Posters, {"count"}) = {}
  BY <1>2, <1>3 DEF Those, Taking, Taken, Outstanding, Posting
<1>7. Cardinality({}) = 0
  BY FS_EmptySet
<1>8. queued = 0 /\ outstanding = 0
  BY <1>0, <1>5, <1>6, <1>7 DEF Counts
<1> QED
  BY <1>4, <1>5, <1>8

\* No job is run twice, nor run and dropped.
THEOREM ExactlyOnceHolds == Spec /\ [][TryIsBrief]_vars => []ExactlyOnce
<1>1. IInv => ExactlyOnce
  BY IInvExactlyOnce
<1> QED
  BY <1>1, Invariance, PTL

\* Both counts are exact, up to the steps under way.
THEOREM CountsExactHolds == Spec /\ [][TryIsBrief]_vars => []CountsExact
<1>1. IInv => CountsExact
  BY IInvCountsExact
<1> QED
  BY <1>1, Invariance, PTL

\* With no poster inside the pool, a job that waits has a worker that will look
\* for it.
THEOREM NoLostWakeupHolds == Spec /\ [][TryIsBrief]_vars => []NoLostWakeup
<1>1. IInv => NoLostWakeup
  BY IInvNoLostWakeup
<1> QED
  BY <1>1, Invariance, PTL

\* When tpool_wait returns, every job accepted before it was called is over.
THEOREM WaitMeansDoneHolds == Spec /\ [][TryIsBrief]_vars => []WaitMeansDone
<1>1. IInv => WaitMeansDone
  BY DEF IInv, Waits, WaitMeansDone
<1> QED
  BY <1>1, Invariance, PTL

\* When tpool_destroy returns, nothing runs and nothing is left.
THEOREM DestroyedMeansGoneHolds == Spec /\ [][TryIsBrief]_vars => []DestroyedMeansGone
<1>1. IInv => DestroyedMeansGone
  BY IInvDestroyedMeansGone
<1> QED
  BY <1>1, Invariance, PTL

=============================================================================
