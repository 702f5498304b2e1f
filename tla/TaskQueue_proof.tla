--------------------------- MODULE TaskQueue_proof --------------------------
(***************************************************************************)
(* The threaded runner of task_queue.c, for any number of tasks, workers   *)
(* and other threads, any kinds of task and any depth of nested checks.    *)
(*                                                                         *)
(* None of the properties is inductive by itself.  A task is in one list   *)
(* and once (Lists), and who runs its handler took it from the running     *)
(* list and has it alone (WorkersHold, MainHolds), which needs that Main   *)
(* is in one pass over its own tasks and in one gather, however deep its   *)
(* calls are nested (Calls), and that a task is pushed by one thread       *)
(* (Pushers).  A park and a wake meet in the pass that is being settled    *)
(* (Parking, Passes, Wakes).  The counts that Main reads without a lock    *)
(* may be late but are never zero too early (Counts), and a wait that saw  *)
(* a list without its tasks still does, because a task only moves on       *)
(* (Waits).                                                                *)
(*                                                                         *)
(* After the lemmas on sequences, the proof has a section for each kind of *)
(* step: those that move no task, those of the workers, of Main and of the *)
(* others.  What a recursive definition computes is shown at its least     *)
(* counterexample (LeastNat).                                              *)
(***************************************************************************)
EXTENDS TaskQueue, FiniteSetTheorems, SequenceTheorems, NaturalsInduction, TLAPS

(***************************************************************************)
(* Sequences.                                                              *)
(***************************************************************************)
\* A set of naturals that is not empty has a least member.
LEMMA LeastNat ==
    ASSUME NEW T \in SUBSET Nat, T # {}
    PROVE  /\ Min(T) \in T
           /\ \A y \in T : Min(T) <= y
<1>1. PICK x \in T : \A y \in T : ~ (<<y, x>> \in OpToRel(<, Nat))
  BY NatLessThanWellFounded, WFMin, Zenon
<1>2. ASSUME NEW y \in T PROVE x <= y
  <2>1. x \in Nat /\ y \in Nat
    OBVIOUS
  <2>2. ~ (y < x)
    BY <2>1, <1>1 DEF OpToRel
  <2> QED
    BY <2>1, <2>2, SMT
<1> QED
  BY <1>2, Zenon DEF Min

\* What the search of a list for one entry returns.
LEMMA IndexOf ==
    ASSUME NEW S, NEW s \in Seq(S), NEW t \in ToSet(s),
           NEW i, i = SelectInSeq(s, LAMBDA v : v = t)
    PROVE  i \in 1..Len(s) /\ s[i] = t
<1> DEFINE I == {k \in 1..Len(s) : s[k] = t}
<1>1. I # {} /\ I \in SUBSET Nat
  BY DEF ToSet
<1>2. Min(I) \in I
  <2> HIDE DEF I
  <2> QED BY <1>1, LeastNat
<1>3. i = Min(I)
  BY <1>1 DEF SelectInSeq
<1> QED
  BY <1>2, <1>3

\* An entry of a sequence is the value at one of its positions.
LEMMA Occurs ==
    ASSUME NEW S, NEW s \in Seq(S), NEW x
    PROVE  x \in ToSet(s) <=> \E i \in 1..Len(s) : s[i] = x
BY DEF ToSet

\* A list with one entry more.
More(r, s, t) ==
    /\ r \in Seq(Tasks) /\ IsInjective(r)
    /\ ToSet(r) = ToSet(s) \cup {t}
    /\ Len(r) = Len(s) + 1

\* A list with one entry less.
Less(r, s, t) ==
    /\ r \in Seq(Tasks) /\ IsInjective(r)
    /\ ToSet(r) = ToSet(s) \ {t}
    /\ Len(r) = Len(s) - 1

\* A list with the same entries, in whatever order.
Same(r, s) ==
    /\ r \in Seq(Tasks) /\ IsInjective(r)
    /\ ToSet(r) = ToSet(s)
    /\ Len(r) = Len(s)

\* Where the entries of a list are once t has gone in at i.
LEMMA Inserted ==
    ASSUME NEW s \in Seq(Tasks), NEW t \in Tasks, NEW i \in 1..(Len(s) + 1)
    PROVE  /\ InsertAt(s, i, t) \in Seq(Tasks)
           /\ Len(InsertAt(s, i, t)) = Len(s) + 1
           /\ \A k \in 1..(Len(s) + 1) :
                 InsertAt(s, i, t)[k] = IF k < i THEN s[k] ELSE IF k = i THEN t ELSE s[k - 1]
<1> DEFINE a == SubSeq(s, 1, i - 1)
           b == SubSeq(s, i, Len(s))
           c == a \o <<t>>
<1>0. Len(s) \in Nat /\ \A k \in 1..Len(s) : s[k] \in Tasks
  BY LenProperties, ElementOfSeq
<1>1. /\ a \in Seq(Tasks) /\ Len(a) = i - 1
      /\ \A k \in 1..(i - 1) : a[k] = s[k]
  <2>1. \A k \in 1..(i - 1) : s[k] \in Tasks
    BY <1>0
  <2> QED
    BY <1>0, <2>1, SubSeqProperties
<1>2. /\ b \in Seq(Tasks) /\ Len(b) = Len(s) - i + 1
      /\ \A k \in 1..(Len(s) - i + 1) : b[k] = s[i + k - 1]
  <2>1. \A k \in i..Len(s) : s[k] \in Tasks
    BY <1>0
  <2> QED
    BY <1>0, <2>1, SubSeqProperties
<1>3. InsertAt(s, i, t) = c \o b
  BY DEF InsertAt
<1>4. <<t>> \in Seq(Tasks) /\ Len(<<t>>) = 1 /\ <<t>>[1] = t
  OBVIOUS
<1> HIDE DEF a, b
<1>5. /\ c \in Seq(Tasks) /\ Len(c) = i
      /\ \A k \in 1..i : c[k] = IF k < i THEN s[k] ELSE t
  BY <1>0, <1>1, <1>4, ConcatProperties
<1> HIDE DEF c
<1>6. /\ c \o b \in Seq(Tasks) /\ Len(c \o b) = Len(c) + Len(b)
      /\ \A k \in 1..(Len(c) + Len(b)) :
            (c \o b)[k] = IF k <= Len(c) THEN c[k] ELSE b[k - Len(c)]
  BY <1>2, <1>5, ConcatProperties
<1> DEFINE d == c \o b
<1> HIDE DEF d
<1>7. /\ d \in Seq(Tasks) /\ Len(d) = Len(s) + 1
      /\ \A k \in 1..(Len(s) + 1) : d[k] = IF k <= i THEN c[k] ELSE b[k - i]
  BY <1>0, <1>2, <1>5, <1>6 DEF d
<1>8. ASSUME NEW k \in 1..(Len(s) + 1)
      PROVE  d[k] = IF k < i THEN s[k] ELSE IF k = i THEN t ELSE s[k - 1]
  <2>1. CASE k <= i
    BY <1>5, <1>7, <2>1
  <2>2. CASE k > i
    <3>1. k - i \in 1..(Len(s) - i + 1) /\ i + (k - i) - 1 = k - 1
      BY <1>0, <2>2
    <3> QED
      BY <1>0, <1>2, <1>7, <2>2, <3>1
  <2> QED
    BY <1>0, <2>1, <2>2
<1> QED
  BY <1>3, <1>7, <1>8 DEF d

\* task_queue_put adds its task and nothing else.
LEMMA PutMore ==
    ASSUME NEW s \in Seq(Tasks), IsInjective(s), NEW t \in Tasks \ ToSet(s),
           NEW w, NEW r \in Put(s, t, w)
    PROVE  More(r, s, t)
<1>1. PICK i \in 1..(Len(s) + 1) : r = InsertAt(s, i, t)
  BY Zenon DEF Put
<1>2. /\ r \in Seq(Tasks) /\ Len(r) = Len(s) + 1
      /\ \A k \in 1..(Len(s) + 1) :
            r[k] = IF k < i THEN s[k] ELSE IF k = i THEN t ELSE s[k - 1]
  <2>1. t \in Tasks
    OBVIOUS
  <2>2. i \in 1..(Len(s) + 1)
    OBVIOUS
  <2>3. /\ InsertAt(s, i, t) \in Seq(Tasks)
        /\ Len(InsertAt(s, i, t)) = Len(s) + 1
        /\ \A k \in 1..(Len(s) + 1) :
              InsertAt(s, i, t)[k] = IF k < i THEN s[k] ELSE IF k = i THEN t ELSE s[k - 1]
    BY <2>1, <2>2, Inserted
  <2> HIDE DEF InsertAt
  <2> QED
    BY <1>1, <2>3
<1>0. Len(s) \in Nat /\ DOMAIN s = 1..Len(s) /\ DOMAIN r = 1..Len(r)
  BY <1>2, LenProperties
<1>3. IsInjective(r)
  <2>1. \A k \in 1..Len(s) : s[k] # t
    BY Occurs
  <2>2. \A a, b \in 1..Len(s) : s[a] = s[b] => a = b
    BY <1>0 DEF IsInjective
  <2>3. \A a, b \in 1..Len(r) : r[a] = r[b] => a = b
    <3> DEFINE From(k) == IF k < i THEN k ELSE k - 1
    <3>1. \A k \in 1..Len(r) \ {i} : From(k) \in 1..Len(s) /\ r[k] = s[From(k)]
      BY <1>0, <1>2
    <3>2. \A a, b \in 1..Len(r) \ {i} : From(a) = From(b) => a = b
      BY <1>0, <1>2
    <3>3. \A a \in 1..Len(r) \ {i} : r[a] # r[i]
      BY <1>0, <1>2, <2>1, <3>1
    <3> HIDE DEF From
    <3>4. \A a, b \in 1..Len(r) \ {i} : r[a] = r[b] => a = b
      BY <2>2, <3>1, <3>2
    <3> QED
      BY <3>3, <3>4
  <2> QED
    BY <1>0, <2>3 DEF IsInjective
<1>4. \A x : x \in ToSet(s) \cup {t} => x \in ToSet(r)
  <2>1. \A x \in ToSet(s) : x \in ToSet(r)
    <3> TAKE x \in ToSet(s)
    <3>1. PICK k \in 1..Len(s) : s[k] = x
      BY Occurs
    <3>2. r[IF k < i THEN k ELSE k + 1] = x /\ (IF k < i THEN k ELSE k + 1) \in 1..Len(r)
      BY <3>1, <1>2
    <3> QED
      BY <3>2, <1>2, Occurs
  <2>2. t \in ToSet(r)
    BY <1>2, Occurs
  <2> QED
    BY <2>1, <2>2
<1>5. \A x \in ToSet(r) : x \in ToSet(s) \cup {t}
  <2> TAKE x \in ToSet(r)
  <2>1. PICK k \in 1..Len(r) : r[k] = x
    BY <1>2, Occurs
  <2>2. x = t \/ \E j \in 1..Len(s) : s[j] = x
    BY <2>1, <1>0, <1>2
  <2> QED
    BY <2>2, Occurs
<1> QED
  BY <1>2, <1>3, <1>4, <1>5 DEF More

\* Where the entries of a list are once the one at i is out.
LEMMA Removed ==
    ASSUME NEW s \in Seq(Tasks), NEW i \in 1..Len(s)
    PROVE  /\ RemoveAt(s, i) \in Seq(Tasks)
           /\ Len(RemoveAt(s, i)) = Len(s) - 1
           /\ \A k \in 1..(Len(s) - 1) :
                 RemoveAt(s, i)[k] = IF k < i THEN s[k] ELSE s[k + 1]
<1> DEFINE a == SubSeq(s, 1, i - 1)
           b == SubSeq(s, i + 1, Len(s))
<1>0. Len(s) \in Nat /\ \A k \in 1..Len(s) : s[k] \in Tasks
  BY LenProperties, ElementOfSeq
<1>1. /\ a \in Seq(Tasks) /\ Len(a) = i - 1
      /\ \A k \in 1..(i - 1) : a[k] = s[k]
  <2>1. \A k \in 1..(i - 1) : s[k] \in Tasks
    BY <1>0
  <2> QED
    BY <1>0, <2>1, SubSeqProperties
<1>2. /\ b \in Seq(Tasks) /\ Len(b) = Len(s) - i
      /\ \A k \in 1..(Len(s) - i) : b[k] = s[i + k]
  <2>1. \A k \in (i + 1)..Len(s) : s[k] \in Tasks
    BY <1>0
  <2> QED
    BY <1>0, <2>1, SubSeqProperties
<1>3. RemoveAt(s, i) = a \o b
  BY DEF RemoveAt
<1> HIDE DEF a, b
<1>4. /\ a \o b \in Seq(Tasks) /\ Len(a \o b) = Len(a) + Len(b)
      /\ \A k \in 1..(Len(a) + Len(b)) :
            (a \o b)[k] = IF k <= Len(a) THEN a[k] ELSE b[k - Len(a)]
  BY <1>1, <1>2, ConcatProperties
<1> DEFINE d == a \o b
<1> HIDE DEF d
<1>5. /\ d \in Seq(Tasks) /\ Len(d) = Len(s) - 1
      /\ \A k \in 1..(Len(s) - 1) : d[k] = IF k < i THEN s[k] ELSE b[k - (i - 1)]
  BY <1>0, <1>1, <1>2, <1>4 DEF d
<1>6. ASSUME NEW k \in 1..(Len(s) - 1), ~(k < i)
      PROVE  b[k - (i - 1)] = s[k + 1]
  <2>1. k - (i - 1) \in 1..(Len(s) - i) /\ i + (k - (i - 1)) = k + 1
    BY <1>0, <1>6
  <2> QED
    BY <1>2, <2>1
<1> QED
  BY <1>3, <1>5, <1>6 DEF d

\* task_queue_remove takes out its task and nothing else.
LEMMA RemoveLess ==
    ASSUME NEW s \in Seq(Tasks), IsInjective(s), NEW t \in ToSet(s)
    PROVE  Less(RemoveFirst(s, t), s, t)
<1> DEFINE i == SelectInSeq(s, LAMBDA v : v = t)
           r == RemoveFirst(s, t)
<1>1. i \in 1..Len(s) /\ s[i] = t
  BY IndexOf
<1>2. r = RemoveAt(s, i)
  BY Occurs DEF RemoveFirst
<1> HIDE DEF i, r
<1>3. /\ r \in Seq(Tasks) /\ Len(r) = Len(s) - 1
      /\ \A k \in 1..(Len(s) - 1) : r[k] = IF k < i THEN s[k] ELSE s[k + 1]
  BY <1>1, <1>2, Removed
<1>4. IsInjective(r)
  BY <1>1, <1>3 DEF IsInjective
<1>5. \A x \in ToSet(s) \ {t} : x \in ToSet(r)
  <2> TAKE x \in ToSet(s) \ {t}
  <2>1. PICK k \in 1..Len(s) : s[k] = x
    BY Occurs
  <2>2. r[IF k < i THEN k ELSE k - 1] = x /\ (IF k < i THEN k ELSE k - 1) \in 1..Len(r)
    BY <2>1, <1>1, <1>3
  <2> QED
    BY <2>2, <1>3, Occurs
<1>6. \A x \in ToSet(r) : x \in ToSet(s) \ {t}
  <2> TAKE x \in ToSet(r)
  <2>1. PICK k \in 1..Len(r) : r[k] = x
    BY <1>3, Occurs
  <2>2. PICK j \in 1..Len(s) : s[j] = x /\ j # i
    BY <2>1, <1>1, <1>3
  <2> QED
    BY <2>2, <1>1, Occurs DEF IsInjective
<1> QED
  BY <1>3, <1>4, <1>5, <1>6 DEF Less, r

\* Taking a task out and putting it back moves it.
LEMMA PutBack ==
    ASSUME NEW s \in Seq(Tasks), IsInjective(s), NEW t \in ToSet(s),
           NEW w, NEW r \in Put(RemoveFirst(s, t), t, w)
    PROVE  Same(r, s)
<1>1. Less(RemoveFirst(s, t), s, t) /\ t \in Tasks
  BY RemoveLess DEF ToSet
<1>2. More(r, RemoveFirst(s, t), t)
  BY <1>1, PutMore DEF Less
<1> QED
  BY <1>1, <1>2 DEF Less, More, Same

\* Moving a list entry by entry moves all of it.
LEMMA PutAllMoves ==
    ASSUME NEW from \in Seq(Tasks), NEW to \in Seq(Tasks),
           IsInjective(from), IsInjective(to), ToSet(from) \cap ToSet(to) = {},
           NEW r \in PutAll(from, to)
    PROVE  /\ r \in Seq(Tasks) /\ IsInjective(r)
           /\ ToSet(r) = ToSet(from) \cup ToSet(to)
<1> DEFINE N == Len(from)
           PutEach(S, n) == UNION {Put(s, from[n], when) : s \in S}
           Body(g, n) == IF n = 0 THEN {to} ELSE PutEach(g[n - 1], n)
           Built(g, k) == g = [n \in 0..k |-> Body(g, n)]
           moved == CHOOSE g : g = [n \in 0..N |-> Body(g, n)]
<1>0. N \in Nat
  BY LenProperties
<1>1. r \in moved[N]
  BY Zenon DEF PutAll
<1>2. \A k \in 0..N : \E g : Built(g, k)
  <2> DEFINE T == {k \in 0..N : ~ \E g : Built(g, k)}
             k == Min(T)
  <2> SUFFICES ASSUME T # {} PROVE FALSE
    OBVIOUS
  <2>1. k \in T /\ \A j \in T : k <= j
    <3>1. T \in SUBSET Nat
      OBVIOUS
    <3> HIDE DEF T
    <3> QED
      BY <3>1, LeastNat
  <2> HIDE DEF k
  <2>2. k \in 0..N /\ ~ \E g : Built(g, k)
    BY <2>1
  <2>3. CASE k = 0
    <3> DEFINE g == [n \in 0..k |-> {to}]
    <3>1. g = [n \in 0..k |-> Body(g, n)]
      BY <2>3
    <3> QED
      BY <2>2, <3>1
  <2>4. CASE k # 0
    <3>1. k - 1 \in 0..N /\ k - 1 \notin T
      BY <1>0, <2>1, <2>2, <2>4
    <3>2. PICK g : Built(g, k - 1)
      BY <3>1
    <3>3. \A n \in 0..(k - 1) : g[n] = Body(g, n)
      <4> HIDE DEF Body
      <4> QED BY <3>2
    <3> DEFINE h == [n \in 0..k |-> IF n = k THEN PutEach(g[k - 1], k) ELSE g[n]]
    <3> HIDE DEF PutEach
    <3>4. ASSUME NEW n \in 0..k PROVE h[n] = Body(h, n)
      <4>1. CASE n = 0
        BY <4>1, <2>2, <2>4, <3>3
      <4>2. CASE n # 0
        <5>1. n - 1 \in 0..(k - 1) /\ h[n - 1] = g[n - 1]
          BY <4>2, <2>2
        <5>2. CASE n = k
          <6>1. h[n] = PutEach(g[n - 1], n)
            BY <5>2
          <6>2. Body(h, n) = PutEach(h[n - 1], n)
            <7> HIDE DEF h
            <7> QED BY <4>2
          <6> QED
            BY <5>1, <6>1, <6>2
        <5>3. CASE n # k
          <6>1. n \in 0..(k - 1) /\ h[n] = g[n]
            BY <5>3, <2>2
          <6>2. g[n] = PutEach(g[n - 1], n)
            BY <6>1, <3>3, <4>2
          <6>3. Body(h, n) = PutEach(h[n - 1], n)
            <7> HIDE DEF h
            <7> QED BY <4>2
          <6> QED
            BY <5>1, <6>1, <6>2, <6>3
        <5> QED
          BY <5>2, <5>3
      <4> QED
        BY <4>1, <4>2
    <3>5. h = [n \in 0..k |-> Body(h, n)]
      <4>1. h = [n \in 0..k |-> h[n]]
        OBVIOUS
      <4> HIDE DEF h, Body
      <4> QED
        BY <3>4, <4>1, Zenon
    <3> QED
      BY <2>2, <3>5
  <2> QED
    BY <2>3, <2>4
<1>3. moved = [n \in 0..N |-> Body(moved, n)]
  <2>1. \E g : g = [n \in 0..N |-> Body(g, n)]
    <3>1. N \in 0..N
      BY <1>0
    <3> HIDE DEF N, Body
    <3> QED
      BY <3>1, <1>2, Zenon
  <2> HIDE DEF Body
  <2> QED
    BY <2>1, Zenon
<1> HIDE DEF moved
<1>4. /\ moved[0] = {to}
      /\ \A n \in 1..N : moved[n] = PutEach(moved[n - 1], n)
  <2>1. \A n \in 0..N : moved[n] = Body(moved, n)
    <3> HIDE DEF Body
    <3> QED BY <1>3
  <2> HIDE DEF PutEach
  <2> QED
    BY <1>0, <2>1
<1> DEFINE First(n) == {from[j] : j \in 1..n}
           Good(s, n) == /\ s \in Seq(Tasks) /\ IsInjective(s)
                         /\ ToSet(s) = First(n) \cup ToSet(to)
<1>5. \A n \in 0..N : \A s \in moved[n] : Good(s, n)
  <2> DEFINE T == {n \in 0..N : ~ \A s \in moved[n] : Good(s, n)}
             n == Min(T)
  <2> SUFFICES ASSUME T # {} PROVE FALSE
    OBVIOUS
  <2>1. n \in T /\ \A j \in T : n <= j
    <3>1. T \in SUBSET Nat
      OBVIOUS
    <3> HIDE DEF T
    <3> QED
      BY <3>1, LeastNat
  <2> HIDE DEF n
  <2>2. n \in 0..N
    BY <2>1
  <2>3. PICK s \in moved[n] : ~ Good(s, n)
    BY <2>1
  <2>4. CASE n = 0
    <3>1. s = to /\ First(n) = {}
      BY <2>3, <2>4, <1>4
    <3> QED
      BY <2>3, <3>1
  <2>5. CASE n # 0
    <3>1. n - 1 \in 0..N /\ n - 1 \notin T
      BY <1>0, <2>1, <2>2, <2>5
    <3>2. s \in PutEach(moved[n - 1], n)
      <4> HIDE DEF PutEach
      <4> QED BY <2>2, <2>3, <2>5, <1>0, <1>4
    <3>3. PICK q \in moved[n - 1] : s \in Put(q, from[n], when)
      BY <3>2, Zenon
    <3>4. Good(q, n - 1)
      BY <3>1, <3>3
    <3>5. from[n] \in Tasks \ ToSet(q)
      <4>1. n \in 1..N
        BY <1>0, <2>2, <2>5
      <4>2. from[n] \in Tasks /\ from[n] \in ToSet(from) /\ DOMAIN from = 1..N
        BY <4>1, LenProperties, Occurs, ElementOfSeq
      <4>3. \A j \in 1..(n - 1) : from[j] # from[n]
        BY <4>1, <4>2 DEF IsInjective
      <4> QED
        BY <4>2, <4>3, <3>4
    <3>6. More(s, q, from[n])
      BY <3>3, <3>4, <3>5, PutMore
    <3>7. First(n) = First(n - 1) \cup {from[n]}
      BY <1>0, <2>2, <2>5
    <3> QED
      BY <2>3, <3>4, <3>6, <3>7 DEF More
  <2> QED
    BY <2>4, <2>5
<1>6. ToSet(from) = First(N)
  BY LenProperties DEF ToSet
<1> QED
  BY <1>0, <1>1, <1>5, <1>6

\* task_queue_put keeps a list in the order of its times.
LEMMA PutInOrder ==
    ASSUME NEW s \in Seq(Tasks), NEW t \in Tasks,
           NEW w \in [Tasks -> {"now", "past", "later"}], NEW r \in Put(s, t, w),
           \A i, j \in 1..Len(s) : i < j => Rank(w[s[i]]) <= Rank(w[s[j]])
    PROVE  \A i, j \in 1..Len(r) : i < j => Rank(w[r[i]]) <= Rank(w[r[j]])
<1> DEFINE R(x) == Rank(w[x])
<1>0. /\ \A x \in Tasks : R(x) \in Nat
      /\ Len(s) \in Nat
      /\ \A k \in 1..Len(s) : s[k] \in Tasks
  BY LenProperties, ElementOfSeq DEF Rank
<1>1. PICK i \in 1..(Len(s) + 1) :
         /\ r = InsertAt(s, i, t)
         /\ \A j \in 1..(i - 1) : R(s[j]) <= R(t)
         /\ \A j \in i..Len(s) : R(s[j]) > R(t) \/ (w[t] # "now" /\ w[s[j]] = w[t])
  BY Zenon DEF Put
<1>2. \A j \in i..Len(s) : R(t) <= R(s[j])
  BY <1>0, <1>1
<1>3. /\ InsertAt(s, i, t) \in Seq(Tasks)
      /\ Len(InsertAt(s, i, t)) = Len(s) + 1
      /\ \A k \in 1..(Len(s) + 1) :
            InsertAt(s, i, t)[k] = IF k < i THEN s[k] ELSE IF k = i THEN t ELSE s[k - 1]
  BY Inserted
<1>4. /\ Len(r) = Len(s) + 1
      /\ \A k \in 1..(Len(s) + 1) :
            r[k] = IF k < i THEN s[k] ELSE IF k = i THEN t ELSE s[k - 1]
  BY <1>1, <1>3
<1> HIDE DEF R
<1>5. \A a, b \in 1..Len(s) : a < b => R(s[a]) <= R(s[b])
  BY DEF R
<1>6. ASSUME NEW a \in 1..Len(r), NEW b \in 1..Len(r), a < b
      PROVE  R(r[a]) <= R(r[b])
  <2>1. CASE a < i /\ b < i
    <3>1. r[a] = s[a] /\ r[b] = s[b] /\ a \in 1..Len(s) /\ b \in 1..Len(s)
      BY <2>1, <1>0, <1>4
    <3> QED
      BY <3>1, <1>5, <1>6
  <2>2. CASE a < i /\ b = i
    BY <2>2, <1>0, <1>1, <1>4, <1>6
  <2>3. CASE a < i /\ b > i
    <3>1. r[a] = s[a] /\ r[b] = s[b - 1] /\ a \in 1..(i - 1) /\ b - 1 \in i..Len(s)
      BY <2>3, <1>0, <1>4, <1>6
    <3>2. R(s[a]) <= R(t) /\ R(t) <= R(s[b - 1])
      BY <3>1, <1>1, <1>2
    <3>3. R(s[a]) \in Nat /\ R(t) \in Nat /\ R(s[b - 1]) \in Nat
      <4>1. s[a] \in Tasks /\ s[b - 1] \in Tasks
        BY <3>1, <1>0
      <4> QED
        BY <4>1, <1>0
    <3> QED
      BY <3>1, <3>2, <3>3
  <2>4. CASE a = i
    <3>1. r[a] = t /\ r[b] = s[b - 1] /\ b - 1 \in i..Len(s)
      BY <2>4, <1>0, <1>4, <1>6
    <3> QED
      BY <3>1, <1>2
  <2>5. CASE a > i
    <3>1. r[a] = s[a - 1] /\ r[b] = s[b - 1] /\ a - 1 \in 1..Len(s) /\ b - 1 \in 1..Len(s)
      BY <2>5, <1>0, <1>4, <1>6
    <3> QED
      BY <3>1, <1>5, <1>6
  <2> QED
    BY <2>1, <2>2, <2>3, <2>4, <2>5, <1>0
<1> QED
  BY <1>6 DEF R

\* A list in which nothing is twice is as long as it has entries.
LEMMA LengthCounts ==
    ASSUME NEW s \in Seq(Tasks), IsInjective(s)
    PROVE  IsFiniteSet(ToSet(s)) /\ Cardinality(ToSet(s)) = Len(s)
<1>1. Len(s) \in Nat /\ DOMAIN s = 1..Len(s) /\ s \in [1..Len(s) -> Tasks]
  BY LenProperties
<1>2. s \in Bijection(1..Len(s), ToSet(s))
  <2>1. s \in [1..Len(s) -> ToSet(s)]
    BY <1>1 DEF ToSet
  <2>2. \A a, b \in 1..Len(s) : s[a] = s[b] => a = b
    BY <1>1 DEF IsInjective
  <2>3. \A x \in ToSet(s) : \E a \in 1..Len(s) : s[a] = x
    BY <1>1 DEF ToSet
  <2> QED
    BY <1>1, <2>1, <2>2, <2>3 DEF Bijection, Injection, Surjection, IsInjective
<1>3. ExistsBijection(1..Len(s), ToSet(s))
  BY <1>2 DEF ExistsBijection
<1> QED
  BY <1>1, <1>3, FS_CountingElements, FS_NatBijection

\* Two sets with nothing in common are together as large as the one and the other.
LEMMA TwoParts ==
    ASSUME NEW A, IsFiniteSet(A), NEW B, IsFiniteSet(B), A \cap B = {}
    PROVE  IsFiniteSet(A \cup B) /\ Cardinality(A \cup B) = Cardinality(A) + Cardinality(B)
<1>1. /\ IsFiniteSet(A \cup B)
      /\ Cardinality(A \cup B) = Cardinality(A) + Cardinality(B) - Cardinality(A \cap B)
  BY FS_Union
<1>2. Cardinality({}) = 0
  BY FS_EmptySet
<1>3. Cardinality(A \cap B) = 0
  BY <1>2, Zenon
<1>4. Cardinality(A) \in Nat /\ Cardinality(B) \in Nat
  BY FS_CardinalityType
<1> QED
  BY <1>1, <1>3, <1>4

(***************************************************************************)
(* Main's calls.                                                           *)
(***************************************************************************)
Frames == [at : Places, task : Tasks \cup {None}, n : Nat]

\* Main goes on in its innermost call,
LEMMA GotoShape ==
    ASSUME NEW s \in Seq(Frames), s # <<>>, NEW f \in Frames
    PROVE  /\ <<f>> \o Tail(s) \in Seq(Frames) /\ <<f>> \o Tail(s) # <<>>
           /\ Len(<<f>> \o Tail(s)) = Len(s)
           /\ (<<f>> \o Tail(s))[1] = f
           /\ \A i \in 2..Len(s) : (<<f>> \o Tail(s))[i] = s[i]
<1>1. /\ Tail(s) \in Seq(Frames) /\ Len(Tail(s)) = Len(s) - 1 /\ Len(s) \in Nat \ {0}
      /\ \A i \in 1..(Len(s) - 1) : Tail(s)[i] = s[i + 1]
  BY HeadTailProperties, EmptySeq
<1>2. <<f>> \in Seq(Frames) /\ Len(<<f>>) = 1 /\ <<f>>[1] = f
  OBVIOUS
<1> DEFINE t == Tail(s)
<1> HIDE DEF t
<1>3. /\ <<f>> \o t \in Seq(Frames) /\ Len(<<f>> \o t) = 1 + Len(t)
      /\ \A i \in 1..(1 + Len(t)) : (<<f>> \o t)[i] = IF i <= 1 THEN <<f>>[i] ELSE t[i - 1]
  BY <1>1, <1>2, ConcatProperties DEF t
<1> QED
  BY <1>1, <1>2, <1>3, EmptySeq DEF t

\* makes another one,
LEMMA CallShape ==
    ASSUME NEW s \in Seq(Frames), NEW f \in Frames
    PROVE  /\ <<f>> \o s \in Seq(Frames) /\ <<f>> \o s # <<>>
           /\ Len(<<f>> \o s) = Len(s) + 1
           /\ (<<f>> \o s)[1] = f
           /\ \A i \in 2..(Len(s) + 1) : (<<f>> \o s)[i] = s[i - 1]
<1>1. <<f>> \in Seq(Frames) /\ Len(<<f>>) = 1 /\ <<f>>[1] = f /\ Len(s) \in Nat
  BY LenProperties
<1>2. /\ <<f>> \o s \in Seq(Frames) /\ Len(<<f>> \o s) = 1 + Len(s)
      /\ \A i \in 1..(1 + Len(s)) : (<<f>> \o s)[i] = IF i <= 1 THEN <<f>>[i] ELSE s[i - 1]
  BY <1>1, ConcatProperties
<1> QED
  BY <1>1, <1>2, EmptySeq

\* or returns from it.
LEMMA ReturnShape ==
    ASSUME NEW s \in Seq(Frames), Len(s) > 1
    PROVE  /\ Tail(s) \in Seq(Frames) /\ Tail(s) # <<>>
           /\ Len(Tail(s)) = Len(s) - 1
           /\ \A i \in 1..(Len(s) - 1) : Tail(s)[i] = s[i + 1]
<1>1. s # <<>> /\ Len(s) \in Nat
  BY EmptySeq, LenProperties
<1>2. /\ Tail(s) \in Seq(Frames)
      /\ Len(Tail(s)) = Len(s) - 1
      /\ \A i \in 1..Len(Tail(s)) : Tail(s)[i] = s[i + 1]
  BY <1>1, HeadTailProperties
<1> DEFINE t == Tail(s)
<1> HIDE DEF t
<1>3. Len(t) # 0
  BY <1>1, <1>2 DEF t
<1> QED
  BY <1>2, <1>3, EmptySeq DEF t

\* A guard of Main's stack (inRunMain, inGather) over a step that takes its
\* innermost call from one place to another: it says what it said, is set on the
\* way in, or cleared on the way out.
Guarded(guard, next, places, from, to) ==
    \/ next = guard /\ (from \in places <=> to \in places)
    \/ ~guard /\ next = TRUE /\ from \notin places /\ to \in places
    \/ next = FALSE /\ from \in places /\ to \notin places

\* Main's calls stay in order when it goes on in the innermost,
LEMMA CallsGoto ==
    ASSUME Types, Calls, NEW f \in Frames, MainGoto(f),
           inRunMain' \in BOOLEAN, inGather' \in BOOLEAN,
           f.at \in Base <=> stack[1].at \in Base,
           Guarded(inRunMain, inRunMain', RunMain, stack[1].at, f.at),
           Guarded(inGather, inGather', Retiring, stack[1].at, f.at)
    PROVE  /\ Calls'
           /\ stack' \in Seq(Frames) /\ Len(stack') = Len(stack) /\ stack'[1] = f
           /\ \A i \in 2..Len(stack) : stack'[i] = stack[i]
           /\ Len(stack) \in Nat \ {0}
<1>1. /\ stack' \in Seq(Frames) /\ stack' # <<>>
      /\ Len(stack') = Len(stack)
      /\ stack'[1] = f
      /\ \A i \in 2..Len(stack) : stack'[i] = stack[i]
  BY GotoShape DEF Types, Calls, Frames, MainGoto
<1>2. Len(stack) \in Nat \ {0}
  BY EmptySeq DEF Types, Calls
<1>3. \A i \in 1..Len(stack') : stack'[i].at \in Base <=> i = Len(stack')
  BY <1>1, <1>2 DEF Calls
<1>4. \A i \in 2..Len(stack') : stack'[i].at \in {"idle", "wait", "handler", "callback"}
  BY <1>1 DEF Calls
<1>5. /\ \A i, j \in 1..Len(stack') :
            stack'[i].at \in RunMain /\ stack'[j].at \in RunMain => i = j
      /\ inRunMain' <=> \E i \in 1..Len(stack') : stack'[i].at \in RunMain
  <2> DEFINE P(i) == stack[i].at \in RunMain
             Q(i) == stack'[i].at \in RunMain
  <2>1. /\ \A i \in 2..Len(stack) : Q(i) <=> P(i)
        /\ Q(1) <=> f.at \in RunMain
        /\ Guarded(inRunMain, inRunMain', RunMain, stack[1].at, f.at)
        /\ \A i, j \in 1..Len(stack) : P(i) /\ P(j) => i = j
        /\ inRunMain <=> \E i \in 1..Len(stack) : P(i)
    BY <1>1 DEF Calls
  <2>2. P(1) <=> stack[1].at \in RunMain
    OBVIOUS
  <2> HIDE DEF P, Q, RunMain
  <2>3. /\ \A i, j \in 1..Len(stack) : Q(i) /\ Q(j) => i = j
        /\ inRunMain' <=> \E i \in 1..Len(stack) : Q(i)
    BY <1>2, <2>1, <2>2 DEF Guarded, Types
  <2> QED
    BY <1>1, <2>3 DEF Q
<1>6. /\ \A i, j \in 1..Len(stack') :
            stack'[i].at \in Retiring /\ stack'[j].at \in Retiring => i = j
      /\ inGather' <=> \E i \in 1..Len(stack') : stack'[i].at \in Retiring
  <2> DEFINE P(i) == stack[i].at \in Retiring
             Q(i) == stack'[i].at \in Retiring
  <2>1. /\ \A i \in 2..Len(stack) : Q(i) <=> P(i)
        /\ Q(1) <=> f.at \in Retiring
        /\ Guarded(inGather, inGather', Retiring, stack[1].at, f.at)
        /\ \A i, j \in 1..Len(stack) : P(i) /\ P(j) => i = j
        /\ inGather <=> \E i \in 1..Len(stack) : P(i)
    BY <1>1 DEF Calls
  <2>2. P(1) <=> stack[1].at \in Retiring
    OBVIOUS
  <2> HIDE DEF P, Q, Retiring
  <2>3. /\ \A i, j \in 1..Len(stack) : Q(i) /\ Q(j) => i = j
        /\ inGather' <=> \E i \in 1..Len(stack) : Q(i)
    BY <1>2, <2>1, <2>2 DEF Guarded, Types
  <2> QED
    BY <1>1, <2>3 DEF Q
<1> QED
  BY <1>1, <1>2, <1>3, <1>4, <1>5, <1>6 DEF Calls

\* makes another one,
LEMMA CallsCall ==
    ASSUME Types, Calls, NEW f \in Frames, stack' = <<f>> \o stack,
           UNCHANGED <<inGather, inRunMain>>,
           f.at \notin Base \cup RunMain \cup Retiring,
           stack[1].at \in {"idle", "handler", "callback"}
    PROVE  /\ Calls'
           /\ stack' \in Seq(Frames) /\ Len(stack') = Len(stack) + 1 /\ stack'[1] = f
           /\ \A i \in 2..(Len(stack) + 1) : stack'[i] = stack[i - 1]
           /\ Len(stack) \in Nat \ {0}
<1>1. /\ stack' \in Seq(Frames) /\ stack' # <<>>
      /\ Len(stack') = Len(stack) + 1
      /\ stack'[1] = f
      /\ \A i \in 2..(Len(stack) + 1) : stack'[i] = stack[i - 1]
  BY CallShape DEF Types, Frames
<1>2. Len(stack) \in Nat \ {0}
  BY EmptySeq DEF Types, Calls
<1>3. \A i \in 1..Len(stack') : stack'[i].at \in Base <=> i = Len(stack')
  <2> TAKE i \in 1..Len(stack')
  <2>1. CASE i = 1
    BY <2>1, <1>1, <1>2
  <2>2. CASE i # 1
    BY <2>2, <1>1, <1>2 DEF Calls
  <2> QED
    BY <2>1, <2>2
<1>4. \A i \in 2..Len(stack') : stack'[i].at \in {"idle", "wait", "handler", "callback"}
  <2> TAKE i \in 2..Len(stack')
  <2>1. i - 1 = 1 \/ i - 1 \in 2..Len(stack)
    BY <1>1, <1>2
  <2> QED
    BY <2>1, <1>1 DEF Calls
<1>5. /\ \A i, j \in 1..Len(stack') :
            stack'[i].at \in RunMain /\ stack'[j].at \in RunMain => i = j
      /\ inRunMain' <=> \E i \in 1..Len(stack') : stack'[i].at \in RunMain
  <2> DEFINE P(i) == stack[i].at \in RunMain
             Q(i) == stack'[i].at \in RunMain
  <2>1. /\ \A i \in 2..(Len(stack) + 1) : Q(i) <=> P(i - 1)
        /\ ~Q(1)
        /\ \A i, j \in 1..Len(stack) : P(i) /\ P(j) => i = j
        /\ inRunMain <=> \E i \in 1..Len(stack) : P(i)
    BY <1>1 DEF Calls
  <2> HIDE DEF P, Q, RunMain
  <2>2. \A i, j \in 1..(Len(stack) + 1) : Q(i) /\ Q(j) => i = j
    <3>1. \A i \in 1..(Len(stack) + 1) : Q(i) => i - 1 \in 1..Len(stack) /\ P(i - 1)
      BY <1>2, <2>1
    <3>2. \A i, j \in 1..(Len(stack) + 1) : Q(i) /\ Q(j) => i - 1 = j - 1
      BY <2>1, <3>1
    <3> QED
      BY <1>2, <3>2
  <2>3. inRunMain' <=> \E i \in 1..(Len(stack) + 1) : Q(i)
    <3>1. \A i \in 1..Len(stack) : P(i) => Q(i + 1)
      BY <1>2, <2>1
    <3> QED
      BY <1>2, <2>1, <3>1
  <2> QED
    BY <1>1, <2>2, <2>3 DEF Q
<1>6. /\ \A i, j \in 1..Len(stack') :
            stack'[i].at \in Retiring /\ stack'[j].at \in Retiring => i = j
      /\ inGather' <=> \E i \in 1..Len(stack') : stack'[i].at \in Retiring
  <2> DEFINE P(i) == stack[i].at \in Retiring
             Q(i) == stack'[i].at \in Retiring
  <2>1. /\ \A i \in 2..(Len(stack) + 1) : Q(i) <=> P(i - 1)
        /\ ~Q(1)
        /\ \A i, j \in 1..Len(stack) : P(i) /\ P(j) => i = j
        /\ inGather <=> \E i \in 1..Len(stack) : P(i)
    BY <1>1 DEF Calls
  <2> HIDE DEF P, Q, Retiring
  <2>2. \A i, j \in 1..(Len(stack) + 1) : Q(i) /\ Q(j) => i = j
    <3>1. \A i \in 1..(Len(stack) + 1) : Q(i) => i - 1 \in 1..Len(stack) /\ P(i - 1)
      BY <1>2, <2>1
    <3>2. \A i, j \in 1..(Len(stack) + 1) : Q(i) /\ Q(j) => i - 1 = j - 1
      BY <2>1, <3>1
    <3> QED
      BY <1>2, <3>2
  <2>3. inGather' <=> \E i \in 1..(Len(stack) + 1) : Q(i)
    <3>1. \A i \in 1..Len(stack) : P(i) => Q(i + 1)
      BY <1>2, <2>1
    <3> QED
      BY <1>2, <2>1, <3>1
  <2> QED
    BY <1>1, <2>2, <2>3 DEF Q
<1> QED
  BY <1>1, <1>2, <1>3, <1>4, <1>5, <1>6 DEF Calls

\* or returns from it.
LEMMA CallsReturn ==
    ASSUME Types, Calls, MainReturn, UNCHANGED inRunMain, inGather' \in BOOLEAN,
           stack[1].at \notin Base \cup RunMain,
           \/ stack[1].at \notin Retiring /\ inGather' = inGather
           \/ stack[1].at \in Retiring /\ inGather' = FALSE
    PROVE  /\ Calls'
           /\ stack' \in Seq(Frames) /\ Len(stack') = Len(stack) - 1
           /\ \A i \in 1..(Len(stack) - 1) : stack'[i] = stack[i + 1]
           /\ Len(stack) \in Nat /\ Len(stack) > 1
<1>2. Len(stack) \in Nat /\ Len(stack) > 1
  <2>1. Len(stack) \in Nat /\ Len(stack) # 0
    BY EmptySeq DEF Types, Calls
  <2>2. 1 \in 1..Len(stack) /\ stack[1].at \notin Base
    BY <2>1
  <2>3. Len(stack) # 1
    BY <2>2 DEF Calls
  <2> DEFINE n == Len(stack)
  <2> HIDE DEF n
  <2>4. n \in Nat /\ n # 0 /\ n # 1
    BY <2>1, <2>3 DEF n
  <2>5. n > 1
    BY <2>4
  <2> QED
    BY <2>1, <2>5 DEF n
<1>1. /\ stack' \in Seq(Frames) /\ stack' # <<>>
      /\ Len(stack') = Len(stack) - 1
      /\ \A i \in 1..(Len(stack) - 1) : stack'[i] = stack[i + 1]
  BY <1>2, ReturnShape DEF Types, Frames, MainReturn
<1>3. \A i \in 1..Len(stack') : stack'[i].at \in Base <=> i = Len(stack')
  BY <1>1, <1>2 DEF Calls
<1>4. \A i \in 2..Len(stack') : stack'[i].at \in {"idle", "wait", "handler", "callback"}
  BY <1>1, <1>2 DEF Calls
<1>5. /\ \A i, j \in 1..Len(stack') :
            stack'[i].at \in RunMain /\ stack'[j].at \in RunMain => i = j
      /\ inRunMain' <=> \E i \in 1..Len(stack') : stack'[i].at \in RunMain
  <2> DEFINE P(i) == stack[i].at \in RunMain
             Q(i) == stack'[i].at \in RunMain
  <2>1. /\ \A i \in 1..(Len(stack) - 1) : Q(i) <=> P(i + 1)
        /\ ~P(1)
        /\ \A i, j \in 1..Len(stack) : P(i) /\ P(j) => i = j
        /\ inRunMain <=> \E i \in 1..Len(stack) : P(i)
    BY <1>1 DEF Calls
  <2> HIDE DEF P, Q, RunMain
  <2>2. \A i, j \in 1..(Len(stack) - 1) : Q(i) /\ Q(j) => i = j
    BY <1>2, <2>1
  <2>3. inRunMain' <=> \E i \in 1..(Len(stack) - 1) : Q(i)
    <3>1. \A i \in 1..Len(stack) : P(i) => i - 1 \in 1..(Len(stack) - 1) /\ Q(i - 1)
      BY <1>2, <2>1
    <3> QED
      BY <1>2, <2>1, <3>1
  <2> QED
    BY <1>1, <2>2, <2>3 DEF Q
<1>6. /\ \A i, j \in 1..Len(stack') :
            stack'[i].at \in Retiring /\ stack'[j].at \in Retiring => i = j
      /\ inGather' <=> \E i \in 1..Len(stack') : stack'[i].at \in Retiring
  <2> DEFINE P(i) == stack[i].at \in Retiring
             Q(i) == stack'[i].at \in Retiring
  <2>1. /\ \A i \in 1..(Len(stack) - 1) : Q(i) <=> P(i + 1)
        /\ \A i, j \in 1..Len(stack) : P(i) /\ P(j) => i = j
        /\ inGather <=> \E i \in 1..Len(stack) : P(i)
    BY <1>1 DEF Calls
  <2>4. (~P(1) /\ inGather' = inGather) \/ (P(1) /\ inGather' = FALSE)
    OBVIOUS
  <2> HIDE DEF P, Q, Retiring
  <2>2. \A i, j \in 1..(Len(stack) - 1) : Q(i) /\ Q(j) => i = j
    BY <1>2, <2>1
  <2>3. inGather' <=> \E i \in 1..(Len(stack) - 1) : Q(i)
    <3>1. CASE ~P(1) /\ inGather' = inGather
      <4>1. \A i \in 1..Len(stack) : P(i) => i - 1 \in 1..(Len(stack) - 1) /\ Q(i - 1)
        BY <1>2, <2>1, <3>1
      <4> QED
        BY <1>2, <2>1, <3>1, <4>1
    <3>2. CASE P(1) /\ inGather' = FALSE
      BY <1>2, <2>1, <3>2
    <3> QED
      BY <2>4, <3>1, <3>2
  <2> QED
    BY <1>1, <2>2, <2>3 DEF Q
<1> QED
  BY <1>1, <1>2, <1>3, <1>4, <1>5, <1>6 DEF Calls

(***************************************************************************)
(* The invariant, step by step.                                            *)
(***************************************************************************)
\* A task has its kinds.
LEMMA KindsAreTasks ==
    /\ MainTasks \subseteq Tasks /\ ScheduledTasks \subseteq Tasks
    /\ WaitingTasks \subseteq Tasks /\ BlockingTasks \subseteq Tasks
    /\ ParallelTasks \subseteq Tasks \ MainTasks
BY DEF MainTasks, ScheduledTasks, WaitingTasks, BlockingTasks, ParallelTasks, Of

\* What stays of a task's kinds and of the budget.
LEMMA KindsStay ==
    ASSUME UNCHANGED setup
    PROVE  /\ MainTasks' = MainTasks /\ ScheduledTasks' = ScheduledTasks
           /\ WaitingTasks' = WaitingTasks /\ BlockingTasks' = BlockingTasks
           /\ ParallelTasks' = ParallelTasks /\ Budget' = Budget
BY DEF MainTasks, ScheduledTasks, WaitingTasks, BlockingTasks, ParallelTasks, Of, Budget

\* At the start nothing was pushed and nobody runs anything.
LEMMA InitIInv == Init => IInv
<1> SUFFICES ASSUME Init PROVE IInv
  OBVIOUS
<1>0. ToSet(<<>>) = {} /\ <<>> \in Seq(Tasks) /\ Len(<<>>) = 0
      /\ IsInjective(<<>>)
  BY DEF ToSet, IsInjective
<1>1. /\ stack \in Seq(Frames) /\ Len(stack) = 1 /\ stack # <<>>
      /\ stack[1] = [at |-> "idle", task |-> None, n |-> 0]
  BY DEF Init, Frame, Frames, Places
<1>2. Types
  BY <1>0, <1>1, TaskQueueAssumption
     DEF Init, Types, Frames, WorkerPlaces, OtherPlaces, Workers
<1>3. Calls
  BY <1>1 DEF Init, Calls, Base, RunMain, Retiring
<1>4. Lists
  BY <1>0 DEF Init, Lists
<1>5. WorkersHold
  BY <1>0, TaskQueueAssumption
     DEF Init, WorkersHold, WorkerPlaces, Holding, Workers, Threads
<1>6. MainHolds
  BY <1>1, TaskQueueAssumption DEF Init, MainHolds, Holding, At, Threads, Workers
<1>7. Pushers
  BY <1>1, TaskQueueAssumption DEF Init, Pushers, OtherPlaces, At, Workers
<1>8. Parking
  BY <1>0 DEF Init, Parking
<1>9. Passes /\ Wakes
  BY <1>0 DEF Init, Passes, Wakes
<1>10. Counts /\ Waits
  BY <1>0, <1>1 DEF Init, Counts, Waits, InOrder, At
<1> QED
  BY <1>2, <1>3, <1>4, <1>5, <1>6, <1>7, <1>8, <1>9, <1>10 DEF IInv

\* What no step of Main's changes that only goes from place to place.
Unmoved == UNCHANGED <<lists, fields, flags, lock, extrasStarted, pc, task, ready>>

\* Such a step, through none of the places that settle, free or push a task.
LEMMA UnmovedIInv ==
    ASSUME IInv, UNCHANGED setup, Unmoved, UNCHANGED <<pushed, called, freed>>,
           inGather' \in BOOLEAN, inRunMain' \in BOOLEAN,
           stack' \in Seq(Frames), Calls', Counts', Waits',
           stack[1].at \notin {"settle", "free", "push"},
           stack'[1].at \notin {"settle", "free", "push"},
           \A i \in 1..Len(stack') :
              /\ stack'[i].at \in Holding =>
                    \E j \in 1..Len(stack) :
                       stack[j].at \in Holding /\ stack[j].task = stack'[i].task
              /\ stack'[i].at = "callback" => stack'[i].task \in ToSet(retiring)
    PROVE  IInv'
<1> USE DEF Unmoved, lists, fields, flags
<1>0. MainTasks' = MainTasks /\ ScheduledTasks' = ScheduledTasks
  BY KindsStay
<1>1. Types'
  BY DEF IInv, Types, Frames
<1>2. Lists'
  BY DEF IInv, Lists
<1>3. WorkersHold'
  BY <1>0 DEF IInv, WorkersHold, Has
<1>4. MainHolds'
  <2>1. \A i \in 1..Len(stack') : stack'[i].at \in Holding =>
           stack'[i].task \in MainTasks /\ Has(Main, stack'[i].task)
    BY DEF IInv, MainHolds
  <2> QED
    BY <1>0, <2>1 DEF IInv, MainHolds, Has, At
<1>5. Pushers'
  BY DEF IInv, Pushers, At
<1>6. Parking'
  <2>1. \A t \in parked : \A i \in 1..Len(stack') :
           stack'[i].at \in Holding => stack'[i].task # t
    BY DEF IInv, Parking
  <2> QED
    BY <1>0, <2>1 DEF IInv, Parking
<1>7. Passes'
  BY DEF IInv, Passes, Settling, At
<1>8. Wakes'
  BY DEF IInv, Wakes
<1> QED
  BY <1>1, <1>2, <1>3, <1>4, <1>5, <1>6, <1>7, <1>8 DEF IInv

\* The same for one that changes no count either.
LEMMA MainOnlyIInv ==
    ASSUME IInv, UNCHANGED setup, MainOnly, UNCHANGED <<pushed, called, freed>>,
           inGather' \in BOOLEAN, inRunMain' \in BOOLEAN,
           stack' \in Seq(Frames), Calls', Counts', Waits',
           stack[1].at \notin {"settle", "free", "push"},
           stack'[1].at \notin {"settle", "free", "push"},
           \A i \in 1..Len(stack') :
              /\ stack'[i].at \in Holding =>
                    \E j \in 1..Len(stack) :
                       stack[j].at \in Holding /\ stack[j].task = stack'[i].task
              /\ stack'[i].at = "callback" => stack'[i].task \in ToSet(retiring)
    PROVE  IInv'
<1> Unmoved
  BY DEF MainOnly, Unmoved
<1> QED
  BY UnmovedIInv

\* The same in its innermost call, which neither starts nor ends a handler or
\* callback.
LEMMA GoOnIInv ==
    ASSUME IInv, UNCHANGED setup, MainOnly, UNCHANGED <<pushed, called, freed>>,
           inGather' \in BOOLEAN, inRunMain' \in BOOLEAN,
           NEW f \in Frames, MainGoto(f),
           f.at \in Base <=> stack[1].at \in Base,
           Guarded(inRunMain, inRunMain', RunMain, stack[1].at, f.at),
           Guarded(inGather, inGather', Retiring, stack[1].at, f.at),
           stack[1].at \notin {"settle", "free", "push"},
           f.at \notin Holding \cup {"callback", "free", "push"},
           Counts', stack'[1] = f => Waits'
    PROVE  IInv'
<1>1. /\ Calls'
      /\ stack' \in Seq(Frames) /\ Len(stack') = Len(stack) /\ stack'[1] = f
      /\ \A i \in 2..Len(stack) : stack'[i] = stack[i]
      /\ Len(stack) \in Nat \ {0}
  BY CallsGoto DEF IInv
<1>2. \A i \in 1..Len(stack') :
         /\ stack'[i].at \in Holding =>
               \E j \in 1..Len(stack) :
                  stack[j].at \in Holding /\ stack[j].task = stack'[i].task
         /\ stack'[i].at = "callback" => stack'[i].task \in ToSet(retiring)
  <2> TAKE i \in 1..Len(stack')
  <2>1. CASE i = 1
    BY <2>1, <1>1
  <2>2. CASE i # 1
    <3>1. i \in 1..Len(stack) /\ stack'[i] = stack[i]
      BY <2>2, <1>1
    <3> QED
      BY <3>1 DEF IInv, MainHolds
  <2> QED
    BY <2>1, <2>2
<1>3. stack'[1].at \notin {"settle", "free", "push"}
  BY <1>1 DEF Holding
<1>4. Waits'
  BY <1>1
<1> QED
  BY <1>1, <1>2, <1>3, <1>4, MainOnlyIInv

\* A call in its innermost place is a frame.
LEMMA TopFrame ==
    ASSUME Types, Calls
    PROVE  /\ stack[1] \in Frames /\ stack[1].at \in Places
           /\ stack[1].task \in Tasks \cup {None} /\ stack[1].n \in Nat
           /\ 1 \in 1..Len(stack) /\ Len(stack) \in Nat
<1>1. Len(stack) \in Nat /\ Len(stack) # 0
  BY EmptySeq DEF Types, Calls
<1>2. 1 \in 1..Len(stack)
  BY <1>1
<1>3. stack[1] \in Frames
  BY <1>2, ElementOfSeq DEF Types, Frames
<1> QED
  BY <1>1, <1>2, <1>3 DEF Frames

\* A new frame.
LEMMA FrameType ==
    ASSUME NEW at \in Places, NEW t \in Tasks \cup {None}, NEW n \in Nat
    PROVE  /\ Frame(at, t, n) \in Frames /\ Frame(at, t, n).at = at
           /\ Frame(at, t, n).task = t /\ Frame(at, t, n).n = n
BY DEF Frame, Frames

\* The counts say what they said while Main stays in or out of the gather.
LEMMA CountsStay ==
    ASSUME Counts, UNCHANGED setup, MainOnly, UNCHANGED inGather
    PROVE  Counts'
BY KindsStay DEF Counts, MainOnly, lists, counts

\* So does what is known of a wait, on the way to a place before its looks.
LEMMA WaitsStay ==
    ASSUME Waits, UNCHANGED setup, MainOnly, UNCHANGED pushed, asked' \subseteq pushed,
           stack'[1].at \notin {"wait2", "waited"}
    PROVE  Waits'
BY KindsStay DEF Waits, InOrder, MainOnly, lists, fields, At

\* The early return of a gather.
LEMMA LookIInv ==
    ASSUME IInv, UNCHANGED setup, LookRunning \/ LookFinished
    PROVE  IInv'
<1>0. Types /\ Calls /\ Counts /\ Waits
  BY DEF IInv
<1>c. MainOnly /\ UNCHANGED <<inGather, inRunMain, history>>
  BY DEF LookRunning, LookFinished
<1>d. /\ UNCHANGED <<pushed, called, freed, asked>>
      /\ inGather' = inGather /\ inRunMain' = inRunMain
      /\ inGather' \in BOOLEAN /\ inRunMain' \in BOOLEAN
  BY <1>c, <1>0 DEF history, Types
<1>e. Counts'
  BY <1>0, <1>c, <1>d, CountsStay
<1>f. asked' \subseteq pushed
  BY <1>0, <1>d DEF Waits
<1>1. stack[1].at \in {"look", "look2"}
  BY DEF LookRunning, LookFinished, At
<1>2. CASE LookFinished /\ finishedCount = 0
  <2>1. MainReturn
    BY <1>2 DEF LookFinished
  <2>2. stack[1].at \notin Base \cup RunMain /\ stack[1].at \notin Retiring
    BY <1>1 DEF Base, RunMain, Retiring
  <2>3. /\ Calls'
        /\ stack' \in Seq(Frames) /\ Len(stack') = Len(stack) - 1
        /\ \A i \in 1..(Len(stack) - 1) : stack'[i] = stack[i + 1]
        /\ Len(stack) \in Nat /\ Len(stack) > 1
    BY <1>0, <1>d, <2>1, <2>2, CallsReturn
  <2>4. \A i \in 1..Len(stack') :
           /\ i + 1 \in 1..Len(stack) /\ stack'[i] = stack[i + 1]
           /\ stack[i + 1].at \in {"idle", "wait", "handler", "callback"}
    BY <2>3, <1>0 DEF Calls
  <2>5. stack'[1].at \in {"idle", "wait", "handler", "callback"}
    BY <2>3, <2>4
  <2>6. Waits'
    BY <2>5, <1>0, <1>c, <1>d, <1>f, WaitsStay
  <2>7. \A i \in 1..Len(stack') :
           /\ stack'[i].at \in Holding =>
                 \E j \in 1..Len(stack) :
                    stack[j].at \in Holding /\ stack[j].task = stack'[i].task
           /\ stack'[i].at = "callback" => stack'[i].task \in ToSet(retiring)
    BY <2>4 DEF IInv, MainHolds
  <2>8. stack[1].at \notin {"settle", "free", "push"}
    BY <1>1
  <2>9. stack'[1].at \notin {"settle", "free", "push"}
    BY <2>5
  <2> QED
    BY <1>c, <1>d, <1>e, <2>3, <2>6, <2>7, <2>8, <2>9, MainOnlyIInv
<1>3. CASE LookRunning \/ finishedCount # 0
  <2>1. PICK at \in {"look2", "pass"} : MainGoto(Frame(at, None, 0))
    BY <1>3 DEF LookRunning, LookFinished
  <2> DEFINE f == Frame(at, None, 0)
  <2>2. f \in Frames /\ f.at \in {"look2", "pass"}
    BY FrameType DEF Places
  <2>3. /\ f.at \in Base <=> stack[1].at \in Base
        /\ Guarded(inRunMain, inRunMain', RunMain, stack[1].at, f.at)
        /\ Guarded(inGather, inGather', Retiring, stack[1].at, f.at)
        /\ stack[1].at \notin {"settle", "free", "push"}
        /\ f.at \notin Holding \cup {"callback", "free", "push"}
    BY <1>1, <1>d, <2>2 DEF Guarded, Base, RunMain, Retiring, Holding
  <2>4. stack'[1] = f => Waits'
    BY <2>2, <1>0, <1>c, <1>d, <1>f, WaitsStay
  <2>5. MainGoto(f)
    BY <2>1
  <2> HIDE DEF f
  <2> QED
    BY <1>c, <1>d, <1>e, <2>2, <2>3, <2>4, <2>5, GoOnIInv
<1> QED
  BY <1>2, <1>3

\* task_queue_check, from a client's code.
LEMMA CheckIInv ==
    ASSUME IInv, UNCHANGED setup, Check
    PROVE  IInv'
<1>0. Types /\ Calls /\ Counts /\ Waits
  BY DEF IInv
<1>c. MainOnly /\ UNCHANGED <<inGather, inRunMain, history>>
  BY DEF Check
<1>d. /\ UNCHANGED <<pushed, called, freed, asked>>
      /\ inGather' = inGather /\ inRunMain' = inRunMain
      /\ inGather' \in BOOLEAN /\ inRunMain' \in BOOLEAN
  BY <1>c, <1>0 DEF history, Types
<1>e. Counts'
  BY <1>0, <1>c, <1>d, CountsStay
<1>f. asked' \subseteq pushed
  BY <1>0, <1>d DEF Waits
<1> DEFINE f == Frame("look", None, 0)
<1>1. f \in Frames /\ f.at = "look"
  BY FrameType DEF Places
<1>2. stack' = <<f>> \o stack /\ stack[1].at \in {"idle", "handler", "callback"}
  BY DEF Check
<1> HIDE DEF f
<1>3. f.at \notin Base \cup RunMain \cup Retiring
  BY <1>1 DEF Base, RunMain, Retiring
<1>4. /\ Calls'
      /\ stack' \in Seq(Frames) /\ Len(stack') = Len(stack) + 1 /\ stack'[1] = f
      /\ \A i \in 2..(Len(stack) + 1) : stack'[i] = stack[i - 1]
      /\ Len(stack) \in Nat \ {0}
  BY <1>0, <1>d, <1>1, <1>2, <1>3, CallsCall
<1>5. \A i \in 1..Len(stack') :
         /\ stack'[i].at \in Holding =>
               \E j \in 1..Len(stack) :
                  stack[j].at \in Holding /\ stack[j].task = stack'[i].task
         /\ stack'[i].at = "callback" => stack'[i].task \in ToSet(retiring)
  <2> TAKE i \in 1..Len(stack')
  <2>1. CASE i = 1
    BY <2>1, <1>1, <1>4 DEF Holding
  <2>2. CASE i # 1
    <3>1. i - 1 \in 1..Len(stack) /\ stack'[i] = stack[i - 1]
      BY <2>2, <1>4
    <3> QED
      BY <3>1 DEF IInv, MainHolds
  <2> QED
    BY <2>1, <2>2
<1>6. stack'[1].at = "look"
  BY <1>1, <1>4
<1>7. Waits'
  BY <1>0, <1>c, <1>d, <1>f, <1>6, WaitsStay
<1> QED
  BY <1>c, <1>d, <1>e, <1>2, <1>4, <1>5, <1>6, <1>7, MainOnlyIInv

\* A part of a list is finite.
LEMMA PartIsFinite ==
    ASSUME NEW s \in Seq(Tasks), IsInjective(s), NEW S \in SUBSET ToSet(s)
    PROVE  Cardinality(S) \in Nat
BY LengthCounts, FS_Subset, FS_CardinalityType

\* The pass of a gather, and the end of retro_task_threaded_run_main.
LEMMA PassIInv ==
    ASSUME IInv, UNCHANGED setup, Pass \/ RunMainOver
    PROVE  IInv'
<1>0. Types /\ Calls /\ Counts /\ Waits
  BY DEF IInv
<1>c. MainOnly /\ UNCHANGED <<inGather, history>>
  BY DEF Pass, RunMainOver
<1>1. \/ stack[1].at = "pass" /\ UNCHANGED inRunMain
         /\ MainGoto(Frame("detach", None, 0))
      \/ stack[1].at = "pass" /\ ~inRunMain /\ inRunMain' = TRUE
         /\ \E n \in Nat : MainGoto(Frame("runmain", None, n))
      \/ stack[1].at = "runmain" /\ inRunMain' = FALSE
         /\ MainGoto(Frame("detach", None, 0))
  <2> DEFINE S == {t \in ToSet(running) : DueMain(t)}
  <2>1. Cardinality(S) \in Nat
    <3>1. S \in SUBSET ToSet(running) /\ running \in Seq(Tasks) /\ IsInjective(running)
      BY DEF IInv, Types, Lists
    <3> HIDE DEF S
    <3> QED
      BY <3>1, PartIsFinite
  <2>2. CASE Pass
    <3> DEFINE due == Cardinality(S)
    <3>1. /\ stack[1].at = "pass"
          /\ IF due > 0 /\ ~inRunMain
             THEN MainGoto(Frame("runmain", None, due)) /\ inRunMain' = TRUE
             ELSE MainGoto(Frame("detach", None, 0)) /\ UNCHANGED inRunMain
      BY <2>2, Zenon DEF Pass, At
    <3> HIDE DEF S
    <3>2. due \in Nat
      BY <2>1
    <3> HIDE DEF due
    <3> QED
      BY <3>1, <3>2, Zenon
  <2>3. CASE RunMainOver
    BY <2>3 DEF RunMainOver, At
  <2> QED
    BY <2>2, <2>3
<1>2. PICK at \in {"detach", "runmain"}, n \in Nat :
         /\ MainGoto(Frame(at, None, n))
         /\ Guarded(inRunMain, inRunMain', RunMain, stack[1].at, at)
         /\ stack[1].at \in {"pass", "runmain"} /\ inRunMain' \in BOOLEAN
  <2>1. 0 \in Nat
    OBVIOUS
  <2> QED
    BY <1>1, <1>0, <2>1 DEF Guarded, RunMain, Types
<1>d. /\ UNCHANGED <<pushed, called, freed, asked>>
      /\ inGather' = inGather /\ inGather' \in BOOLEAN
  BY <1>c, <1>0 DEF history, Types
<1>e. Counts'
  BY <1>0, <1>c, <1>d, CountsStay
<1>f. asked' \subseteq pushed
  BY <1>0, <1>d DEF Waits
<1> DEFINE f == Frame(at, None, n)
<1>3. f \in Frames /\ f.at = at
  BY FrameType DEF Places
<1>4. MainGoto(f)
  BY <1>2
<1> HIDE DEF f
<1>5. /\ f.at \in Base <=> stack[1].at \in Base
      /\ Guarded(inRunMain, inRunMain', RunMain, stack[1].at, f.at)
      /\ Guarded(inGather, inGather', Retiring, stack[1].at, f.at)
      /\ stack[1].at \notin {"settle", "free", "push"}
      /\ f.at \notin Holding \cup {"callback", "free", "push"}
  BY <1>2, <1>3, <1>d DEF Guarded, Base, Retiring, Holding
<1>6. stack'[1] = f => Waits'
  BY <1>3, <1>0, <1>c, <1>d, <1>f, WaitsStay
<1> QED
  BY <1>c, <1>d, <1>e, <1>2, <1>3, <1>4, <1>5, <1>6, GoOnIInv

\* A gather of task_queue_wait's begins.
LEMMA GatherForWait ==
    ASSUME IInv, UNCHANGED setup, MainOnly, UNCHANGED <<pushed, called, freed>>,
           UNCHANGED <<inGather, inRunMain>>, asked' \subseteq pushed,
           stack[1].at \in {"idle", "sleep"},
           stack' = <<Frame("look", None, 0), Frame("wait", None, 0)>>
    PROVE  IInv'
<1>0. Types /\ Calls /\ Counts /\ Waits
  BY DEF IInv
<1>1. Frame("look", None, 0) \in Frames /\ Frame("look", None, 0).at = "look"
  BY DEF Frame, Frames, Places
<1>2. Frame("wait", None, 0) \in Frames /\ Frame("wait", None, 0).at = "wait"
  BY DEF Frame, Frames, Places
<1>3. /\ stack' \in Seq(Frames) /\ Len(stack') = 2 /\ stack' # <<>>
      /\ stack'[1].at = "look" /\ stack'[2].at = "wait"
  BY <1>1, <1>2
<1>4. Len(stack) = 1
  <2>1. 1 \in 1..Len(stack)
    BY <1>0, TopFrame
  <2> QED
    BY <1>0, <2>1 DEF Calls, Base
<1>5. ~inRunMain /\ ~inGather
  BY <1>0, <1>4 DEF Calls, RunMain, Retiring
<1>6. Calls'
  <2>1. \A i \in 1..Len(stack') : i = 1 \/ i = 2
    BY <1>3
  <2> QED
    BY <1>3, <1>5, <2>1 DEF Calls, Base, RunMain, Retiring
<1>7. Counts'
  BY <1>0, CountsStay
<1>8. Waits'
  BY <1>0, <1>3, WaitsStay
<1>9. \A i \in 1..Len(stack') : stack'[i].at \notin Holding \cup {"callback"}
  BY <1>3 DEF Holding
<1>10. inGather' \in BOOLEAN /\ inRunMain' \in BOOLEAN
  BY <1>0 DEF Types
<1>11. /\ stack[1].at \notin {"settle", "free", "push"}
       /\ stack'[1].at \notin {"settle", "free", "push"}
  BY <1>3
<1> QED
  BY <1>3, <1>6, <1>7, <1>8, <1>9, <1>10, <1>11, MainOnlyIInv

\* task_queue_wait: its gathers,
LEMMA WaitIInv ==
    ASSUME IInv, UNCHANGED setup, Wait \/ WaitAgain
    PROVE  IInv'
<1>1. asked' \subseteq pushed
  BY DEF Wait, WaitAgain, history, IInv, Waits, Types
<1>2. UNCHANGED <<pushed, called, freed>> /\ UNCHANGED <<inGather, inRunMain>> /\ MainOnly
  BY DEF Wait, WaitAgain, history
<1>3. stack[1].at \in {"idle", "sleep"}
  BY DEF Wait, WaitAgain, At
<1>4. stack' = <<Frame("look", None, 0), Frame("wait", None, 0)>>
  BY DEF Wait, WaitAgain
<1> QED
  BY <1>1, <1>2, <1>3, <1>4, GatherForWait

\* its looks at the two lists, between them and after, and its return.
LEMMA WaitLooksIInv ==
    ASSUME IInv, UNCHANGED setup, WaitRunning \/ WaitFinished \/ WaitReturns
    PROVE  IInv'
<1>0. Types /\ Calls /\ Counts /\ Waits
  BY DEF IInv
<1>c. MainOnly /\ UNCHANGED <<inGather, inRunMain, pushed, called, freed>>
  BY DEF WaitRunning, WaitFinished, WaitReturns, history
<1>d. /\ inGather' = inGather /\ inRunMain' = inRunMain
      /\ inGather' \in BOOLEAN /\ inRunMain' \in BOOLEAN
  BY <1>c, <1>0 DEF Types
<1>e. Counts'
  BY <1>0, <1>c, <1>d, CountsStay
<1>f. asked' \subseteq pushed /\ asked' \subseteq asked
  BY <1>0 DEF Waits, WaitRunning, WaitFinished, WaitReturns, history
<1>1. stack[1].at \in Base \ {"sleep"}
  BY DEF WaitRunning, WaitFinished, WaitReturns, At, Base
<1>2. PICK at \in Base : MainGoto(Frame(at, None, 0))
  BY DEF WaitRunning, WaitFinished, WaitReturns, Base
<1> DEFINE f == Frame(at, None, 0)
<1>3. f \in Frames /\ f.at = at
  BY FrameType DEF Places, Base
<1>4. MainGoto(f)
  BY <1>2
<1>h. \A x, y \in Places : Frame(x, None, 0) = Frame(y, None, 0) => x = y
  BY DEF Frame
<1>5. /\ f.at \in Base <=> stack[1].at \in Base
      /\ Guarded(inRunMain, inRunMain', RunMain, stack[1].at, f.at)
      /\ Guarded(inGather, inGather', Retiring, stack[1].at, f.at)
      /\ stack[1].at \notin {"settle", "free", "push"}
      /\ f.at \notin Holding \cup {"callback", "free", "push"}
  BY <1>1, <1>3, <1>d DEF Guarded, Base, Retiring, RunMain, Holding
<1>s. \A g \in Frames : MainGoto(g) => stack'[1] = g
  BY <1>0, GotoShape DEF MainGoto, Types, Calls, Frames
<1>6. Waits'
  <2>k. ScheduledTasks' = ScheduledTasks
    BY KindsStay
  <2>u. /\ running' = running /\ finished' = finished /\ when' = when
        /\ pushed' = pushed /\ ToSet(running)' = ToSet(running)
        /\ ToSet(finished)' = ToSet(finished)
    BY <1>c DEF MainOnly, lists, fields
  <2>1. CASE WaitRunning
    <3>2. stack'[1].at \in {"sleep", "wait2"}
      BY <2>1, <1>s, FrameType DEF WaitRunning, Places
    <3>3. CASE HasDue
      <4>1. stack'[1].at = "sleep"
        BY <2>1, <3>3, <1>s, FrameType DEF WaitRunning, Places
      <4> QED
        BY <4>1, <1>0, <1>c, <1>f, WaitsStay
    <3>4. CASE ~HasDue
      <4>1. \A t \in ToSet(running) : when[t] # "now" /\ t \notin parked
        BY <3>4 DEF HasDue
      <4>2. \A t \in ToSet(running) : t \in Tasks
        BY <1>0 DEF ToSet, Types
      <4>3. \A t \in ToSet(running) : t \in ScheduledTasks
        BY <4>1, <4>2 DEF IInv, Parking
      <4>4. (asked' \ ScheduledTasks) \cap ToSet(running) = {}
        BY <4>3
      <4> QED
        BY <4>4, <3>2, <2>k, <2>u, <1>0, <1>f DEF Waits, InOrder, At
    <3> QED
      BY <3>3, <3>4
  <2>2. CASE WaitFinished
    <3>1. (asked \ ScheduledTasks) \cap ToSet(running) = {}
      BY <2>2, <1>0 DEF WaitFinished, Waits
    <3>2. stack'[1].at \in {"sleep", "waited"}
      BY <2>2, <1>s, FrameType DEF WaitFinished, Places
    <3>3. CASE finished # <<>> /\ when[Head(finished)] = "now"
      <4>1. stack'[1].at = "sleep"
        BY <2>2, <3>3, <1>s, FrameType DEF WaitFinished, Places
      <4> QED
        BY <4>1, <1>0, <1>c, <1>f, WaitsStay
    <3>4. CASE ~(finished # <<>> /\ when[Head(finished)] = "now")
      <4>1. ASSUME NEW t \in ToSet(finished) PROVE t \in ScheduledTasks
        <5>1. PICK i \in 1..Len(finished) : finished[i] = t
          BY <1>0, Occurs DEF Types
        <5>2. t \in Tasks /\ finished # <<>> /\ Head(finished) = finished[1]
              /\ finished[1] \in Tasks
          BY <5>1, <1>0 DEF Types
        <5>3. when[t] \in {"now", "past", "later"} /\ when[finished[1]] \in {"past", "later"}
          BY <5>2, <3>4, <1>0 DEF Types
        <5>4. i = 1 \/ Rank(when[finished[1]]) <= Rank(when[t])
          BY <5>1, <1>0 DEF Waits, InOrder
        <5>5. when[t] # "now"
          BY <5>1, <5>3, <5>4 DEF Rank
        <5>6. t \notin parked
          BY DEF IInv, Parking, Lists
        <5> QED
          BY <5>2, <5>5, <5>6 DEF IInv, Parking
      <4> QED
        BY <4>1, <3>1, <3>2, <2>k, <2>u, <1>0, <1>f DEF Waits, InOrder, At
    <3> QED
      BY <3>3, <3>4
  <2>3. CASE WaitReturns
    <3>1. asked' = {}
      BY <2>3 DEF WaitReturns
    <3> QED
      BY <3>1, <2>u, <2>k, <1>0 DEF Waits, InOrder, At
  <2> QED
    BY <2>1, <2>2, <2>3
<1> HIDE DEF f
<1> QED
  BY <1>c, <1>d, <1>e, <1>3, <1>4, <1>5, <1>6, GoOnIInv

\* The gather's look at what is left to retire.
LEMMA RetireNextIInv ==
    ASSUME IInv, UNCHANGED setup, RetireNext
    PROVE  IInv'
<1>0. Types /\ Calls /\ Counts /\ Waits
  BY DEF IInv
<1>c. MainOnly /\ UNCHANGED <<inGather, inRunMain, pushed, called, freed, asked>>
  BY DEF RetireNext, history
<1>d. /\ inGather' = inGather /\ inRunMain' = inRunMain
      /\ inGather' \in BOOLEAN /\ inRunMain' \in BOOLEAN
  BY <1>c, <1>0 DEF Types
<1>e. Counts'
  BY <1>0, <1>c, <1>d, CountsStay
<1>f. asked' \subseteq pushed
  BY <1>0, <1>c DEF Waits
<1> DEFINE f == Frame("callback", Head(retiring), stack[1].n)
<1>1. Head(retiring) \in Tasks /\ Head(retiring) \in ToSet(retiring)
  <2>1. retiring \in Seq(Tasks) /\ retiring # <<>>
    BY <1>0 DEF RetireNext, Types
  <2>2. Len(retiring) \in Nat \ {0}
    BY <2>1, EmptySeq
  <2>3. 1 \in 1..Len(retiring) /\ Head(retiring) = retiring[1]
    BY <2>1, <2>2
  <2> QED
    BY <2>1, <2>3, Occurs, ElementOfSeq
<1>2. f \in Frames /\ f.at = "callback" /\ f.task = Head(retiring)
  BY <1>0, <1>1, TopFrame, FrameType DEF Places
<1>3. MainGoto(f) /\ stack[1].at = "retire"
  BY DEF RetireNext, At
<1> HIDE DEF f
<1>4. /\ f.at \in Base <=> stack[1].at \in Base
      /\ Guarded(inRunMain, inRunMain', RunMain, stack[1].at, f.at)
      /\ Guarded(inGather, inGather', Retiring, stack[1].at, f.at)
  BY <1>2, <1>3, <1>d DEF Guarded, Base, Retiring, RunMain
<1>5. /\ Calls'
      /\ stack' \in Seq(Frames) /\ Len(stack') = Len(stack) /\ stack'[1] = f
      /\ \A i \in 2..Len(stack) : stack'[i] = stack[i]
      /\ Len(stack) \in Nat \ {0}
  BY <1>0, <1>2, <1>3, <1>4, <1>d, CallsGoto
<1>6. \A i \in 1..Len(stack') :
         /\ stack'[i].at \in Holding =>
               \E j \in 1..Len(stack) :
                  stack[j].at \in Holding /\ stack[j].task = stack'[i].task
         /\ stack'[i].at = "callback" => stack'[i].task \in ToSet(retiring)
  <2> TAKE i \in 1..Len(stack')
  <2>1. CASE i = 1
    BY <2>1, <1>1, <1>2, <1>5 DEF Holding
  <2>2. CASE i # 1
    <3>1. i \in 1..Len(stack) /\ stack'[i] = stack[i]
      BY <2>2, <1>5
    <3> QED
      BY <3>1 DEF IInv, MainHolds
  <2> QED
    BY <2>1, <2>2
<1>7. stack'[1].at = "callback"
  BY <1>2, <1>5
<1>8. Waits'
  BY <1>0, <1>c, <1>f, <1>7, WaitsStay
<1> QED
  BY <1>c, <1>d, <1>e, <1>3, <1>5, <1>6, <1>7, <1>8, MainOnlyIInv

\* A gather's return when it has retired all there was, or spent its budget.
LEMMA RetireOverIInv ==
    ASSUME IInv, UNCHANGED setup, RetireOver \/ RetireBudget
    PROVE  IInv'
<1>0. Types /\ Calls /\ Counts /\ Waits
  BY DEF IInv
<1>c. Unmoved /\ UNCHANGED <<inRunMain, pushed, called, freed, asked>>
      /\ MainReturn /\ inGather' = FALSE /\ stack[1].at = "retire"
  BY DEF RetireOver, RetireBudget, MainOnly, Unmoved, history, At
<1>e. Counts'
  BY <1>0, KindsStay
     DEF Counts, RetireOver, RetireBudget, MainOnly, lists, counts
<1>d. inGather' \in BOOLEAN /\ inRunMain' \in BOOLEAN
  BY <1>c, <1>0 DEF Types
<1>1. stack[1].at \notin Base \cup RunMain /\ stack[1].at \in Retiring
  BY <1>c DEF Base, RunMain, Retiring
<1>2. /\ Calls'
      /\ stack' \in Seq(Frames) /\ Len(stack') = Len(stack) - 1
      /\ \A i \in 1..(Len(stack) - 1) : stack'[i] = stack[i + 1]
      /\ Len(stack) \in Nat /\ Len(stack) > 1
  BY <1>0, <1>c, <1>d, <1>1, CallsReturn
<1>3. \A i \in 1..Len(stack') :
         /\ i + 1 \in 1..Len(stack) /\ stack'[i] = stack[i + 1]
         /\ stack[i + 1].at \in {"idle", "wait", "handler", "callback"}
  BY <1>2, <1>0 DEF Calls
<1>4. stack'[1].at \in {"idle", "wait", "handler", "callback"}
  BY <1>2, <1>3
<1>5. Waits'
  BY <1>4, <1>0, <1>c, KindsStay DEF Unmoved, lists, fields, Waits, InOrder, At
<1>6. \A i \in 1..Len(stack') :
         /\ stack'[i].at \in Holding =>
               \E j \in 1..Len(stack) :
                  stack[j].at \in Holding /\ stack[j].task = stack'[i].task
         /\ stack'[i].at = "callback" => stack'[i].task \in ToSet(retiring)
  BY <1>3 DEF IInv, MainHolds
<1>7. /\ stack[1].at \notin {"settle", "free", "push"}
      /\ stack'[1].at \notin {"settle", "free", "push"}
  BY <1>4, <1>c
<1> QED
  BY <1>c, <1>d, <1>e, <1>2, <1>5, <1>6, <1>7, UnmovedIInv

\* The scan for a blocking task on Main, before a push.
LEMMA MainScanBlockingIInv ==
    ASSUME IInv, UNCHANGED setup, MainScanBlocking
    PROVE  IInv'
<1>0. Types /\ Calls /\ Counts /\ Waits
  BY DEF IInv
<1>1. PICK t \in Unpushed \cap BlockingTasks :
         /\ MayPush /\ Unlocked
         /\ stack' = <<Frame("push", t, 0)>> \o stack
         /\ UNCHANGED <<lists, counts, fields, flags, lock, extrasStarted, pc, task,
                        inGather, inRunMain, ready, history>>
  BY DEF MainScanBlocking
<1> USE DEF lists, counts, fields, flags, history
<1>t. t \in Tasks /\ t \notin pushed /\ \A o \in Others : task[o] # t
  BY DEF Unpushed
<1>k. MainTasks' = MainTasks /\ ScheduledTasks' = ScheduledTasks /\ Budget' = Budget
  BY KindsStay
<1> DEFINE f == Frame("push", t, 0)
<1>2. f \in Frames /\ f.at = "push" /\ f.task = t
  BY <1>t, FrameType DEF Places
<1>3. stack' = <<f>> \o stack /\ stack[1].at \in {"idle", "handler", "callback"}
  BY <1>1 DEF MayPush
<1> HIDE DEF f
<1>4. f.at \notin Base \cup RunMain \cup Retiring
  BY <1>2 DEF Base, RunMain, Retiring
<1>5. /\ Calls'
      /\ stack' \in Seq(Frames) /\ Len(stack') = Len(stack) + 1 /\ stack'[1] = f
      /\ \A i \in 2..(Len(stack) + 1) : stack'[i] = stack[i - 1]
      /\ Len(stack) \in Nat \ {0}
  BY <1>0, <1>1, <1>2, <1>3, <1>4, CallsCall
<1>6. stack'[1].at = "push" /\ stack'[1].task = t
  BY <1>2, <1>5
<1>7. \A i \in 1..Len(stack') : stack'[i].at \in Holding \cup {"callback"} =>
         \E j \in 1..Len(stack) : stack'[i] = stack[j]
  <2> TAKE i \in 1..Len(stack')
  <2>1. CASE i = 1
    BY <2>1, <1>6 DEF Holding
  <2>2. CASE i # 1
    BY <2>2, <1>5
  <2> QED
    BY <2>1, <2>2
<1>8. Types'
  BY <1>0, <1>1, <1>5 DEF Types, Frames
<1>9. Lists'
  BY <1>1 DEF IInv, Lists
<1>10. WorkersHold'
  BY <1>1, <1>k DEF IInv, WorkersHold, Has
<1>11. MainHolds'
  <2>1. \A i \in 1..Len(stack') :
           /\ stack'[i].at \in Holding =>
                 stack'[i].task \in MainTasks /\ Has(Main, stack'[i].task)
           /\ stack'[i].at = "callback" => stack'[i].task \in ToSet(retiring)
    BY <1>7 DEF IInv, MainHolds
  <2>2. lock # Main /\ called \ freed \subseteq {}
    BY <1>3 DEF IInv, MainHolds, At
  <2> QED
    BY <1>1, <1>6, <1>k, <2>1, <2>2 DEF IInv, MainHolds, Has, At
<1>12. Pushers'
  BY <1>1, <1>6, <1>t DEF IInv, Pushers, At
<1>13. Parking'
  BY <1>1, <1>7, <1>k DEF IInv, Parking
<1>14. Passes' /\ Wakes'
  BY <1>1, <1>3, <1>6 DEF IInv, Passes, Settling, At, Wakes
<1>15. Counts' /\ Waits'
  BY <1>0, <1>1, <1>6, <1>k DEF Counts, Waits, InOrder, At
<1> QED
  BY <1>5, <1>8, <1>9, <1>10, <1>11, <1>12, <1>13, <1>14, <1>15 DEF IInv

(***************************************************************************)
(* Broadcasts and pushes.                                                  *)
(***************************************************************************)
\* Where the threads but Main can be.
PlacesOK(q) ==
    /\ q \in [Workers \cup Others -> WorkerPlaces \cup OtherPlaces]
    /\ \A w \in Workers : q[w] \in WorkerPlaces
    /\ \A o \in Others : q[o] \in OtherPlaces

\* From q to r, nobody who has a task goes anywhere, and nobody gets one.
OnlyWakes(q, r) ==
    \A h \in Workers \cup Others : \A x \in {"handler", "settle", "push", "wake"} :
        r[h] = x <=> q[h] = x

\* The places are in order whenever the invariant holds.
LEMMA PlacesNow ==
    ASSUME IInv
    PROVE  PlacesOK(pc)
BY DEF IInv, PlacesOK, Types, WorkersHold, Pushers

\* A broadcast only wakes workers.
LEMMA BroadcastWakes ==
    ASSUME NEW q, PlacesOK(q)
    PROVE  /\ PlacesOK(Broadcast(q)) /\ OnlyWakes(q, Broadcast(q))
           /\ \A h \in Workers \cup Others : q[h] = "off" => Broadcast(q)[h] = "off"
<1>1. DOMAIN q = Workers \cup Others
  BY DEF PlacesOK
<1>2. \A h \in Workers \cup Others :
         Broadcast(q)[h] = IF q[h] \in {"asleep", "timed"} THEN "loop" ELSE q[h]
  BY <1>1 DEF Broadcast
<1>3. DOMAIN Broadcast(q) = Workers \cup Others
      /\ Broadcast(q) = [h \in Workers \cup Others |-> Broadcast(q)[h]]
  BY <1>1 DEF Broadcast
<1>4. \A h \in Workers \cup Others : Broadcast(q)[h] \in WorkerPlaces \cup OtherPlaces
  BY <1>2 DEF PlacesOK, WorkerPlaces
<1>5. Broadcast(q) \in [Workers \cup Others -> WorkerPlaces \cup OtherPlaces]
  BY <1>3, <1>4
<1>6. /\ \A w \in Workers : Broadcast(q)[w] \in WorkerPlaces
      /\ \A o \in Others : Broadcast(q)[o] \in OtherPlaces
  BY <1>2 DEF PlacesOK, WorkerPlaces, OtherPlaces
<1>7. OnlyWakes(q, Broadcast(q))
  BY <1>2 DEF OnlyWakes
<1> QED
  BY <1>2, <1>5, <1>6, <1>7 DEF PlacesOK

\* A push only wakes workers, and starts some that are off.
LEMMA PushWakes ==
    ASSUME NEW t, NEW q, PlacesOK(q), PushRunning(t, q), extrasStarted \in BOOLEAN,
           ~extrasStarted => \A x \in Extras : q[x] = "off"
    PROVE  /\ PlacesOK(pc') /\ OnlyWakes(q, pc')
           /\ extrasStarted' \in BOOLEAN
           /\ ~extrasStarted' => \A x \in Extras : pc'[x] = "off"
<1>1. CASE t \in ParallelTasks /\ ~extrasStarted
  <2>1. PICK S \in SUBSET Extras :
           pc' = Broadcast([h \in DOMAIN q |-> IF h \in S THEN "loop" ELSE q[h]])
    BY <1>1 DEF PushRunning
  <2> DEFINE r == [h \in DOMAIN q |-> IF h \in S THEN "loop" ELSE q[h]]
  <2>2. PlacesOK(r)
    <3>1. DOMAIN q = Workers \cup Others
      BY DEF PlacesOK
    <3>2. S \cap Others = {}
      BY TaskQueueAssumption DEF Workers
    <3> QED
      BY <3>1, <3>2 DEF PlacesOK, WorkerPlaces
  <2>3. OnlyWakes(q, r)
    <3>1. DOMAIN q = Workers \cup Others
      BY DEF PlacesOK
    <3> QED
      BY <1>1, <3>1 DEF OnlyWakes
  <2> HIDE DEF r
  <2>4. PlacesOK(Broadcast(r)) /\ OnlyWakes(r, Broadcast(r))
    BY <2>2, BroadcastWakes
  <2>5. extrasStarted' = TRUE
    BY <1>1 DEF PushRunning
  <2> QED
    BY <2>1, <2>3, <2>4, <2>5 DEF OnlyWakes, r
<1>2. CASE ~(t \in ParallelTasks /\ ~extrasStarted)
  <2>1. pc' = Broadcast(q) /\ extrasStarted' = extrasStarted
    BY <1>2 DEF PushRunning
  <2>2. \A x \in Extras : x \in Workers \cup Others
    BY DEF Workers
  <2> QED
    BY <2>1, <2>2, BroadcastWakes
<1> QED
  BY <1>1, <1>2

\* What a push does to the lists, the workers and the counts, whoever makes it.
LEMMA PushRunningKeeps ==
    ASSUME IInv, UNCHANGED setup, NEW t \in Tasks \ pushed, NEW q, PlacesOK(q),
           PushRunning(t, q), UNCHANGED <<inGather>>,
           \A w \in Workers : q[w] = pc[w] /\ task'[w] = task[w]
    PROVE  /\ PlacesOK(pc') /\ OnlyWakes(q, pc') /\ extrasStarted' \in BOOLEAN
           /\ running' \in Seq(Tasks) /\ ToSet(running') = ToSet(running) \cup {t}
           /\ pushed' = pushed \cup {t}
           /\ Lists' /\ WorkersHold' /\ Counts'
<1> USE DEF fields, flags
<1>k. MainTasks' = MainTasks /\ Budget' = Budget
  BY KindsStay
<1>1. More(running', running, t)
  <2>1. t \notin ToSet(running)
    BY DEF IInv, Lists
  <2>2. running \in Seq(Tasks) /\ IsInjective(running) /\ running' \in Put(running, t, when)
    BY DEF IInv, Types, Lists, PushRunning
  <2> QED
    BY <2>1, <2>2, PutMore
<1>2. /\ UNCHANGED <<finished, retiring, finishedCount, fields, flags, lock, ready,
                     called, freed, asked>>
      /\ runningCount' = runningCount + 1 /\ pushed' = pushed \cup {t}
  BY DEF PushRunning
<1>3. /\ PlacesOK(pc') /\ OnlyWakes(q, pc')
      /\ extrasStarted' \in BOOLEAN
      /\ ~extrasStarted' => \A x \in Extras : pc'[x] = "off"
  <2>1. extrasStarted \in BOOLEAN /\ (~extrasStarted => \A x \in Extras : q[x] = "off")
    BY DEF IInv, Types, WorkersHold, Workers
  <2> QED
    BY <2>1, PushWakes
<1>4. Lists'
  BY <1>1, <1>2 DEF More, IInv, Lists
<1>5. \A w \in Workers : \A x \in {"handler", "settle"} : pc'[w] = x <=> pc[w] = x
  BY <1>3 DEF OnlyWakes
<1>6. WorkersHold'
  <2>1. \A w \in Workers :
          /\ pc'[w] \in WorkerPlaces
          /\ task'[w] # None <=> pc'[w] \in Holding
          /\ task'[w] # None => /\ task'[w] \notin MainTasks
                                /\ Has(w, task'[w])
                                /\ lock # w => task'[w] \in busy
          /\ lock = w => pc'[w] = "settle"
    BY <1>3, <1>5 DEF PlacesOK, IInv, WorkersHold, Holding
  <2>2. \A w \in Workers : task'[w] # None =>
           \/ task'[w] \in ToSet(running') /\ lock' # w
           \/ task'[w] \in ToSet(finished') /\ lock' = w
    BY <2>1, <1>1, <1>2 DEF Has, More
  <2>3. \A w, x \in Workers : w # x /\ task'[w] # None => task'[w] # task'[x]
    BY DEF IInv, WorkersHold
  <2>4. busy' \subseteq ToSet(running')
    BY <1>1, <1>2 DEF IInv, WorkersHold, More
  <2> QED
    BY <1>2, <1>3, <1>k, <2>1, <2>2, <2>3, <2>4 DEF WorkersHold, Has
<1>7. Counts'
  <2>1. Len(running') = Len(running) + 1 /\ Len(running) \in Nat
    BY <1>1, LenProperties DEF More, IInv, Types
  <2> QED
    BY <1>2, <1>k, <2>1 DEF IInv, Counts
<1> QED
  BY <1>1, <1>2, <1>3, <1>4, <1>6, <1>7 DEF More

\* A push that Main's stack has no part in.
LEMMA PushIInv ==
    ASSUME IInv, UNCHANGED setup, NEW t \in Tasks \ pushed, NEW q, PlacesOK(q),
           PushRunning(t, q), UNCHANGED main, At("push") => stack[1].task # t,
           task' \in [Workers \cup Others -> Tasks \cup {None}],
           \A w \in Workers : q[w] = pc[w] /\ task'[w] = task[w],
           \A o \in Others :
              \/ q[o] = pc[o] /\ task'[o] = task[o] /\ (pc[o] = "push" => task[o] # t)
              \/ q[o] = "idle" /\ pc[o] = "push"
    PROVE  IInv'
<1> USE DEF fields, flags, main
<1>k. MainTasks' = MainTasks /\ ScheduledTasks' = ScheduledTasks
  BY KindsStay
<1>1. /\ PlacesOK(pc') /\ OnlyWakes(q, pc') /\ extrasStarted' \in BOOLEAN
      /\ running' \in Seq(Tasks) /\ ToSet(running') = ToSet(running) \cup {t}
      /\ pushed' = pushed \cup {t}
      /\ Lists' /\ WorkersHold' /\ Counts'
  BY PushRunningKeeps
<1>2. /\ UNCHANGED <<finished, retiring, finishedCount, fields, flags, lock, ready,
                     called, freed, asked>>
  BY DEF PushRunning
<1>3. Types'
  BY <1>1, <1>2 DEF PlacesOK, IInv, Types
<1>4. Calls'
  BY DEF IInv, Calls
<1>5. MainHolds'
  <2>1. \A x : Has(Main, x) => Has(Main, x)'
    BY <1>1, <1>2 DEF Has
  <2> QED
    BY <1>1, <1>2, <1>k, <2>1 DEF IInv, MainHolds, Has, At
<1>6. Pushers'
  <2>1. \A o \in Others :
           /\ pc'[o] \in OtherPlaces
           /\ \A x \in {"push", "wake"} : pc'[o] = x => pc[o] = x /\ task'[o] = task[o]
           /\ pc'[o] = "push" => task[o] # t
    BY <1>1 DEF PlacesOK, OnlyWakes, OtherPlaces
  <2>2. \A o \in Others : pc'[o] \in {"push", "wake"} \/ pc'[o] = "idle"
    BY <2>1 DEF OtherPlaces
  <2> QED
    BY <1>1, <2>1, <2>2 DEF IInv, Pushers, At
<1>7. Parking'
  BY <1>1, <1>2, <1>k DEF IInv, Parking
<1>8. Passes'
  <2>1. \A x : Settling(x) => Settling(x)'
    BY <1>1 DEF Settling, OnlyWakes, At
  <2>2. t \notin done
    BY DEF IInv, Passes
  <2> QED
    BY <1>1, <1>2, <2>1, <2>2 DEF IInv, Passes
<1>9. Wakes'
  <2>1. \A o \in Others : pc[o] = "wake" => pc'[o] = "wake" /\ task'[o] = task[o]
    BY <1>1 DEF OnlyWakes
  <2> QED
    BY <1>2, <2>1 DEF IInv, Wakes
<1>10. Waits'
  <2>1. t \notin asked
    BY DEF IInv, Waits
  <2> QED
    BY <1>1, <1>2, <1>k, <2>1 DEF IInv, Waits, InOrder, At
<1> QED
  BY <1>1, <1>3, <1>4, <1>5, <1>6, <1>7, <1>8, <1>9, <1>10 DEF IInv

\* The pushes of the other threads, and Main's of a task that blocks nothing.
LEMMA PushesIInv ==
    ASSUME IInv, UNCHANGED setup,
           MainPush \/ \E o \in Others : Push(o) \/ PushBlocking(o)
    PROVE  IInv'
<1>0. /\ PlacesOK(pc) /\ task \in [Workers \cup Others -> Tasks \cup {None}]
      /\ Workers \cap Others = {}
  BY PlacesNow, TaskQueueAssumption DEF IInv, Types
<1>1. CASE MainPush \/ \E o \in Others : Push(o)
  <2>1. PICK t \in Unpushed : PushRunning(t, pc) /\ UNCHANGED <<task, main>>
    BY <1>1 DEF MainPush, Push
  <2>2. t \in Tasks \ pushed /\ (\A o \in Others : task[o] # t) /\ stack[1].task # t
    BY DEF Unpushed
  <2> QED
    BY <1>0, <2>1, <2>2, PushIInv
<1>2. CASE \E o \in Others : PushBlocking(o)
  <2>1. PICK o \in Others : PushBlocking(o)
    BY <1>2
  <2> DEFINE q == [pc EXCEPT ![o] = "idle"]
  <2>2. /\ pc[o] = "push" /\ PushRunning(task[o], q)
        /\ task' = [task EXCEPT ![o] = None] /\ UNCHANGED main
    BY <2>1 DEF PushBlocking
  <2>3. /\ \A h \in Workers \cup Others : q[h] = IF h = o THEN "idle" ELSE pc[h]
        /\ PlacesOK(q)
    BY <1>0 DEF PlacesOK, OtherPlaces
  <2>4. /\ \A h \in Workers \cup Others : task'[h] = IF h = o THEN None ELSE task[h]
        /\ task' \in [Workers \cup Others -> Tasks \cup {None}]
    BY <1>0, <2>2
  <2> HIDE DEF q
  <2>5. /\ task[o] \in Tasks \ pushed
        /\ At("push") => stack[1].task # task[o]
        /\ \A p \in Others \ {o} : pc[p] = "push" => task[p] # task[o]
    BY <2>2 DEF IInv, Pushers
  <2>6. \A w \in Workers : q[w] = pc[w] /\ task'[w] = task[w]
    BY <1>0, <2>3, <2>4
  <2>7. \A p \in Others :
           \/ q[p] = pc[p] /\ task'[p] = task[p] /\ (pc[p] = "push" => task[p] # task[o])
           \/ q[p] = "idle" /\ pc[p] = "push"
    BY <2>2, <2>3, <2>4, <2>5
  <2> QED
    BY <2>2, <2>3, <2>4, <2>5, <2>6, <2>7, PushIInv
<1> QED
  BY <1>1, <1>2

\* Main's push of a blocking task, after its scan.
LEMMA MainPushBlockingIInv ==
    ASSUME IInv, UNCHANGED setup, MainPushBlocking
    PROVE  IInv'
<1> USE DEF fields, flags
<1>0. Types /\ Calls /\ Waits
  BY DEF IInv
<1> DEFINE t == stack[1].task
<1>c. /\ stack[1].at = "push" /\ PushRunning(t, pc) /\ MainReturn
      /\ UNCHANGED <<task, inGather, inRunMain>>
  BY DEF MainPushBlocking, At
<1>t. /\ t \in Tasks \ pushed
      /\ \A o \in Others : pc[o] = "push" => task[o] # t
  BY <1>c DEF IInv, Pushers, At
<1> HIDE DEF t
<1>k. MainTasks' = MainTasks /\ ScheduledTasks' = ScheduledTasks
  BY KindsStay
<1>1. /\ PlacesOK(pc') /\ OnlyWakes(pc, pc') /\ extrasStarted' \in BOOLEAN
      /\ running' \in Seq(Tasks) /\ ToSet(running') = ToSet(running) \cup {t}
      /\ pushed' = pushed \cup {t}
      /\ Lists' /\ WorkersHold' /\ Counts'
  BY <1>c, <1>t, PlacesNow, PushRunningKeeps
<1>2. UNCHANGED <<finished, retiring, finishedCount, fields, flags, lock, ready,
                  called, freed, asked>>
  BY <1>c DEF PushRunning
<1>3. stack[1].at \notin Base \cup RunMain /\ stack[1].at \notin Retiring
  BY <1>c DEF Base, RunMain, Retiring
<1>4. /\ Calls'
      /\ stack' \in Seq(Frames) /\ Len(stack') = Len(stack) - 1
      /\ \A i \in 1..(Len(stack) - 1) : stack'[i] = stack[i + 1]
      /\ Len(stack) \in Nat /\ Len(stack) > 1
  <2>1. inGather' \in BOOLEAN /\ inGather' = inGather /\ inRunMain' = inRunMain
    BY <1>0, <1>c DEF Types
  <2> QED
    BY <1>0, <1>c, <1>3, <2>1, CallsReturn
<1>5. \A i \in 1..Len(stack') :
         /\ i + 1 \in 1..Len(stack) /\ stack'[i] = stack[i + 1]
         /\ stack[i + 1].at \in {"idle", "wait", "handler", "callback"}
  BY <1>4, <1>0 DEF Calls
<1>6. stack'[1].at \in {"idle", "wait", "handler", "callback"}
  BY <1>4, <1>5
<1>7. Types'
  BY <1>0, <1>c, <1>t, <1>1, <1>2, <1>4 DEF PlacesOK, Types, Frames
<1>8. MainHolds'
  <2>1. \A x : Has(Main, x) => Has(Main, x)'
    BY <1>1, <1>2 DEF Has
  <2>2. \A i \in 1..Len(stack') :
           /\ stack'[i].at \in Holding =>
                 stack'[i].task \in MainTasks /\ Has(Main, stack'[i].task)
           /\ stack'[i].at = "callback" => stack'[i].task \in ToSet(retiring)
    BY <1>5 DEF IInv, MainHolds
  <2>3. lock # Main /\ called \ freed \subseteq {}
    BY <1>c DEF IInv, MainHolds, At
  <2> QED
    BY <1>1, <1>2, <1>6, <1>k, <2>1, <2>2, <2>3 DEF IInv, MainHolds, Has, At
<1>9. Pushers'
  <2>1. \A o \in Others :
           /\ pc'[o] \in OtherPlaces
           /\ \A x \in {"push", "wake"} : pc'[o] = x <=> pc[o] = x
    BY <1>1 DEF PlacesOK, OnlyWakes
  <2>2. \A o \in Others : pc'[o] \in {"push", "wake"} \/ pc'[o] = "idle"
    BY <2>1 DEF OtherPlaces
  <2> QED
    BY <1>c, <1>t, <1>1, <1>6, <2>1, <2>2 DEF IInv, Pushers, At
<1>10. Parking'
  <2>1. \A x \in parked : \A i \in 1..Len(stack') :
           stack'[i].at \in Holding => stack'[i].task # x
    BY <1>5 DEF IInv, Parking
  <2> QED
    BY <1>c, <1>1, <1>2, <1>k, <2>1 DEF IInv, Parking
<1>11. Passes'
  <2>1. \A x : Settling(x) => Settling(x)'
    BY <1>c, <1>1 DEF Settling, OnlyWakes, At
  <2>2. t \notin done
    BY <1>t DEF IInv, Passes
  <2> QED
    BY <1>1, <1>2, <2>1, <2>2 DEF IInv, Passes
<1>12. Wakes'
  <2>1. \A o \in Others : pc[o] = "wake" => pc'[o] = "wake" /\ task'[o] = task[o]
    BY <1>c, <1>1 DEF OnlyWakes
  <2> QED
    BY <1>2, <2>1 DEF IInv, Wakes
<1>13. Waits'
  BY <1>0, <1>1, <1>2, <1>6, <1>k DEF Waits, InOrder, At
<1> QED
  BY <1>1, <1>4, <1>7, <1>8, <1>9, <1>10, <1>11, <1>12, <1>13 DEF IInv

(***************************************************************************)
(* Steps in which no thread takes, settles or retires a task.              *)
(***************************************************************************)
\* The running list with its entries in some order.
SameRunning == Same(running', running)

\* A list that stays has its entries in some order.
LEMMA RunningStays ==
    ASSUME IInv, UNCHANGED running
    PROVE  SameRunning
BY DEF IInv, Types, Lists, Same, SameRunning

\* What such a step leaves alone: all but when and whether a task is due, and what
\* the others and the sleeping workers do.
Quiet ==
    /\ UNCHANGED <<setup, finished, retiring, runningCount, finishedCount, busy, park, done,
                   lock, extrasStarted, stack, inGather, inRunMain, pushed, called, freed,
                   asked>>
    /\ SameRunning
    /\ PlacesOK(pc') /\ task' \in [Workers \cup Others -> Tasks \cup {None}]
    /\ when' \in [Tasks -> {"now", "past", "later"}]
    /\ \A w \in Workers :
          /\ task'[w] = task[w]
          /\ \A x \in {"handler", "settle"} : pc'[w] = x <=> pc[w] = x
          /\ pc[w] = "off" => pc'[w] = "off"
    /\ \A t \in Tasks \ ToSet(running) : when'[t] = when[t]

\* Such a step has only the pushers, the parks and the wakes to look after.
LEMMA QuietIInv ==
    ASSUME IInv, Quiet, Pushers', Parking', Wakes'
    PROVE  IInv'
<1> USE DEF Quiet
<1>k. MainTasks' = MainTasks /\ ScheduledTasks' = ScheduledTasks /\ Budget' = Budget
  BY KindsStay
<1>r. /\ running' \in Seq(Tasks) /\ IsInjective(running')
      /\ ToSet(running') = ToSet(running) /\ Len(running') = Len(running)
  BY DEF Same, SameRunning
<1>1. Types'
  BY <1>r DEF IInv, Types, PlacesOK
<1>2. Calls'
  BY DEF IInv, Calls
<1>3. Lists'
  BY <1>r DEF IInv, Lists
<1>4. WorkersHold'
  <2>1. \A w \in Workers :
          /\ pc'[w] \in WorkerPlaces
          /\ task[w] # None <=> pc'[w] \in Holding
          /\ lock = w => pc'[w] = "settle"
    BY DEF PlacesOK, IInv, WorkersHold, Holding
  <2>2. \A x : \A h : Has(h, x)' <=> Has(h, x)
    BY <1>r DEF Has
  <2>3. \A w \in Workers : Has(w, task[w])' <=> Has(w, task'[w])
    BY <1>r DEF Has
  <2>4. ~extrasStarted => \A x \in Extras : pc'[x] = "off"
    BY DEF IInv, WorkersHold, Workers
  <2> QED
    BY <1>k, <1>r, <2>1, <2>2, <2>3, <2>4 DEF IInv, WorkersHold, Has
<1>5. MainHolds'
  BY <1>k, <1>r DEF IInv, MainHolds, Has, At
<1>6. Passes'
  <2>1. \A x : Settling(x)' <=> Settling(x)
    BY DEF Settling, At
  <2> QED
    BY <1>r, <2>1 DEF IInv, Passes
<1>7. Counts'
  BY <1>k, <1>r DEF IInv, Counts
<1>8. Waits'
  <2>1. \A i \in 1..Len(finished) : when'[finished[i]] = when[finished[i]]
    <3> TAKE i \in 1..Len(finished)
    <3>1. finished[i] \in ToSet(finished) /\ finished[i] \in Tasks
      BY Occurs, ElementOfSeq DEF IInv, Types
    <3> QED
      BY <3>1 DEF IInv, Lists
  <2>2. InOrder'
    BY <2>1 DEF IInv, Waits, InOrder
  <2> QED
    BY <1>k, <1>r, <2>2 DEF IInv, Waits, At
<1> QED
  BY <1>1, <1>2, <1>3, <1>4, <1>5, <1>6, <1>7, <1>8 DEF IInv

\* The scan for a blocking task on another thread, before its push.
LEMMA ScanBlockingIInv ==
    ASSUME IInv, UNCHANGED setup, NEW o \in Others, ScanBlocking(o)
    PROVE  IInv'
<1> USE DEF lists, counts, fields, flags, main, history
<1>1. PICK t \in Unpushed \cap BlockingTasks :
         /\ Goto(o, "idle", "push")
         /\ task' = [task EXCEPT ![o] = t]
         /\ UNCHANGED <<lists, counts, fields, flags, lock, extrasStarted, main,
                        ready, history>>
  BY DEF ScanBlocking
<1>t. t \in Tasks \ pushed /\ (\A p \in Others : task[p] # t) /\ stack[1].task # t
  BY DEF Unpushed
<1>0. /\ PlacesOK(pc) /\ task \in [Workers \cup Others -> Tasks \cup {None}]
      /\ Workers \cap Others = {}
  BY PlacesNow, TaskQueueAssumption DEF IInv, Types
<1>2. /\ pc[o] = "idle"
      /\ \A h \in Workers \cup Others : pc'[h] = IF h = o THEN "push" ELSE pc[h]
      /\ \A h \in Workers \cup Others : task'[h] = IF h = o THEN t ELSE task[h]
      /\ task' \in [Workers \cup Others -> Tasks \cup {None}]
      /\ PlacesOK(pc')
  BY <1>0, <1>1, <1>t DEF Goto, PlacesOK, OtherPlaces
<1>w. \A w \in Workers : pc'[w] = pc[w] /\ task'[w] = task[w]
  BY <1>0, <1>2
<1>3. Quiet
  BY <1>1, <1>2, <1>w, RunningStays DEF Quiet, IInv, Types
<1>4. Pushers'
  BY <1>1, <1>2, <1>t DEF IInv, Pushers, At, OtherPlaces
<1>5. Parking'
  BY <1>1, <1>w, KindsStay DEF IInv, Parking
<1>6. Wakes'
  BY <1>1, <1>2 DEF IInv, Wakes
<1> QED
  BY <1>3, <1>4, <1>5, <1>6, QuietIInv

\* What a task waits for is there; its waker has yet to say so.
LEMMA PublishIInv ==
    ASSUME IInv, UNCHANGED setup, NEW o \in Others, Publish(o)
    PROVE  IInv'
<1> USE DEF lists, counts, fields, flags, main, history
<1>1. PICK t \in WaitingTasks \cap pushed :
         /\ Goto(o, "idle", "wake")
         /\ ready' = ready \cup {t}
         /\ task' = [task EXCEPT ![o] = t]
         /\ UNCHANGED <<lists, counts, fields, flags, lock, extrasStarted, main, history>>
  BY DEF Publish
<1>t. t \in Tasks \cap pushed
  BY KindsAreTasks
<1>0. /\ PlacesOK(pc) /\ task \in [Workers \cup Others -> Tasks \cup {None}]
      /\ Workers \cap Others = {}
  BY PlacesNow, TaskQueueAssumption DEF IInv, Types
<1>2. /\ pc[o] = "idle"
      /\ \A h \in Workers \cup Others : pc'[h] = IF h = o THEN "wake" ELSE pc[h]
      /\ \A h \in Workers \cup Others : task'[h] = IF h = o THEN t ELSE task[h]
      /\ task' \in [Workers \cup Others -> Tasks \cup {None}]
      /\ PlacesOK(pc')
  BY <1>0, <1>1, <1>t DEF Goto, PlacesOK, OtherPlaces
<1>w. \A w \in Workers : pc'[w] = pc[w] /\ task'[w] = task[w]
  BY <1>0, <1>2
<1>3. Quiet
  BY <1>1, <1>2, <1>w, RunningStays DEF Quiet, IInv, Types
<1>4. Pushers'
  BY <1>1, <1>2, <1>t DEF IInv, Pushers, At, OtherPlaces
<1>5. Parking'
  BY <1>1, <1>w, KindsStay DEF IInv, Parking
<1>6. Wakes'
  BY <1>1, <1>2 DEF IInv, Wakes
<1> QED
  BY <1>3, <1>4, <1>5, <1>6, QuietIInv

\* A worker goes to sleep or wakes up.
LEMMA SleepIInv ==
    ASSUME IInv, UNCHANGED <<setup, lists, counts, fields, flags, lock, extrasStarted, task,
                             main, ready, history>>,
           NEW w \in Workers, NEW from \in {"loop", "asleep", "timed"},
           NEW to \in {"loop", "asleep", "timed"}, Goto(w, from, to)
    PROVE  IInv'
<1> USE DEF lists, counts, fields, flags, main, history
<1>0. /\ PlacesOK(pc) /\ task \in [Workers \cup Others -> Tasks \cup {None}]
      /\ Workers \cap Others = {}
  BY PlacesNow, TaskQueueAssumption DEF IInv, Types
<1>1. UNCHANGED <<setup, lists, counts, fields, flags, lock, extrasStarted, task, main, ready,
                  history>>
  OBVIOUS
<1>2. /\ pc[w] = from /\ PlacesOK(pc')
      /\ \A h \in Workers \cup Others : pc'[h] = IF h = w THEN to ELSE pc[h]
  BY <1>0 DEF Goto, PlacesOK, WorkerPlaces
<1>o. \A o \in Others : pc'[o] = pc[o]
  BY <1>0, <1>2
<1>3. Quiet
  BY <1>0, <1>1, <1>2, RunningStays DEF Quiet, IInv, Types
<1>4. Pushers'
  BY <1>1, <1>o DEF IInv, Pushers, At
<1>5. Parking'
  BY <1>1, KindsStay DEF IInv, Parking
<1>6. Wakes'
  BY <1>1, <1>o DEF IInv, Wakes
<1> QED
  BY <1>3, <1>4, <1>5, <1>6, QuietIInv

\* A task whose handler has asked for a park is in the running list.
LEMMA ParkRunning ==
    ASSUME IInv
    PROVE  park \subseteq ToSet(running)
<1> SUFFICES ASSUME NEW t \in park PROVE t \in ToSet(running)
  OBVIOUS
<1>1. t \in Tasks /\ t \notin done /\ t \notin ToSet(finished) /\ Settling(t)
  BY DEF IInv, Passes
<1>2. t # None
  BY <1>1, TaskQueueAssumption
<1>3. CASE \E w \in Workers : pc[w] = "settle" /\ task[w] = t
  BY <1>1, <1>2, <1>3 DEF IInv, WorkersHold, Has
<1>4. CASE At("settle") /\ stack[1].task = t
  <2>1. 1 \in 1..Len(stack)
    BY TopFrame DEF IInv
  <2> QED
    BY <1>1, <1>4, <2>1 DEF IInv, MainHolds, Has, At, Holding
<1> QED
  BY <1>1, <1>3, <1>4 DEF Settling

\* retro_task_threaded_wake_locked: the task is due and not parked, and its handler
\* will find the wake if it is running.
LEMMA WakeLockedEffect ==
    ASSUME IInv, NEW t \in ToSet(running), NEW q, WakeLocked(t, q)
    PROVE  /\ SameRunning
           /\ when' \in [Tasks -> {"now", "past", "later"}]
           /\ when'[t] = "now" /\ \A x \in Tasks \ {t} : when'[x] = when[x]
           /\ parked' = parked \ {t} /\ woken' = woken \cup {t}
           /\ pc' = Broadcast(q) /\ UNCHANGED <<park, busy>>
           /\ t \in Tasks
<1>0. /\ running \in Seq(Tasks) /\ IsInjective(running) /\ t \in Tasks
      /\ when \in [Tasks -> {"now", "past", "later"}]
  BY DEF IInv, Types, Lists, ToSet
<1>1. woken' = woken \cup {t} /\ pc' = Broadcast(q) /\ UNCHANGED <<park, busy>>
  BY DEF WakeLocked
<1>2. CASE when[t] # "now"
  <2>1. /\ when' = [when EXCEPT ![t] = "now"] /\ parked' = parked \ {t}
        /\ running' \in Put(RemoveFirst(running, t), t, when')
    BY <1>2 DEF WakeLocked, Requeue
  <2>2. SameRunning
    BY <1>0, <2>1, PutBack DEF SameRunning
  <2> QED
    BY <1>0, <1>1, <2>1, <2>2
<1>3. CASE when[t] = "now"
  <2>1. UNCHANGED <<when, running, parked>>
    BY <1>3 DEF WakeLocked
  <2>2. t \notin parked
    BY <1>3 DEF IInv, Parking
  <2> QED
    BY <1>0, <1>1, <1>3, <2>1, <2>2, RunningStays
<1> QED
  BY <1>2, <1>3

\* A wake or a cancel leaves the parked tasks as they should be.
LEMMA WakeParking ==
    ASSUME IInv, UNCHANGED <<setup, stack>>, SameRunning,
           \A w \in Workers : task'[w] = task[w],
           NEW S \in SUBSET Tasks,
           parked' = parked \ S,
           \A x \in S : when'[x] = "now",
           \A x \in Tasks \ S : when'[x] = when[x]
    PROVE  Parking'
<1>1. ScheduledTasks' = ScheduledTasks
  BY KindsStay
<1>2. ToSet(running') = ToSet(running)
  BY DEF SameRunning, Same
<1>3. parked \subseteq Tasks
  <2>1. ToSet(running) \subseteq Tasks
    BY DEF IInv, Types, ToSet
  <2> QED
    BY <2>1 DEF IInv, Parking
<1> QED
  BY <1>1, <1>2, <1>3 DEF IInv, Parking

\* task_queue_wake
LEMMA WakeIInv ==
    ASSUME IInv, UNCHANGED setup, NEW o \in Others, Wake(o)
    PROVE  IInv'
<1> USE DEF lists, counts, fields, flags, main, history
<1> DEFINE t == task[o]
           q == [pc EXCEPT ![o] = "idle"]
<1>0. /\ PlacesOK(pc) /\ task \in [Workers \cup Others -> Tasks \cup {None}]
      /\ Workers \cap Others = {}
      /\ when \in [Tasks -> {"now", "past", "later"}]
  BY PlacesNow, TaskQueueAssumption DEF IInv, Types
<1>1. /\ pc[o] = "wake"
      /\ IF t \in ToSet(running) THEN WakeLocked(t, q)
                                 ELSE pc' = q /\ UNCHANGED <<running, fields>>
      /\ task' = [task EXCEPT ![o] = None]
      /\ UNCHANGED <<finished, retiring, counts, flags, lock, extrasStarted, main,
                     ready, history>>
  BY DEF Wake
<1>2. /\ \A h \in Workers \cup Others : q[h] = IF h = o THEN "idle" ELSE pc[h]
      /\ PlacesOK(q)
  BY <1>0 DEF PlacesOK, OtherPlaces
<1>3. /\ \A h \in Workers \cup Others : task'[h] = IF h = o THEN None ELSE task[h]
      /\ task' \in [Workers \cup Others -> Tasks \cup {None}]
  BY <1>0, <1>1
<1>t. t \in Tasks
  BY <1>1 DEF IInv, Pushers
<1> HIDE DEF q, t
<1>4. /\ SameRunning /\ UNCHANGED <<park, busy>>
      /\ when' \in [Tasks -> {"now", "past", "later"}]
      /\ \A x \in Tasks \ ToSet(running) : when'[x] = when[x]
      /\ PlacesOK(pc') /\ OnlyWakes(q, pc')
      /\ \A h \in Workers \cup Others : q[h] = "off" => pc'[h] = "off"
      /\ Parking'
      /\ t \notin parked' /\ (t \in park => t \in woken')
      /\ parked' \subseteq parked /\ woken \subseteq woken'
  <2>w. \A w \in Workers : task'[w] = task[w]
    BY <1>0, <1>3
  <2>1. CASE t \in ToSet(running)
    <3>1. WakeLocked(t, q)
      BY <1>1, <2>1
    <3>2. /\ SameRunning
          /\ when' \in [Tasks -> {"now", "past", "later"}]
          /\ when'[t] = "now" /\ \A x \in Tasks \ {t} : when'[x] = when[x]
          /\ parked' = parked \ {t} /\ woken' = woken \cup {t}
          /\ pc' = Broadcast(q) /\ UNCHANGED <<park, busy>>
          /\ t \in Tasks
      BY <2>1, <3>1, WakeLockedEffect
    <3>3. /\ PlacesOK(pc') /\ OnlyWakes(q, pc')
          /\ \A h \in Workers \cup Others : q[h] = "off" => pc'[h] = "off"
      BY <1>2, <3>2, BroadcastWakes
    <3>4. Parking'
      <4>1. {t} \in SUBSET Tasks
        BY <1>t
      <4> QED
        BY <1>1, <2>w, <3>2, <4>1, WakeParking
    <3> QED
      BY <2>1, <3>2, <3>3, <3>4
  <2>2. CASE t \notin ToSet(running)
    <3>1. pc' = q /\ UNCHANGED <<running, fields>>
      BY <1>1, <2>2
    <3>2. t \notin parked /\ t \notin park
      BY <2>2, ParkRunning DEF IInv, Parking
    <3>3. Parking'
      BY <1>1, <2>w, <3>1, KindsStay DEF IInv, Parking
    <3> QED
      BY <1>0, <1>2, <3>1, <3>2, <3>3, RunningStays DEF OnlyWakes
  <2> QED
    BY <2>1, <2>2
<1>5. Quiet
  <2>1. \A w \in Workers :
          /\ task'[w] = task[w]
          /\ \A x \in {"handler", "settle"} : pc'[w] = x <=> pc[w] = x
          /\ pc[w] = "off" => pc'[w] = "off"
    BY <1>0, <1>2, <1>3, <1>4 DEF OnlyWakes
  <2> QED
    BY <1>1, <1>3, <1>4, <2>1 DEF Quiet
<1>6. Pushers'
  <2>1. \A p \in Others :
           /\ pc'[p] \in OtherPlaces
           /\ pc'[p] # "idle" => pc'[p] = pc[p] /\ task'[p] = task[p]
    BY <1>2, <1>3, <1>4 DEF PlacesOK, OnlyWakes, OtherPlaces
  <2> QED
    BY <1>1, <2>1 DEF IInv, Pushers, At
<1>7. Wakes'
  <2>1. \A p \in Others \ {o} : pc[p] = "wake" => pc'[p] = "wake" /\ task'[p] = task[p]
    BY <1>2, <1>3, <1>4 DEF OnlyWakes
  <2> QED
    BY <1>1, <1>4, <2>1 DEF IInv, Wakes, t
<1> QED
  BY <1>4, <1>5, <1>6, <1>7, QuietIInv

\* task_queue_cancel_task and the like: a wake, and the flag.
LEMMA CancelIInv ==
    ASSUME IInv, UNCHANGED setup, Cancel
    PROVE  IInv'
<1> USE DEF lists, counts, fields, flags, main, history
<1>1. PICK t \in ToSet(running) :
         /\ WakeLocked(t, pc)
         /\ UNCHANGED <<finished, retiring, counts, done, lock, extrasStarted, task,
                        main, ready, history>>
  BY DEF Cancel
<1>2. /\ SameRunning
      /\ when' \in [Tasks -> {"now", "past", "later"}]
      /\ when'[t] = "now" /\ \A x \in Tasks \ {t} : when'[x] = when[x]
      /\ parked' = parked \ {t} /\ woken' = woken \cup {t}
      /\ pc' = Broadcast(pc) /\ UNCHANGED <<park, busy>>
      /\ t \in Tasks
  BY <1>1, WakeLockedEffect
<1>3. /\ PlacesOK(pc') /\ OnlyWakes(pc, pc')
      /\ \A h \in Workers \cup Others : pc[h] = "off" => pc'[h] = "off"
  BY <1>2, PlacesNow, BroadcastWakes
<1>4. Parking'
  <2>1. {t} \in SUBSET Tasks
    BY <1>2
  <2> QED
    BY <1>1, <1>2, <2>1, WakeParking
<1>5. Quiet
  BY <1>1, <1>2, <1>3 DEF Quiet, OnlyWakes, IInv, Types
<1>6. Pushers' /\ Wakes'
  <2>1. \A o \in Others :
           /\ pc'[o] \in OtherPlaces
           /\ \A x \in {"push", "wake"} : pc'[o] = x <=> pc[o] = x
    BY <1>3 DEF PlacesOK, OnlyWakes
  <2>2. \A o \in Others : pc'[o] = "idle" \/ pc'[o] \in {"push", "wake"}
    BY <2>1 DEF OtherPlaces
  <2>3. Pushers'
    BY <1>1, <2>1, <2>2 DEF IInv, Pushers, At
  <2>4. Wakes'
    BY <1>1, <1>2, <2>1 DEF IInv, Wakes
  <2> QED
    BY <2>3, <2>4
<1> QED
  BY <1>4, <1>5, <1>6, QuietIInv

\* task_queue_reset: the same for all of them.
LEMMA ResetIInv ==
    ASSUME IInv, UNCHANGED setup, Reset
    PROVE  IInv'
<1> USE DEF lists, counts, fields, flags, main, history
<1> DEFINE S == ToSet(running)
<1>0. S \subseteq Tasks /\ when \in [Tasks -> {"now", "past", "later"}]
  BY DEF IInv, Types, ToSet
<1>1. /\ woken' = woken \cup S /\ parked' = parked \ S
      /\ when' = [t \in Tasks |-> IF t \in S THEN "now" ELSE when[t]]
      /\ pc' = Broadcast(pc)
      /\ UNCHANGED <<lists, counts, park, busy, done, lock, extrasStarted, task, main,
                     ready, history>>
  BY DEF Reset
<1> HIDE DEF S
<1>2. /\ when' \in [Tasks -> {"now", "past", "later"}]
      /\ \A x \in S : when'[x] = "now"
      /\ \A x \in Tasks \ S : when'[x] = when[x]
  BY <1>0, <1>1
<1>3. /\ PlacesOK(pc') /\ OnlyWakes(pc, pc')
      /\ \A h \in Workers \cup Others : pc[h] = "off" => pc'[h] = "off"
  BY <1>1, PlacesNow, BroadcastWakes
<1>r. SameRunning
  BY <1>1, RunningStays
<1>4. Parking'
  BY <1>0, <1>1, <1>2, <1>r, WakeParking
<1>5. Quiet
  BY <1>1, <1>2, <1>3, <1>r DEF Quiet, OnlyWakes, IInv, Types, S
<1>6. Pushers' /\ Wakes'
  <2>1. \A o \in Others :
           /\ pc'[o] \in OtherPlaces
           /\ \A x \in {"push", "wake"} : pc'[o] = x <=> pc[o] = x
    BY <1>3 DEF PlacesOK, OnlyWakes
  <2>2. \A o \in Others : pc'[o] = "idle" \/ pc'[o] \in {"push", "wake"}
    BY <2>1 DEF OtherPlaces
  <2>3. Pushers'
    BY <1>1, <2>1, <2>2 DEF IInv, Pushers, At
  <2>4. Wakes'
    BY <1>1, <2>1 DEF IInv, Wakes
  <2> QED
    BY <2>3, <2>4
<1> QED
  BY <1>4, <1>5, <1>6, QuietIInv

\* A time comes.
LEMMA ExpireIInv ==
    ASSUME IInv, UNCHANGED setup, Expire
    PROVE  IInv'
<1> USE DEF lists, counts, fields, flags, main, history
<1> DEFINE I == {k \in 1..Len(running) : when[running[k]] = "later"}
           i == IF I # {} THEN Min(I) ELSE 0
<1>1. /\ i # 0
      /\ when' = [when EXCEPT ![running[i]] = "past"]
      /\ UNCHANGED <<lists, counts, parked, park, woken, busy, flags, lock,
                     extrasStarted, pc, task, main, ready, history>>
  BY DEF Expire, SelectInSeq
<1>2. i \in I
  <2>1. I \in SUBSET Nat
    OBVIOUS
  <2> HIDE DEF I
  <2> QED
    BY <1>1, <2>1, LeastNat
<1> HIDE DEF i
<1>3. /\ running[i] \in Tasks /\ running[i] \in ToSet(running)
      /\ when[running[i]] = "later"
  BY <1>2, Occurs, ElementOfSeq DEF IInv, Types
<1>4. /\ when' \in [Tasks -> {"now", "past", "later"}]
      /\ \A x \in Tasks : when'[x] = IF x = running[i] THEN "past" ELSE when[x]
  BY <1>1, <1>3 DEF IInv, Types
<1>5. Quiet
  BY <1>1, <1>3, <1>4, PlacesNow, RunningStays DEF Quiet, IInv, Types
<1>6. Parking'
  <2>1. parked \subseteq Tasks
    <3>1. ToSet(running) \subseteq Tasks
      BY DEF IInv, Types, ToSet
    <3> QED
      BY <3>1 DEF IInv, Parking
  <2> QED
    BY <1>1, <1>3, <1>4, <2>1, KindsStay DEF IInv, Parking
<1>7. Pushers' /\ Wakes'
  BY <1>1 DEF IInv, Pushers, Wakes, At
<1> QED
  BY <1>5, <1>6, <1>7, QuietIInv

(***************************************************************************)
(* A worker.                                                               *)
(***************************************************************************)
\* retro_task_threaded_unpark_locked: a park is over, a wake spent.
LEMMA UnparkEffect ==
    ASSUME IInv, NEW t \in ToSet(running), UnparkLocked(t)
    PROVE  /\ SameRunning
           /\ when' \in [Tasks -> {"now", "past", "later"}]
           /\ \A x \in Tasks \ {t} : when'[x] = when[x]
           /\ when'[t] = "now" \/ (t \notin parked /\ when'[t] = when[t])
           /\ parked' = parked \ {t} /\ woken' = woken \ {t}
           /\ t \in Tasks
<1>0. /\ running \in Seq(Tasks) /\ IsInjective(running) /\ t \in Tasks
      /\ when \in [Tasks -> {"now", "past", "later"}]
  BY DEF IInv, Types, Lists, ToSet
<1>1. parked' = parked \ {t} /\ woken' = woken \ {t}
  BY DEF UnparkLocked
<1>2. CASE t \in parked
  <2>1. /\ when' = [when EXCEPT ![t] = "now"]
        /\ running' \in Put(RemoveFirst(running, t), t, when')
    BY <1>2 DEF UnparkLocked, Requeue
  <2>2. SameRunning
    BY <1>0, <2>1, PutBack DEF SameRunning
  <2>3. /\ when' \in [Tasks -> {"now", "past", "later"}] /\ when'[t] = "now"
        /\ \A x \in Tasks \ {t} : when'[x] = when[x]
    BY <1>0, <2>1
  <2> QED
    BY <1>0, <1>1, <2>2, <2>3
<1>3. CASE t \notin parked
  <2>1. UNCHANGED <<when, running>>
    BY <1>3 DEF UnparkLocked
  <2> QED
    BY <1>0, <1>1, <1>3, <2>1, RunningStays
<1> QED
  BY <1>2, <1>3

\* What changes for the parked tasks when one of them, or another, is taken.
LEMMA UnparkParking ==
    ASSUME IInv, UNCHANGED setup, NEW t \in ToSet(running), UnparkLocked(t),
           \A w \in Workers : task'[w] = task[w] \/ task'[w] = t,
           \A i \in 1..Len(stack') : stack'[i].at \in Holding =>
              \/ stack'[i].task = t
              \/ \E j \in 1..Len(stack) :
                    stack[j].at \in Holding /\ stack[j].task = stack'[i].task
    PROVE  Parking'
<1>1. /\ SameRunning
      /\ when' \in [Tasks -> {"now", "past", "later"}]
      /\ \A x \in Tasks \ {t} : when'[x] = when[x]
      /\ when'[t] = "now" \/ (t \notin parked /\ when'[t] = when[t])
      /\ parked' = parked \ {t} /\ woken' = woken \ {t}
      /\ t \in Tasks
  BY UnparkEffect
<1>2. ScheduledTasks' = ScheduledTasks /\ ToSet(running') = ToSet(running)
  BY <1>1, KindsStay DEF SameRunning, Same
<1>3. parked \subseteq Tasks
  <2>1. ToSet(running) \subseteq Tasks
    BY DEF IInv, Types, ToSet
  <2> QED
    BY <2>1 DEF IInv, Parking
<1>4. parked' \subseteq ToSet(running')
  BY <1>1, <1>2 DEF IInv, Parking
<1>5. ASSUME NEW x \in parked'
      PROVE  /\ when'[x] # "now"
             /\ \A w \in Workers : task'[w] # x
             /\ \A i \in 1..Len(stack') : stack'[i].at \in Holding => stack'[i].task # x
  BY <1>1, <1>3 DEF IInv, Parking
<1>6. \A x \in Tasks \ ScheduledTasks : x \in parked' \/ when'[x] = "now"
  BY <1>1 DEF IInv, Parking
<1> QED
  BY <1>2, <1>4, <1>5, <1>6 DEF Parking

\* threaded_worker takes a task, or goes to sleep.
LEMMA PickIInv ==
    ASSUME IInv, UNCHANGED setup, NEW w \in Workers, Pick(w)
    PROVE  IInv'
<1> USE DEF lists, counts, flags, main, history
<1> DEFINE I == {k \in 1..Len(running) : MayTake(w, running[k])}
           i == IF I # {} THEN Min(I) ELSE 0
           t == running[i]
<1>i. i = SelectInSeq(running, LAMBDA x : MayTake(w, x))
  BY DEF SelectInSeq
<1>1. /\ Unlocked /\ pc[w] = "loop"
      /\ IF i = 0 THEN Goto(w, "loop", "asleep") /\ UNCHANGED <<running, fields, task>>
         ELSE IF when[t] = "later"
         THEN Goto(w, "loop", "timed") /\ UNCHANGED <<running, fields, task>>
         ELSE /\ Goto(w, "loop", "handler")
              /\ task' = [task EXCEPT ![w] = t]
              /\ busy' = busy \cup {t}
              /\ UnparkLocked(t)
              /\ UNCHANGED park
      /\ UNCHANGED <<finished, retiring, counts, flags, lock, extrasStarted, main,
                     ready, history>>
  BY DEF Pick, SelectInSeq
<1>2. i # 0 => i \in I
  <2>1. I \in SUBSET Nat
    OBVIOUS
  <2> HIDE DEF I
  <2> QED
    BY <2>1, LeastNat
<1> HIDE DEF i, t
<1>3. CASE Goto(w, "loop", "asleep") /\ UNCHANGED <<running, fields, task>>
  BY <1>1, <1>3, SleepIInv
<1>4. CASE Goto(w, "loop", "timed") /\ UNCHANGED <<running, fields, task>>
  BY <1>1, <1>4, SleepIInv
<1>5. CASE /\ i # 0
           /\ Goto(w, "loop", "handler")
           /\ task' = [task EXCEPT ![w] = t]
           /\ busy' = busy \cup {t}
           /\ UnparkLocked(t)
           /\ UNCHANGED park
  <2>0. /\ PlacesOK(pc) /\ task \in [Workers \cup Others -> Tasks \cup {None}]
        /\ Workers \cap Others = {}
    BY PlacesNow, TaskQueueAssumption DEF IInv, Types
  <2>k. /\ MainTasks' = MainTasks /\ ScheduledTasks' = ScheduledTasks
        /\ Budget' = Budget
    BY KindsStay
  <2>1. t \in ToSet(running) /\ MayTake(w, t)
    BY <1>2, <1>5, Occurs DEF IInv, Types, t
  <2>2. t \notin MainTasks /\ t \notin busy
    BY <2>1 DEF MayTake
  <2>3. /\ SameRunning
        /\ when' \in [Tasks -> {"now", "past", "later"}]
        /\ \A x \in Tasks \ {t} : when'[x] = when[x]
        /\ when'[t] = "now" \/ (t \notin parked /\ when'[t] = when[t])
        /\ parked' = parked \ {t} /\ woken' = woken \ {t}
        /\ t \in Tasks
    BY <1>5, <2>1, UnparkEffect
  <2>4. t # None
    BY <2>3, TaskQueueAssumption
  <2>r. /\ running' \in Seq(Tasks) /\ IsInjective(running')
        /\ ToSet(running') = ToSet(running) /\ Len(running') = Len(running)
    BY <2>3 DEF Same, SameRunning
  <2>5. /\ \A h \in Workers \cup Others : pc'[h] = IF h = w THEN "handler" ELSE pc[h]
        /\ \A h \in Workers \cup Others : task'[h] = IF h = w THEN t ELSE task[h]
        /\ task' \in [Workers \cup Others -> Tasks \cup {None}]
        /\ PlacesOK(pc')
    BY <1>5, <2>0, <2>3 DEF Goto, PlacesOK, WorkerPlaces
  <2>6. \A o \in Others : pc'[o] = pc[o] /\ task'[o] = task[o]
    BY <2>0, <2>5
  <2>7. Types'
    BY <1>1, <2>3, <2>5, <2>r DEF IInv, Types, PlacesOK
  <2>8. Calls' /\ Lists'
    BY <1>1, <2>r DEF IInv, Calls, Lists
  <2>9. \A x \in Workers : task[x] # t
    <3> SUFFICES ASSUME NEW x \in Workers, task[x] = t PROVE FALSE
      OBVIOUS
    <3>1. lock # x
      BY <1>1, TaskQueueAssumption DEF Unlocked, Threads
    <3> QED
      BY <2>2, <2>4, <3>1 DEF IInv, WorkersHold
  <2>10. WorkersHold'
    <3>1. \A x \in Workers :
            /\ pc'[x] \in WorkerPlaces
            /\ task'[x] # None <=> pc'[x] \in Holding
            /\ task'[x] # None => /\ task'[x] \notin MainTasks
                                  /\ task'[x] \in ToSet(running)
                                  /\ task'[x] \in busy'
            /\ lock # x
      <4> TAKE x \in Workers
      <4>1. lock # x
        BY <1>1, TaskQueueAssumption DEF Unlocked, Threads
      <4>2. CASE x = w
        BY <1>5, <2>1, <2>2, <2>4, <2>5, <4>1, <4>2 DEF WorkerPlaces, Holding
      <4>3. CASE x # w
        BY <1>5, <2>5, <4>1, <4>3 DEF IInv, WorkersHold, Has
      <4> QED
        BY <4>2, <4>3
    <3>2. \A x, y \in Workers : x # y /\ task'[x] # None => task'[x] # task'[y]
      BY <2>5, <2>9 DEF IInv, WorkersHold
    <3>3. busy' \subseteq ToSet(running')
      BY <1>5, <2>1, <2>r DEF IInv, WorkersHold
    <3>4. ~extrasStarted => \A x \in Extras : pc'[x] = "off"
      BY <1>1, <2>5 DEF IInv, WorkersHold, Workers
    <3> QED
      BY <1>1, <2>k, <2>r, <3>1, <3>2, <3>3, <3>4 DEF WorkersHold, Has
  <2>11. MainHolds'
    BY <1>1, <2>k, <2>r DEF IInv, MainHolds, Has, At
  <2>12. Pushers'
    BY <1>1, <2>6 DEF IInv, Pushers, At
  <2>13. Parking'
    <3>1. \A x \in Workers : task'[x] = task[x] \/ task'[x] = t
      BY <2>5
    <3> QED
      BY <1>1, <1>5, <2>1, <3>1, UnparkParking
  <2>14. ~Settling(t)
    <3>1. 1 \in 1..Len(stack)
      BY TopFrame DEF IInv
    <3>2. ~(At("settle") /\ stack[1].task = t)
      BY <2>2, <3>1 DEF IInv, MainHolds, At, Holding
    <3> QED
      BY <2>9, <3>2 DEF Settling
  <2>15. Passes'
    <3>1. \A x : Settling(x) => Settling(x)'
      BY <1>1, <2>5 DEF Settling, At
    <3> QED
      BY <1>1, <1>5, <2>r, <3>1 DEF IInv, Passes
  <2>16. Wakes'
    <3>1. t \notin park
      BY <2>14 DEF IInv, Passes
    <3> QED
      BY <1>1, <1>5, <2>3, <2>6, <3>1 DEF IInv, Wakes
  <2>17. Counts'
    BY <1>1, <2>k, <2>r DEF IInv, Counts
  <2>18. Waits'
    <3>1. \A j \in 1..Len(finished) : when'[finished[j]] = when[finished[j]]
      <4> TAKE j \in 1..Len(finished)
      <4>1. finished[j] \in ToSet(finished) /\ finished[j] \in Tasks
        BY Occurs, ElementOfSeq DEF IInv, Types
      <4> QED
        BY <2>1, <2>3, <4>1 DEF IInv, Lists
    <3>2. InOrder'
      BY <1>1, <3>1 DEF IInv, Waits, InOrder
    <3> QED
      BY <1>1, <2>k, <2>r, <3>2 DEF IInv, Waits, At
  <2> QED
    BY <2>7, <2>8, <2>10, <2>11, <2>12, <2>13, <2>15, <2>16, <2>17, <2>18 DEF IInv
<1> QED
  BY <1>1, <1>3, <1>4, <1>5

\* No thread settles what a worker has in its handler, ...
LEMMA InWorkersHandler ==
    ASSUME IInv, NEW w \in Workers, pc[w] = "handler"
    PROVE  /\ task[w] \in Tasks /\ task[w] \in ToSet(running) /\ task[w] \in pushed
           /\ ~Settling(task[w])
           /\ task[w] \notin park /\ task[w] \notin done
<1>1. /\ task[w] # None /\ task[w] \notin MainTasks
      /\ lock # w /\ task[w] \in ToSet(running)
  BY DEF IInv, WorkersHold, Holding, Has
<1>2. 1 \in 1..Len(stack)
  BY TopFrame DEF IInv
<1>3. ~(At("settle") /\ stack[1].task = task[w])
  BY <1>1, <1>2 DEF IInv, MainHolds, At, Holding
<1>4. ~Settling(task[w])
  BY <1>1, <1>3 DEF Settling, IInv, WorkersHold
<1>5. task[w] \in Tasks /\ task[w] \in pushed
  BY <1>1 DEF IInv, Types, Lists, ToSet
<1> QED
  BY <1>1, <1>4, <1>5 DEF IInv, Passes

\* A handler's pass only says that it is over, or that it wants to park because
\* what it waits for is not there.
LEMMA HandlerEffect ==
    ASSUME NEW t, Handler(t)
    PROVE  \/ done' = done \cup {t} /\ park' = park
           \/ t \notin ready /\ park' = park \cup {t} /\ done' = done
           \/ park' = park /\ done' = done
BY DEF Handler

\* A pass on a worker.
LEMMA WorkerHandlerIInv ==
    ASSUME IInv, UNCHANGED setup, NEW w \in Workers, WorkerHandler(w)
    PROVE  IInv'
<1> USE DEF lists, counts, main, history
<1> DEFINE t == task[w]
<1>0. /\ PlacesOK(pc) /\ task \in [Workers \cup Others -> Tasks \cup {None}]
      /\ Workers \cap Others = {}
  BY PlacesNow, TaskQueueAssumption DEF IInv, Types
<1>k. MainTasks' = MainTasks /\ ScheduledTasks' = ScheduledTasks /\ Budget' = Budget
  BY KindsStay
<1>1. /\ pc[w] = "handler" /\ Handler(t) /\ pc' = [pc EXCEPT ![w] = "settle"]
      /\ UNCHANGED <<lists, counts, when, parked, woken, busy, cancelled, lock,
                     extrasStarted, task, main, ready, history>>
  BY DEF WorkerHandler, Goto
<1>2. /\ t \in Tasks /\ t \in ToSet(running) /\ t \in pushed /\ ~Settling(t)
      /\ t \notin park /\ t \notin done
  BY <1>1, InWorkersHandler
<1> HIDE DEF t
<1>3. /\ \A h \in Workers \cup Others : pc'[h] = IF h = w THEN "settle" ELSE pc[h]
      /\ PlacesOK(pc')
  BY <1>0, <1>1 DEF PlacesOK, WorkerPlaces
<1>4. \/ done' = done \cup {t} /\ park' = park
      \/ t \notin ready /\ park' = park \cup {t} /\ done' = done
      \/ park' = park /\ done' = done
  BY <1>1, HandlerEffect
<1>5. Types' /\ Calls' /\ Lists'
  BY <1>1, <1>3 DEF IInv, Types, Calls, Lists, PlacesOK
<1>6. WorkersHold'
  BY <1>1, <1>3, <1>k DEF PlacesOK, IInv, WorkersHold, Holding, Has, Workers
<1>7. MainHolds'
  BY <1>1, <1>k DEF IInv, MainHolds, Has, At
<1>8. Pushers' /\ Wakes'
  <2>1. \A o \in Others : pc'[o] = pc[o]
    BY <1>0, <1>3
  <2>2. Pushers'
    BY <1>1, <2>1 DEF IInv, Pushers, At
  <2>3. Wakes'
    BY <1>1, <1>4, <2>1 DEF IInv, Wakes
  <2> QED
    BY <2>2, <2>3
<1>9. Parking'
  BY <1>1, <1>k DEF IInv, Parking
<1>10. Passes'
  <2>1. \A x : Settling(x) => Settling(x)'
    BY <1>1, <1>3 DEF Settling, At
  <2>2. \A x : x = t => Settling(x)'
    BY <1>1, <1>3 DEF Settling, t
  <2>3. /\ park' \subseteq park \cup {t} /\ done' \subseteq done \cup {t}
        /\ done \subseteq done' /\ (t \in park' => t \notin done')
    BY <1>2, <1>4
  <2>4. \A x \in park' \cup (ToSet(running) \cap done') : Settling(x)'
    <3> TAKE x \in park' \cup (ToSet(running) \cap done')
    <3>1. CASE x = t
      BY <2>2, <3>1
    <3>2. CASE x # t
      <4>1. x \in park \cup (ToSet(running) \cap done)
        BY <2>3, <3>2
      <4>2. Settling(x)
        BY <4>1 DEF IInv, Passes
      <4> QED
        BY <2>1, <4>2
    <3> QED
      BY <3>1, <3>2
  <2>5. park' \subseteq Tasks \ done' /\ done' \subseteq pushed
    BY <1>2, <2>3 DEF IInv, Passes
  <2>6. ToSet(finished) \cup ToSet(retiring) \cup called \subseteq done'
    BY <2>3 DEF IInv, Passes
  <2> QED
    BY <1>1, <2>4, <2>5, <2>6 DEF Passes
<1>11. Counts' /\ Waits'
  BY <1>1, <1>k DEF IInv, Counts, Waits, InOrder, At
<1> QED
  BY <1>5, <1>6, <1>7, <1>8, <1>9, <1>10, <1>11 DEF IInv

\* retro_task_threaded_settle after an unfinished pass, whoever ran it: the task
\* stays in the list, and is parked only if it asked for it and no wake came.
LEMMA SettleEffect ==
    ASSUME IInv, NEW t \in ToSet(running), NEW q, PlacesOK(q), SettleUnfinished(t, q)
    PROVE  /\ SameRunning /\ lock = None /\ t \in Tasks /\ t \notin done
           /\ when' \in [Tasks -> {"now", "past", "later"}]
           /\ \A x \in Tasks \ {t} : when'[x] = when[x]
           /\ \/ t \in park \ woken /\ when'[t] = "later" /\ parked' = parked \cup {t}
              \/ when'[t] = when[t] /\ parked' = parked
           /\ busy' = busy \ {t} /\ park' = park \ {t} /\ woken' = woken \ {t}
           /\ PlacesOK(pc') /\ OnlyWakes(q, pc')
           /\ \A h \in Workers \cup Others : q[h] = "off" => pc'[h] = "off"
           /\ UNCHANGED <<finished, retiring, counts, flags, lock, extrasStarted, ready,
                          history>>
<1>0. /\ running \in Seq(Tasks) /\ IsInjective(running) /\ t \in Tasks
      /\ when \in [Tasks -> {"now", "past", "later"}]
  BY DEF IInv, Types, Lists, ToSet
<1>1. /\ lock = None /\ t \notin done
      /\ busy' = busy \ {t} /\ park' = park \ {t} /\ woken' = woken \ {t}
      /\ UNCHANGED <<finished, retiring, counts, flags, lock, extrasStarted, ready, history>>
  BY DEF SettleUnfinished, Unlocked
<1>2. /\ PlacesOK(pc') /\ OnlyWakes(q, pc')
      /\ \A h \in Workers \cup Others : q[h] = "off" => pc'[h] = "off"
  <2>1. pc' = q \/ pc' = Broadcast(q)
    BY DEF SettleUnfinished
  <2> QED
    BY <2>1, BroadcastWakes DEF OnlyWakes
<1>3. CASE t \in park \ woken
  <2>1. /\ when' = [when EXCEPT ![t] = "later"] /\ parked' = parked \cup {t}
        /\ running' \in Put(RemoveFirst(running, t), t, when')
    BY <1>3 DEF SettleUnfinished, Requeue
  <2>2. SameRunning
    BY <1>0, <2>1, PutBack DEF SameRunning
  <2>3. /\ when' \in [Tasks -> {"now", "past", "later"}] /\ when'[t] = "later"
        /\ \A x \in Tasks \ {t} : when'[x] = when[x]
    BY <1>0, <2>1
  <2> QED
    BY <1>0, <1>1, <1>2, <1>3, <2>1, <2>2, <2>3
<1>4. CASE t \notin park \ woken
  <2>1. /\ UNCHANGED <<when, parked>>
        /\ running' = running \/ running' \in Put(RemoveFirst(running, t), t, when)
    BY <1>4 DEF SettleUnfinished
  <2>2. SameRunning
    BY <1>0, <2>1, PutBack, RunningStays DEF SameRunning
  <2> QED
    BY <1>0, <1>1, <1>2, <2>1, <2>2
<1> QED
  BY <1>3, <1>4

\* A worker puts a task back.
LEMMA WorkerYieldsIInv ==
    ASSUME IInv, UNCHANGED setup, NEW w \in Workers, WorkerYields(w)
    PROVE  IInv'
<1> USE DEF counts, flags, main, history
<1> DEFINE t == task[w]
           q == [pc EXCEPT ![w] = "loop"]
<1>0. /\ PlacesOK(pc) /\ task \in [Workers \cup Others -> Tasks \cup {None}]
      /\ Workers \cap Others = {}
  BY PlacesNow, TaskQueueAssumption DEF IInv, Types
<1>k. MainTasks' = MainTasks /\ ScheduledTasks' = ScheduledTasks /\ Budget' = Budget
  BY KindsStay
<1>1. /\ pc[w] = "settle" /\ SettleUnfinished(t, q)
      /\ task' = [task EXCEPT ![w] = None] /\ UNCHANGED main
  BY DEF WorkerYields
<1>2. /\ \A h \in Workers \cup Others : q[h] = IF h = w THEN "loop" ELSE pc[h]
      /\ PlacesOK(q)
      /\ \A h \in Workers \cup Others : task'[h] = IF h = w THEN None ELSE task[h]
      /\ task' \in [Workers \cup Others -> Tasks \cup {None}]
  BY <1>0, <1>1 DEF PlacesOK, WorkerPlaces
<1>n. lock = None
  BY <1>1 DEF SettleUnfinished, Unlocked
<1>l. lock \notin Workers /\ lock # Main
  BY <1>n, TaskQueueAssumption DEF Threads
<1>3. t # None /\ t \notin MainTasks /\ t \in ToSet(running)
  BY <1>1, <1>l DEF IInv, WorkersHold, Holding, Has
<1>u. \A x \in Workers \ {w} : task[x] # t
  BY <1>3 DEF IInv, WorkersHold
<1> HIDE DEF t, q
<1>4. /\ SameRunning /\ lock = None /\ t \in Tasks /\ t \notin done
      /\ when' \in [Tasks -> {"now", "past", "later"}]
      /\ \A x \in Tasks \ {t} : when'[x] = when[x]
      /\ \/ t \in park \ woken /\ when'[t] = "later" /\ parked' = parked \cup {t}
         \/ when'[t] = when[t] /\ parked' = parked
      /\ busy' = busy \ {t} /\ park' = park \ {t} /\ woken' = woken \ {t}
      /\ PlacesOK(pc') /\ OnlyWakes(q, pc')
      /\ \A h \in Workers \cup Others : q[h] = "off" => pc'[h] = "off"
      /\ UNCHANGED <<finished, retiring, counts, flags, lock, extrasStarted, ready, history>>
  BY <1>1, <1>2, <1>3, SettleEffect
<1>r. /\ running' \in Seq(Tasks) /\ IsInjective(running')
      /\ ToSet(running') = ToSet(running) /\ Len(running') = Len(running)
  BY <1>4 DEF Same, SameRunning
<1>p. \A h \in Workers \cup Others : \A x \in {"handler", "settle", "push", "wake"} :
         pc'[h] = x <=> pc[h] = x /\ h # w
  BY <1>1, <1>2, <1>4 DEF OnlyWakes
<1>o. \A o \in Others : o # w
  BY <1>0
<1>5. Types'
  BY <1>1, <1>2, <1>4, <1>r DEF IInv, Types, PlacesOK
<1>6. Calls' /\ Lists'
  BY <1>1, <1>4, <1>r DEF IInv, Calls, Lists
<1>7. WorkersHold'
  <2>1. \A x \in Workers :
          /\ pc'[x] \in WorkerPlaces
          /\ task'[x] # None <=> pc'[x] \in Holding
          /\ task'[x] # None => /\ task'[x] \notin MainTasks
                                /\ task'[x] \in ToSet(running)
                                /\ task'[x] \in busy'
          /\ lock # x
    <3> TAKE x \in Workers
    <3>1. pc'[x] \in WorkerPlaces /\ lock # x
      BY <1>4, <1>l DEF PlacesOK
    <3>2. CASE x = w
      BY <1>2, <1>p, <3>1, <3>2 DEF Holding
    <3>3. CASE x # w
      <4>1. task'[x] = task[x] /\ task[x] # t /\ (pc'[x] \in Holding <=> pc[x] \in Holding)
        BY <1>2, <1>p, <1>u, <3>3 DEF Holding
      <4> QED
        BY <1>4, <3>1, <4>1 DEF IInv, WorkersHold, Has
    <3> QED
      BY <3>2, <3>3
  <2>2. \A x, y \in Workers : x # y /\ task'[x] # None => task'[x] # task'[y]
    BY <1>2 DEF IInv, WorkersHold
  <2>3. busy' \subseteq ToSet(running')
    BY <1>4, <1>r DEF IInv, WorkersHold
  <2>4. ~extrasStarted => \A x \in Extras : pc'[x] = "off"
    <3>1. ~extrasStarted => \A x \in Extras : x # w /\ pc[x] = "off" /\ x \in Workers \cup Others
      BY <1>1 DEF IInv, WorkersHold, Workers
    <3> QED
      BY <1>2, <1>4, <3>1
  <2> QED
    BY <1>4, <1>k, <1>r, <2>1, <2>2, <2>3, <2>4 DEF WorkersHold, Has
<1>8. MainHolds'
  BY <1>1, <1>4, <1>k, <1>r DEF IInv, MainHolds, Has, At
<1>9. Pushers'
  <2>1. \A o \in Others :
           /\ pc'[o] \in OtherPlaces /\ task'[o] = task[o]
           /\ \A x \in {"push", "wake"} : pc'[o] = x <=> pc[o] = x
    BY <1>2, <1>4, <1>p, <1>o DEF PlacesOK
  <2>2. \A o \in Others : pc'[o] = "idle" \/ pc'[o] \in {"push", "wake"}
    BY <2>1 DEF OtherPlaces
  <2> QED
    BY <1>1, <1>4, <2>1, <2>2 DEF IInv, Pushers, At
<1>10. Parking'
  <2>1. parked \subseteq Tasks
    <3>1. ToSet(running) \subseteq Tasks
      BY DEF IInv, Types, ToSet
    <3> QED
      BY <3>1 DEF IInv, Parking
  <2>2. parked' \subseteq ToSet(running') /\ parked' \subseteq parked \cup {t}
    BY <1>3, <1>4, <1>r DEF IInv, Parking
  <2>3. ASSUME NEW x \in parked' PROVE when'[x] # "now"
    <3>1. CASE x = t
      BY <1>4, <2>3, <3>1 DEF IInv, Parking
    <3>2. CASE x # t
      BY <1>4, <2>1, <2>2, <3>2 DEF IInv, Parking
    <3> QED
      BY <3>1, <3>2
  <2>4. \A x \in parked' : \A y \in Workers : task'[y] # x
    <3>1. t \in Tasks /\ None \notin Tasks
      BY <1>4, TaskQueueAssumption
    <3> QED
      BY <1>2, <1>u, <2>1, <2>2, <3>1 DEF IInv, Parking
  <2>5. \A x \in parked' : \A i \in 1..Len(stack) :
           stack[i].at \in Holding => stack[i].task # x
    BY <1>3, <2>2 DEF IInv, Parking, MainHolds
  <2>6. \A x \in Tasks \ ScheduledTasks : x \in parked' \/ when'[x] = "now"
    BY <1>4 DEF IInv, Parking
  <2> QED
    BY <1>1, <1>k, <2>2, <2>3, <2>4, <2>5, <2>6 DEF Parking
<1>11. Passes'
  <2>1. \A x : x # t /\ Settling(x) => Settling(x)'
    BY <1>1, <1>2, <1>p DEF Settling, At, t
  <2> QED
    BY <1>4, <1>r, <2>1 DEF IInv, Passes
<1>12. Wakes'
  <2>1. \A o \in Others : pc[o] = "wake" => pc'[o] = "wake" /\ task'[o] = task[o]
    BY <1>2, <1>p, <1>o
  <2> QED
    BY <1>4, <2>1 DEF IInv, Wakes
<1>13. Counts'
  BY <1>1, <1>4, <1>k, <1>r DEF IInv, Counts
<1>14. Waits'
  <2>1. \A j \in 1..Len(finished) : when'[finished[j]] = when[finished[j]]
    <3> TAKE j \in 1..Len(finished)
    <3>1. finished[j] \in ToSet(finished) /\ finished[j] \in Tasks
      BY Occurs, ElementOfSeq DEF IInv, Types
    <3> QED
      BY <1>3, <1>4, <3>1 DEF IInv, Lists
  <2>2. InOrder'
    BY <1>4, <2>1 DEF IInv, Waits, InOrder
  <2> QED
    BY <1>1, <1>4, <1>k, <1>r, <2>2 DEF IInv, Waits, At
<1> QED
  BY <1>5, <1>6, <1>7, <1>8, <1>9, <1>10, <1>11, <1>12, <1>13, <1>14 DEF IInv

\* retro_task_threaded_settle after the last pass: the one thread that has the task
\* moves it, and holds the locks.
LEMMA SettleMoveIInv ==
    ASSUME IInv, UNCHANGED setup, NEW h \in Workers \cup {Main},
           NEW t \in ToSet(running), SettleMove(h, t), t \notin parked,
           h \in Workers => pc[h] = "settle" /\ task[h] = t,
           \A w \in Workers \ {h} : task[w] # t,
           h = Main => At("settle") /\ stack[1].task = t,
           \A i \in 1..Len(stack) : stack[i].at \in Holding =>
              stack[i].task = t <=> h = Main
    PROVE  IInv'
<1> USE DEF flags, main, history
<1>k. MainTasks' = MainTasks /\ ScheduledTasks' = ScheduledTasks /\ Budget' = Budget
  BY KindsStay
<1>1. /\ lock = None /\ t \in done /\ lock' = h /\ busy' = busy \ {t}
      /\ running' = RemoveFirst(running, t) /\ finished' \in Put(finished, t, when)
      /\ finishedCount' = finishedCount + 1
      /\ UNCHANGED <<retiring, runningCount, when, parked, park, woken, flags,
                     extrasStarted, pc, task, main, ready, history>>
  BY DEF SettleMove, Unlocked
<1>l. lock \notin Workers /\ lock # Main /\ h # None /\ Main \notin Workers
  BY <1>1, TaskQueueAssumption DEF Threads
<1>0. /\ running \in Seq(Tasks) /\ IsInjective(running) /\ t \in Tasks
      /\ finished \in Seq(Tasks) /\ IsInjective(finished) /\ t \notin ToSet(finished)
      /\ when \in [Tasks -> {"now", "past", "later"}]
  BY DEF IInv, Types, Lists, ToSet
<1>2. Less(running', running, t)
  BY <1>0, <1>1, RemoveLess
<1>3. More(finished', finished, t)
  BY <1>0, <1>1, PutMore
<1>r. /\ running' \in Seq(Tasks) /\ IsInjective(running')
      /\ ToSet(running') = ToSet(running) \ {t} /\ Len(running') = Len(running) - 1
      /\ finished' \in Seq(Tasks) /\ IsInjective(finished')
      /\ ToSet(finished') = ToSet(finished) \cup {t} /\ Len(finished') = Len(finished) + 1
  BY <1>2, <1>3 DEF Less, More
<1>4. Types'
  BY <1>1, <1>r DEF IInv, Types
<1>5. Calls'
  BY <1>1 DEF IInv, Calls
<1>6. Lists'
  BY <1>1, <1>r DEF IInv, Lists
<1>7. WorkersHold'
  <2>1. \A w \in Workers : task[w] # None =>
           \/ task[w] \in ToSet(running') /\ lock' # w /\ task[w] \in busy'
           \/ task[w] \in ToSet(finished') /\ lock' = w
    <3> TAKE w \in Workers
    <3>1. CASE w = h
      BY <1>1, <1>r, <3>1
    <3>2. CASE w # h
      BY <1>1, <1>l, <1>r, <3>2 DEF IInv, WorkersHold, Has
    <3> QED
      BY <3>1, <3>2
  <2>2. busy' \subseteq ToSet(running')
    BY <1>1, <1>r DEF IInv, WorkersHold
  <2>3. \A w \in Workers : lock' = w => pc[w] = "settle"
    BY <1>1
  <2> QED
    BY <1>1, <1>k, <2>1, <2>2, <2>3 DEF IInv, WorkersHold, Has
<1>8. MainHolds'
  <2>1. \A i \in 1..Len(stack) : stack[i].at \in Holding =>
           \/ stack[i].task \in ToSet(running') /\ lock' # Main
           \/ stack[i].task \in ToSet(finished') /\ lock' = Main
    BY <1>1, <1>l, <1>r DEF IInv, MainHolds, Has
  <2> QED
    BY <1>1, <1>k, <2>1 DEF IInv, MainHolds, Has, At
<1>9. Pushers' /\ Wakes'
  BY <1>1 DEF IInv, Pushers, Wakes, At
<1>10. Parking'
  BY <1>1, <1>k, <1>r DEF IInv, Parking
<1>11. Passes'
  <2>1. \A x : Settling(x)' <=> Settling(x)
    BY <1>1 DEF Settling, At
  <2> QED
    BY <1>1, <1>r, <2>1 DEF IInv, Passes
<1>12. Counts'
  <2>1. Len(running) \in Nat
    BY <1>0, LenProperties
  <2> QED
    BY <1>1, <1>k, <1>l, <1>r, <2>1 DEF IInv, Counts
<1>13. Waits'
  <2>1. InOrder'
    <3>1. \A i, j \in 1..Len(finished) :
             i < j => Rank(when[finished[i]]) <= Rank(when[finished[j]])
      BY DEF IInv, Waits, InOrder
    <3>2. \A i, j \in 1..Len(finished') :
             i < j => Rank(when[finished'[i]]) <= Rank(when[finished'[j]])
      BY <1>0, <1>1, <3>1, PutInOrder
    <3> QED
      BY <1>1, <3>2 DEF InOrder
  <2> QED
    BY <1>1, <1>k, <1>r, <2>1 DEF IInv, Waits, At
<1> QED
  BY <1>4, <1>5, <1>6, <1>7, <1>8, <1>9, <1>10, <1>11, <1>12, <1>13 DEF IInv

\* A worker moves a finished task,
LEMMA WorkerMovesIInv ==
    ASSUME IInv, UNCHANGED setup, NEW w \in Workers, WorkerMoves(w)
    PROVE  IInv'
<1>1. pc[w] = "settle" /\ SettleMove(w, task[w]) /\ lock = None
  BY DEF WorkerMoves, SettleMove, Unlocked
<1>l. lock \notin Workers /\ w # Main
  BY <1>1, TaskQueueAssumption DEF Threads
<1>2. task[w] # None /\ task[w] \notin MainTasks /\ task[w] \in ToSet(running)
  BY <1>1, <1>l DEF IInv, WorkersHold, Holding, Has
<1>3. \A x \in Workers \ {w} : task[x] # task[w]
  BY <1>2 DEF IInv, WorkersHold
<1>4. task[w] \notin parked
  BY DEF IInv, Parking
<1>5. \A i \in 1..Len(stack) : stack[i].at \in Holding => stack[i].task # task[w]
  BY <1>2 DEF IInv, MainHolds
<1> QED
  BY <1>1, <1>l, <1>2, <1>3, <1>4, <1>5, SettleMoveIInv

\* and counts it out, with which it is through with it.
LEMMA WorkerCountsIInv ==
    ASSUME IInv, UNCHANGED setup, NEW w \in Workers, WorkerCounts(w)
    PROVE  IInv'
<1> USE DEF lists, fields, flags, main, history
<1> DEFINE t == task[w]
<1>0. /\ PlacesOK(pc) /\ task \in [Workers \cup Others -> Tasks \cup {None}]
      /\ Workers \cap Others = {} /\ w # None /\ w # Main /\ None \notin Tasks
      /\ None \notin Workers
  BY PlacesNow, TaskQueueAssumption DEF IInv, Types, Threads
<1>k. MainTasks' = MainTasks /\ ScheduledTasks' = ScheduledTasks /\ Budget' = Budget
  BY KindsStay
<1>1. /\ lock = w /\ lock' = None /\ runningCount' = runningCount - 1
      /\ pc[w] = "settle" /\ pc' = [pc EXCEPT ![w] = "loop"]
      /\ task' = [task EXCEPT ![w] = None]
      /\ UNCHANGED <<lists, finishedCount, fields, flags, extrasStarted, ready, history,
                     main>>
  BY DEF WorkerCounts, SettleCount, Goto
<1>2. /\ \A h \in Workers \cup Others : pc'[h] = IF h = w THEN "loop" ELSE pc[h]
      /\ PlacesOK(pc')
      /\ \A h \in Workers \cup Others : task'[h] = IF h = w THEN None ELSE task[h]
      /\ task' \in [Workers \cup Others -> Tasks \cup {None}]
  BY <1>0, <1>1 DEF PlacesOK, WorkerPlaces
<1>3. t \in ToSet(finished) /\ t \in done /\ t \notin ToSet(running) /\ t \notin park
  BY <1>1 DEF IInv, WorkersHold, Holding, Has, Passes, Lists
<1> HIDE DEF t
<1>o. \A o \in Others : pc'[o] = pc[o] /\ task'[o] = task[o]
  BY <1>0, <1>2
<1>4. Types' /\ Calls' /\ Lists'
  BY <1>1, <1>2 DEF IInv, Types, Calls, Lists, PlacesOK
<1>5. WorkersHold'
  <2>1. \A x \in Workers :
          /\ pc'[x] \in WorkerPlaces
          /\ task'[x] # None <=> pc'[x] \in Holding
          /\ task'[x] # None => /\ task'[x] \notin MainTasks
                                /\ task'[x] \in ToSet(running)
                                /\ task'[x] \in busy
          /\ None # x
    <3> TAKE x \in Workers
    <3>1. pc'[x] \in WorkerPlaces /\ None # x
      BY <1>0, <1>2 DEF PlacesOK
    <3>2. CASE x = w
      BY <1>2, <3>1, <3>2 DEF Holding
    <3>3. CASE x # w
      BY <1>1, <1>2, <3>1, <3>3 DEF IInv, WorkersHold, Has
    <3> QED
      BY <3>2, <3>3
  <2>2. \A x, y \in Workers : x # y /\ task'[x] # None => task'[x] # task'[y]
    BY <1>2 DEF IInv, WorkersHold
  <2>3. ~extrasStarted => \A x \in Extras : pc'[x] = "off"
    BY <1>1, <1>2 DEF IInv, WorkersHold, Workers
  <2>4. busy \subseteq ToSet(running)
    BY DEF IInv, WorkersHold
  <2> QED
    BY <1>1, <1>k, <2>1, <2>2, <2>3, <2>4 DEF WorkersHold, Has
<1>6. MainHolds'
  <2>1. None # Main
    BY TaskQueueAssumption DEF Threads
  <2> QED
    BY <1>0, <1>1, <1>k, <2>1 DEF IInv, MainHolds, Has, At
<1>7. Pushers' /\ Wakes'
  BY <1>1, <1>o DEF IInv, Pushers, Wakes, At
<1>8. Parking'
  <2>1. \A x \in parked : \A y \in Workers : task'[y] # x
    <3>1. parked \subseteq Tasks
      <4>1. ToSet(running) \subseteq Tasks
        BY DEF IInv, Types, ToSet
      <4> QED
        BY <4>1 DEF IInv, Parking
    <3> QED
      BY <1>0, <1>2, <3>1 DEF IInv, Parking
  <2> QED
    BY <1>1, <1>k, <2>1 DEF IInv, Parking
<1>9. Passes'
  <2>1. \A x : x # t /\ Settling(x) => Settling(x)'
    BY <1>1, <1>2 DEF Settling, At, t
  <2> QED
    BY <1>1, <1>3, <2>1 DEF IInv, Passes
<1>10. Counts'
  <2>1. Len(running) \in Nat
    BY LenProperties DEF IInv, Types
  <2> QED
    BY <1>0, <1>1, <1>k, <2>1 DEF IInv, Counts
<1>11. Waits'
  BY <1>1, <1>k DEF IInv, Waits, InOrder, At
<1> QED
  BY <1>4, <1>5, <1>6, <1>7, <1>8, <1>9, <1>10, <1>11 DEF IInv

(***************************************************************************)
(* Main's handlers.                                                        *)
(***************************************************************************)
\* Main goes from f to g in its innermost call, in one activity.
LEMMA TopStep ==
    ASSUME IInv, NEW f \in Frames, MainGoto(f), UNCHANGED <<inGather, inRunMain>>,
           f.at \in Base <=> stack[1].at \in Base,
           f.at \in RunMain <=> stack[1].at \in RunMain,
           f.at \in Retiring <=> stack[1].at \in Retiring
    PROVE  /\ Calls' /\ stack' \in Seq(Frames) /\ Len(stack') = Len(stack)
           /\ stack'[1] = f /\ 1 \in 1..Len(stack)
           /\ \A i \in 1..Len(stack) : i # 1 => stack'[i] = stack[i]
           /\ inGather' \in BOOLEAN /\ inRunMain' \in BOOLEAN
<1>1. /\ Types /\ Calls /\ inGather' = inGather /\ inRunMain' = inRunMain
      /\ inGather' \in BOOLEAN /\ inRunMain' \in BOOLEAN
  BY DEF IInv, Types
<1>2. /\ Guarded(inRunMain, inRunMain', RunMain, stack[1].at, f.at)
      /\ Guarded(inGather, inGather', Retiring, stack[1].at, f.at)
  BY <1>1 DEF Guarded
<1>3. /\ Calls'
      /\ stack' \in Seq(Frames) /\ Len(stack') = Len(stack) /\ stack'[1] = f
      /\ \A i \in 2..Len(stack) : stack'[i] = stack[i]
      /\ Len(stack) \in Nat \ {0}
  BY <1>1, <1>2, CallsGoto
<1>4. 1 \in 1..Len(stack) /\ \A i \in 1..Len(stack) : i # 1 => i \in 2..Len(stack)
  BY <1>3
<1> QED
  BY <1>1, <1>3, <1>4

\* Main runs tasks, or retires them, in one call of its stack.
LEMMA OneActivity ==
    ASSUME IInv
    PROVE  /\ stack[1].at \in RunMain =>
                 \A i \in 1..Len(stack) : i # 1 => stack[i].at \notin Holding
           /\ stack[1].at \in Retiring =>
                 \A i \in 1..Len(stack) : i # 1 => stack[i].at # "callback"
<1>1. 1 \in 1..Len(stack)
  BY TopFrame DEF IInv
<1> QED
  BY <1>1 DEF IInv, Calls, RunMain, Retiring, Holding

\* retro_task_threaded_run_main takes a task.
LEMMA PickMainIInv ==
    ASSUME IInv, UNCHANGED setup, PickMain
    PROVE  IInv'
<1> USE DEF counts, flags, history
<1> DEFINE I == {k \in 1..Len(running) : DueMain(running[k])}
           i == IF I # {} THEN Min(I) ELSE 0
           t == running[i]
           f == Frame("handler", t, stack[1].n - 1)
<1>k. MainTasks' = MainTasks /\ ScheduledTasks' = ScheduledTasks /\ Budget' = Budget
  BY KindsStay
<1>1. /\ lock = None /\ stack[1].at = "runmain" /\ i # 0 /\ stack[1].n > 0
      /\ MainGoto(f) /\ UnparkLocked(t)
      /\ UNCHANGED <<finished, retiring, counts, park, busy, flags, lock,
                     extrasStarted, pc, task, inGather, inRunMain, ready, history>>
  BY DEF PickMain, SelectInSeq, Unlocked, At
<1>l. lock \notin Workers /\ lock # Main
  BY <1>1, TaskQueueAssumption DEF Threads
<1>2. i \in I
  <2>1. I \in SUBSET Nat
    OBVIOUS
  <2> HIDE DEF I
  <2> QED
    BY <1>1, <2>1, LeastNat
<1>3. t \in ToSet(running) /\ t \in MainTasks
  BY <1>2, Occurs DEF IInv, Types, DueMain
<1> HIDE DEF i, t
<1>4. /\ SameRunning
      /\ when' \in [Tasks -> {"now", "past", "later"}]
      /\ \A x \in Tasks \ {t} : when'[x] = when[x]
      /\ when'[t] = "now" \/ (t \notin parked /\ when'[t] = when[t])
      /\ parked' = parked \ {t} /\ woken' = woken \ {t}
      /\ t \in Tasks
  BY <1>1, <1>3, UnparkEffect
<1>r. /\ running' \in Seq(Tasks) /\ IsInjective(running')
      /\ ToSet(running') = ToSet(running) /\ Len(running') = Len(running)
  BY <1>4 DEF Same, SameRunning
<1>5. f \in Frames /\ f.at = "handler" /\ f.task = t
  <2>1. stack[1].n - 1 \in Nat
    BY <1>1, TopFrame DEF IInv
  <2> QED
    BY <1>4, <2>1, FrameType DEF Places
<1> HIDE DEF f
<1>6. /\ Calls' /\ stack' \in Seq(Frames) /\ Len(stack') = Len(stack)
      /\ stack'[1] = f /\ 1 \in 1..Len(stack)
      /\ \A j \in 1..Len(stack) : j # 1 => stack'[j] = stack[j]
      /\ inGather' \in BOOLEAN /\ inRunMain' \in BOOLEAN
  <2>1. /\ f.at \in Base <=> stack[1].at \in Base
        /\ f.at \in RunMain <=> stack[1].at \in RunMain
        /\ f.at \in Retiring <=> stack[1].at \in Retiring
    BY <1>1, <1>5 DEF Base, RunMain, Retiring
  <2> QED
    BY <1>1, <1>5, <2>1, TopStep
<1>7. \A j \in 1..Len(stack) : j # 1 => stack[j].at \notin Holding
  BY <1>1, OneActivity DEF RunMain
<1>a. stack'[1].at = "handler" /\ stack'[1].task = t
  BY <1>5, <1>6
<1>8. Types' /\ Lists'
  BY <1>1, <1>4, <1>6, <1>r DEF IInv, Types, Lists, Frames
<1>9. WorkersHold'
  BY <1>1, <1>k, <1>r DEF IInv, WorkersHold, Has
<1>10. MainHolds'
  <2>1. \A j \in 1..Len(stack') :
          /\ stack'[j].at \in Holding =>
                stack'[j].task \in MainTasks /\ stack'[j].task \in ToSet(running)
          /\ stack'[j].at = "callback" => stack'[j].task \in ToSet(retiring)
    <3> TAKE j \in 1..Len(stack')
    <3>1. CASE j = 1
      BY <1>3, <1>a, <3>1
    <3>2. CASE j # 1
      BY <1>6, <1>7, <3>2 DEF IInv, MainHolds
    <3> QED
      BY <3>1, <3>2
  <2>2. called \ freed \subseteq {}
    BY <1>1 DEF IInv, MainHolds, At
  <2> QED
    BY <1>1, <1>a, <1>k, <1>l, <1>r, <2>1, <2>2 DEF IInv, MainHolds, Has, At
<1>11. Pushers'
  BY <1>1, <1>a DEF IInv, Pushers, At
<1>12. Parking'
  <2>1. \A j \in 1..Len(stack') : stack'[j].at \in Holding => stack'[j].task = t
    BY <1>6, <1>7, <1>a
  <2> QED
    BY <1>1, <1>3, <2>1, UnparkParking
<1>13. ~Settling(t)
  BY <1>1, <1>3, <1>4, TaskQueueAssumption DEF Settling, At, IInv, WorkersHold
<1>14. Passes'
  <2>1. \A x : Settling(x) => Settling(x)'
    BY <1>1 DEF Settling, At
  <2> QED
    BY <1>1, <1>r, <2>1 DEF IInv, Passes
<1>15. Wakes'
  <2>1. t \notin park
    BY <1>13 DEF IInv, Passes
  <2> QED
    BY <1>1, <1>4, <2>1 DEF IInv, Wakes
<1>16. Counts'
  BY <1>1, <1>k, <1>r DEF IInv, Counts
<1>17. Waits'
  <2>1. \A j \in 1..Len(finished) : when'[finished[j]] = when[finished[j]]
    <3> TAKE j \in 1..Len(finished)
    <3>1. finished[j] \in ToSet(finished) /\ finished[j] \in Tasks
      BY Occurs, ElementOfSeq DEF IInv, Types
    <3> QED
      BY <1>3, <1>4, <3>1 DEF IInv, Lists
  <2>2. InOrder'
    BY <1>1, <2>1 DEF IInv, Waits, InOrder
  <2> QED
    BY <1>1, <1>a, <1>k, <1>r, <2>2 DEF IInv, Waits, At
<1> QED
  BY <1>6, <1>8, <1>9, <1>10, <1>11, <1>12, <1>14, <1>15, <1>16, <1>17 DEF IInv

\* A pass on Main.
LEMMA MainHandlerIInv ==
    ASSUME IInv, UNCHANGED setup, MainHandler
    PROVE  IInv'
<1> USE DEF lists, counts, history
<1> DEFINE t == stack[1].task
           f == [stack[1] EXCEPT !.at = "settle"]
<1>k. MainTasks' = MainTasks /\ ScheduledTasks' = ScheduledTasks /\ Budget' = Budget
  BY KindsStay
<1>0. stack[1] \in Frames /\ 1 \in 1..Len(stack)
  BY TopFrame DEF IInv
<1>1. /\ stack[1].at = "handler" /\ Handler(t) /\ MainGoto(f)
      /\ UNCHANGED <<lists, counts, when, parked, woken, busy, cancelled, lock,
                     extrasStarted, pc, task, inGather, inRunMain, ready, history>>
  BY DEF MainHandler, At
<1>2. t \in MainTasks /\ t \in ToSet(running) /\ lock # Main
  BY <1>0, <1>1 DEF IInv, MainHolds, Has, At, Holding
<1>3. t \in Tasks /\ t # None /\ t \in pushed
  BY <1>2, TaskQueueAssumption, KindsAreTasks DEF IInv, Lists
<1>4. ~Settling(t)
  BY <1>1, <1>2, <1>3 DEF Settling, At, IInv, WorkersHold
<1>5. t \notin park /\ t \notin done
  BY <1>2, <1>4 DEF IInv, Passes
<1>6. f \in Frames /\ f.at = "settle" /\ f.task = t
  BY <1>0 DEF Frames, Places
<1> HIDE DEF t, f
<1>7. /\ Calls' /\ stack' \in Seq(Frames) /\ Len(stack') = Len(stack)
      /\ stack'[1] = f /\ 1 \in 1..Len(stack)
      /\ \A j \in 1..Len(stack) : j # 1 => stack'[j] = stack[j]
      /\ inGather' \in BOOLEAN /\ inRunMain' \in BOOLEAN
  <2>1. /\ f.at \in Base <=> stack[1].at \in Base
        /\ f.at \in RunMain <=> stack[1].at \in RunMain
        /\ f.at \in Retiring <=> stack[1].at \in Retiring
    BY <1>1, <1>6 DEF Base, RunMain, Retiring
  <2> QED
    BY <1>1, <1>6, <2>1, TopStep
<1>a. stack'[1].at = "settle" /\ stack'[1].task = t
  BY <1>6, <1>7
<1>8. \/ done' = done \cup {t} /\ park' = park
      \/ t \notin ready /\ park' = park \cup {t} /\ done' = done
      \/ park' = park /\ done' = done
  BY <1>1, HandlerEffect
<1>9. Types' /\ Lists'
  BY <1>1, <1>7 DEF IInv, Types, Lists, Frames
<1>10. WorkersHold'
  BY <1>1, <1>k DEF IInv, WorkersHold, Has
<1>f. \A j \in 1..Len(stack') : \E i \in 1..Len(stack) :
         /\ stack'[j].task = stack[i].task
         /\ stack'[j].at \in Holding => stack[i].at \in Holding
         /\ stack'[j].at = "callback" => stack[i].at = "callback"
  <2> TAKE j \in 1..Len(stack')
  <2>1. CASE j = 1
    BY <1>0, <1>1, <1>a, <2>1 DEF Holding, t
  <2>2. CASE j # 1
    BY <1>7, <2>2
  <2> QED
    BY <2>1, <2>2
<1>11. MainHolds'
  <2>1. \A j \in 1..Len(stack') :
          /\ stack'[j].at \in Holding =>
                stack'[j].task \in MainTasks /\ Has(Main, stack'[j].task)
          /\ stack'[j].at = "callback" => stack'[j].task \in ToSet(retiring)
    BY <1>f DEF IInv, MainHolds
  <2>2. called \ freed \subseteq {}
    BY <1>1 DEF IInv, MainHolds, At
  <2> QED
    BY <1>1, <1>2, <1>a, <1>k, <2>1, <2>2 DEF IInv, MainHolds, Has, At
<1>12. Pushers'
  BY <1>1, <1>a DEF IInv, Pushers, At
<1>13. Parking'
  <2>1. \A x \in parked : \A j \in 1..Len(stack') :
           stack'[j].at \in Holding => stack'[j].task # x
    BY <1>f DEF IInv, Parking
  <2> QED
    BY <1>1, <1>k, <2>1 DEF IInv, Parking
<1>14. Passes'
  <2>1. \A x : Settling(x) => Settling(x)'
    BY <1>1 DEF Settling, At
  <2>2. \A x : x = t => Settling(x)'
    BY <1>a DEF Settling, At
  <2>3. /\ park' \subseteq park \cup {t} /\ done' \subseteq done \cup {t}
        /\ done \subseteq done' /\ (t \in park' => t \notin done')
    BY <1>5, <1>8
  <2>4. \A x \in park' \cup (ToSet(running) \cap done') : Settling(x)'
    <3> TAKE x \in park' \cup (ToSet(running) \cap done')
    <3>1. CASE x = t
      BY <2>2, <3>1
    <3>2. CASE x # t
      <4>1. x \in park \cup (ToSet(running) \cap done)
        BY <2>3, <3>2
      <4>2. Settling(x)
        BY <4>1 DEF IInv, Passes
      <4> QED
        BY <2>1, <4>2
    <3> QED
      BY <3>1, <3>2
  <2>5. park' \subseteq Tasks \ done' /\ done' \subseteq pushed
    BY <1>3, <1>5, <2>3 DEF IInv, Passes
  <2>6. ToSet(finished) \cup ToSet(retiring) \cup called \subseteq done'
    BY <2>3 DEF IInv, Passes
  <2> QED
    BY <1>1, <2>4, <2>5, <2>6 DEF Passes
<1>15. Wakes'
  BY <1>1, <1>8 DEF IInv, Wakes
<1>16. Counts' /\ Waits'
  BY <1>1, <1>a, <1>k DEF IInv, Counts, Waits, InOrder, At
<1> QED
  BY <1>7, <1>9, <1>10, <1>11, <1>12, <1>13, <1>14, <1>15, <1>16 DEF IInv

\* Main puts a task back.
LEMMA MainYieldsIInv ==
    ASSUME IInv, UNCHANGED setup, MainYields
    PROVE  IInv'
<1> USE DEF counts, flags, history
<1> DEFINE t == stack[1].task
           f == [stack[1] EXCEPT !.at = "runmain"]
<1>0. PlacesOK(pc) /\ stack[1] \in Frames /\ 1 \in 1..Len(stack)
  BY PlacesNow, TopFrame DEF IInv
<1>k. MainTasks' = MainTasks /\ ScheduledTasks' = ScheduledTasks /\ Budget' = Budget
  BY KindsStay
<1>1. /\ stack[1].at = "settle" /\ SettleUnfinished(t, pc) /\ MainGoto(f)
      /\ UNCHANGED <<task, inGather, inRunMain>>
  BY DEF MainYields, MainSettled, At
<1>n. lock = None
  BY <1>1 DEF SettleUnfinished, Unlocked
<1>l. lock \notin Workers /\ lock # Main
  BY <1>n, TaskQueueAssumption DEF Threads
<1>3. t \in MainTasks /\ t \in ToSet(running)
  BY <1>0, <1>1, <1>l DEF IInv, MainHolds, Has, Holding
<1>u. \A x \in Workers : task[x] # t
  <2>1. t # None
    BY <1>3, KindsAreTasks, TaskQueueAssumption
  <2> QED
    BY <1>3, <2>1 DEF IInv, WorkersHold
<1>6. f \in Frames /\ f.at = "runmain" /\ f.task = t
  BY <1>0 DEF Frames, Places
<1> HIDE DEF t, f
<1>4. /\ SameRunning /\ lock = None /\ t \in Tasks /\ t \notin done
      /\ when' \in [Tasks -> {"now", "past", "later"}]
      /\ \A x \in Tasks \ {t} : when'[x] = when[x]
      /\ \/ t \in park \ woken /\ when'[t] = "later" /\ parked' = parked \cup {t}
         \/ when'[t] = when[t] /\ parked' = parked
      /\ busy' = busy \ {t} /\ park' = park \ {t} /\ woken' = woken \ {t}
      /\ PlacesOK(pc') /\ OnlyWakes(pc, pc')
      /\ \A h \in Workers \cup Others : pc[h] = "off" => pc'[h] = "off"
      /\ UNCHANGED <<finished, retiring, counts, flags, lock, extrasStarted, ready, history>>
  BY <1>0, <1>1, <1>3, SettleEffect
<1>r. /\ running' \in Seq(Tasks) /\ IsInjective(running')
      /\ ToSet(running') = ToSet(running) /\ Len(running') = Len(running)
  BY <1>4 DEF Same, SameRunning
<1>p. \A h \in Workers \cup Others : \A x \in {"handler", "settle", "push", "wake"} :
         pc'[h] = x <=> pc[h] = x
  BY <1>4 DEF OnlyWakes
<1>7. /\ Calls' /\ stack' \in Seq(Frames) /\ Len(stack') = Len(stack)
      /\ stack'[1] = f /\ 1 \in 1..Len(stack)
      /\ \A j \in 1..Len(stack) : j # 1 => stack'[j] = stack[j]
      /\ inGather' \in BOOLEAN /\ inRunMain' \in BOOLEAN
  <2>1. /\ f.at \in Base <=> stack[1].at \in Base
        /\ f.at \in RunMain <=> stack[1].at \in RunMain
        /\ f.at \in Retiring <=> stack[1].at \in Retiring
    BY <1>1, <1>6 DEF Base, RunMain, Retiring
  <2> QED
    BY <1>1, <1>6, <2>1, TopStep
<1>a. stack'[1].at = "runmain"
  BY <1>6, <1>7
<1>8. \A j \in 1..Len(stack') : stack'[j].at \notin Holding
  <2>1. \A j \in 1..Len(stack) : j # 1 => stack[j].at \notin Holding
    BY <1>1, OneActivity DEF RunMain
  <2> QED
    BY <1>7, <1>a, <2>1 DEF Holding
<1>9. Types' /\ Lists'
  BY <1>1, <1>4, <1>7, <1>r DEF IInv, Types, Lists, Frames, PlacesOK
<1>10. WorkersHold'
  <2>1. \A x \in Workers :
          /\ pc'[x] \in WorkerPlaces
          /\ task[x] # None <=> pc'[x] \in Holding
          /\ task[x] # None => /\ task[x] \notin MainTasks
                               /\ task[x] \in ToSet(running)
                               /\ task[x] \in busy'
          /\ lock # x
    <3> TAKE x \in Workers
    <3>1. pc'[x] \in WorkerPlaces /\ lock # x /\ task[x] # t
      BY <1>4, <1>l, <1>u DEF PlacesOK
    <3>2. pc'[x] \in Holding <=> pc[x] \in Holding
      BY <1>p DEF Holding
    <3> QED
      BY <1>4, <3>1, <3>2 DEF IInv, WorkersHold, Has
  <2>2. \A x, y \in Workers : x # y /\ task[x] # None => task[x] # task[y]
    BY DEF IInv, WorkersHold
  <2>3. busy' \subseteq ToSet(running')
    BY <1>4, <1>r DEF IInv, WorkersHold
  <2>4. ~extrasStarted => \A x \in Extras : pc'[x] = "off"
    <3>1. ~extrasStarted => \A x \in Extras : pc[x] = "off" /\ x \in Workers \cup Others
      BY DEF IInv, WorkersHold, Workers
    <3> QED
      BY <1>4, <3>1
  <2> QED
    BY <1>1, <1>4, <1>k, <1>r, <2>1, <2>2, <2>3, <2>4 DEF WorkersHold, Has
<1>11. MainHolds'
  <2>1. \A j \in 1..Len(stack') :
           stack'[j].at = "callback" => stack'[j].task \in ToSet(retiring)
    BY <1>7, <1>a DEF IInv, MainHolds
  <2>2. called \ freed \subseteq {}
    BY <1>1 DEF IInv, MainHolds, At
  <2> QED
    BY <1>4, <1>a, <1>l, <1>8, <2>1, <2>2 DEF IInv, MainHolds, At
<1>12. Pushers'
  <2>1. \A o \in Others :
           /\ pc'[o] \in OtherPlaces
           /\ \A x \in {"push", "wake"} : pc'[o] = x <=> pc[o] = x
    BY <1>4, <1>p DEF PlacesOK
  <2>2. \A o \in Others : pc'[o] = "idle" \/ pc'[o] \in {"push", "wake"}
    BY <2>1 DEF OtherPlaces
  <2> QED
    BY <1>1, <1>4, <1>a, <2>1, <2>2 DEF IInv, Pushers, At
<1>13. Parking'
  <2>1. parked \subseteq Tasks
    <3>1. ToSet(running) \subseteq Tasks
      BY DEF IInv, Types, ToSet
    <3> QED
      BY <3>1 DEF IInv, Parking
  <2>2. parked' \subseteq ToSet(running') /\ parked' \subseteq parked \cup {t}
    BY <1>3, <1>4, <1>r DEF IInv, Parking
  <2>3. ASSUME NEW x \in parked' PROVE when'[x] # "now"
    <3>1. CASE x = t
      BY <1>4, <2>3, <3>1 DEF IInv, Parking
    <3>2. CASE x # t
      BY <1>4, <2>1, <2>2, <3>2 DEF IInv, Parking
    <3> QED
      BY <3>1, <3>2
  <2>4. \A x \in parked' : \A y \in Workers : task[y] # x
    BY <1>u, <2>2 DEF IInv, Parking
  <2>5. \A x \in Tasks \ ScheduledTasks : x \in parked' \/ when'[x] = "now"
    BY <1>4 DEF IInv, Parking
  <2> QED
    BY <1>1, <1>8, <1>k, <2>2, <2>3, <2>4, <2>5 DEF Parking
<1>14. Passes'
  <2>1. \A x : x # t /\ Settling(x) => Settling(x)'
    BY <1>1, <1>p DEF Settling, At, t
  <2> QED
    BY <1>4, <1>r, <2>1 DEF IInv, Passes
<1>15. Wakes'
  <2>1. \A o \in Others : pc[o] = "wake" => pc'[o] = "wake" /\ task'[o] = task[o]
    BY <1>1, <1>p
  <2> QED
    BY <1>4, <2>1 DEF IInv, Wakes
<1>16. Counts'
  BY <1>1, <1>4, <1>k, <1>r DEF IInv, Counts
<1>17. Waits'
  <2>1. \A j \in 1..Len(finished) : when'[finished[j]] = when[finished[j]]
    <3> TAKE j \in 1..Len(finished)
    <3>1. finished[j] \in ToSet(finished) /\ finished[j] \in Tasks
      BY Occurs, ElementOfSeq DEF IInv, Types
    <3> QED
      BY <1>3, <1>4, <3>1 DEF IInv, Lists
  <2>2. InOrder'
    BY <1>4, <2>1 DEF IInv, Waits, InOrder
  <2> QED
    BY <1>4, <1>a, <2>2 DEF IInv, Waits, At
<1> QED
  BY <1>7, <1>9, <1>10, <1>11, <1>12, <1>13, <1>14, <1>15, <1>16, <1>17 DEF IInv

\* Main moves a finished task,
LEMMA MainMovesIInv ==
    ASSUME IInv, UNCHANGED setup, MainMoves
    PROVE  IInv'
<1> DEFINE t == stack[1].task
<1>0. 1 \in 1..Len(stack)
  BY TopFrame DEF IInv
<1>1. At("settle") /\ stack[1].at = "settle" /\ SettleMove(Main, t) /\ lock = None
  BY DEF MainMoves, SettleMove, Unlocked, At
<1>l. lock # Main /\ Main \notin Workers
  BY <1>1, TaskQueueAssumption DEF Threads
<1>2. t \in MainTasks /\ t \in ToSet(running)
  BY <1>0, <1>1, <1>l DEF IInv, MainHolds, Has, Holding
<1>3. \A w \in Workers : task[w] # t
  <2>1. t # None
    BY <1>2, KindsAreTasks, TaskQueueAssumption
  <2> QED
    BY <1>2, <2>1 DEF IInv, WorkersHold
<1>4. t \notin parked
  BY <1>0, <1>1 DEF IInv, Parking, Holding
<1>5. \A i \in 1..Len(stack) : stack[i].at \in Holding => stack[i].task = t
  <2>1. \A j \in 1..Len(stack) : j # 1 => stack[j].at \notin Holding
    BY <1>1, OneActivity DEF RunMain
  <2> QED
    BY <2>1
<1> HIDE DEF t
<1> QED
  BY <1>1, <1>l, <1>2, <1>3, <1>4, <1>5, SettleMoveIInv DEF t

\* and counts it out.
LEMMA MainCountsIInv ==
    ASSUME IInv, UNCHANGED setup, MainCounts
    PROVE  IInv'
<1> USE DEF lists, fields, flags, history
<1> DEFINE t == stack[1].task
           f == [stack[1] EXCEPT !.at = "runmain"]
<1>0. stack[1] \in Frames /\ 1 \in 1..Len(stack)
  BY TopFrame DEF IInv
<1>k. MainTasks' = MainTasks /\ ScheduledTasks' = ScheduledTasks /\ Budget' = Budget
  BY KindsStay
<1>1. /\ stack[1].at = "settle" /\ MainGoto(f)
      /\ lock = Main /\ lock' = None /\ runningCount' = runningCount - 1
      /\ UNCHANGED <<lists, finishedCount, fields, flags, extrasStarted, ready, history>>
      /\ UNCHANGED <<pc, task, inGather, inRunMain>>
  BY DEF MainCounts, MainSettled, SettleCount, At
<1>l. Main # None /\ Main \notin Workers /\ None \notin Workers
  BY TaskQueueAssumption DEF Threads
<1>3. t \in ToSet(finished) /\ t \in done /\ t \notin ToSet(running) /\ t \notin park
  BY <1>0, <1>1 DEF IInv, MainHolds, Holding, Has, Passes, Lists
<1>6. f \in Frames /\ f.at = "runmain" /\ f.task = t
  BY <1>0 DEF Frames, Places
<1> HIDE DEF t, f
<1>7. /\ Calls' /\ stack' \in Seq(Frames) /\ Len(stack') = Len(stack)
      /\ stack'[1] = f /\ 1 \in 1..Len(stack)
      /\ \A j \in 1..Len(stack) : j # 1 => stack'[j] = stack[j]
      /\ inGather' \in BOOLEAN /\ inRunMain' \in BOOLEAN
  <2>1. /\ f.at \in Base <=> stack[1].at \in Base
        /\ f.at \in RunMain <=> stack[1].at \in RunMain
        /\ f.at \in Retiring <=> stack[1].at \in Retiring
    BY <1>1, <1>6 DEF Base, RunMain, Retiring
  <2> QED
    BY <1>1, <1>6, <2>1, TopStep
<1>a. stack'[1].at = "runmain"
  BY <1>6, <1>7
<1>8. \A j \in 1..Len(stack') : stack'[j].at \notin Holding
  <2>1. \A j \in 1..Len(stack) : j # 1 => stack[j].at \notin Holding
    BY <1>1, OneActivity DEF RunMain
  <2> QED
    BY <1>7, <1>a, <2>1 DEF Holding
<1>9. Types' /\ Lists'
  BY <1>1, <1>7 DEF IInv, Types, Lists, Frames
<1>10. WorkersHold'
  <2>1. \A w \in Workers : lock # w /\ lock' # w
    BY <1>1, <1>l
  <2> QED
    BY <1>1, <1>k, <2>1 DEF IInv, WorkersHold, Has
<1>11. MainHolds'
  <2>1. \A j \in 1..Len(stack') :
           stack'[j].at = "callback" => stack'[j].task \in ToSet(retiring)
    BY <1>7, <1>a DEF IInv, MainHolds
  <2>2. called \ freed \subseteq {}
    BY <1>1 DEF IInv, MainHolds, At
  <2> QED
    BY <1>1, <1>a, <1>l, <1>8, <2>1, <2>2 DEF IInv, MainHolds, At
<1>12. Pushers' /\ Wakes'
  BY <1>1, <1>a DEF IInv, Pushers, Wakes, At
<1>13. Parking'
  BY <1>1, <1>8, <1>k DEF IInv, Parking
<1>14. Passes'
  <2>1. \A x : x # t /\ Settling(x) => Settling(x)'
    BY <1>1 DEF Settling, At, t
  <2> QED
    BY <1>1, <1>3, <2>1 DEF IInv, Passes
<1>15. Counts'
  <2>1. Len(running) \in Nat
    BY LenProperties DEF IInv, Types
  <2> QED
    BY <1>1, <1>k, <1>l, <2>1 DEF IInv, Counts
<1>16. Waits'
  BY <1>1, <1>a, <1>k DEF IInv, Waits, InOrder, At
<1> QED
  BY <1>7, <1>9, <1>10, <1>11, <1>12, <1>13, <1>14, <1>15, <1>16 DEF IInv

(***************************************************************************)
(* Retiring.                                                               *)
(***************************************************************************)
\* A nested gather leaves the retiring to the one it is nested in.
LEMMA DetachNestedIInv ==
    ASSUME IInv, UNCHANGED setup, Detach, inGather
    PROVE  IInv'
<1>0. Types /\ Calls /\ Counts /\ Waits
  BY DEF IInv
<1>c. Unmoved /\ UNCHANGED <<counts, inGather, inRunMain, pushed, called, freed, asked>>
      /\ MainReturn /\ stack[1].at = "detach"
  BY DEF Detach, Unmoved, lists, counts, fields, flags, history, At
<1>d. /\ inGather' = inGather /\ inGather' \in BOOLEAN /\ inRunMain' \in BOOLEAN
  BY <1>c, <1>0 DEF Types
<1>e. Counts'
  BY <1>0, <1>c, KindsStay DEF Counts, Unmoved, lists, counts
<1>1. stack[1].at \notin Base \cup RunMain /\ stack[1].at \notin Retiring
  BY <1>c DEF Base, RunMain, Retiring
<1>2. /\ Calls'
      /\ stack' \in Seq(Frames) /\ Len(stack') = Len(stack) - 1
      /\ \A i \in 1..(Len(stack) - 1) : stack'[i] = stack[i + 1]
      /\ Len(stack) \in Nat /\ Len(stack) > 1
  BY <1>0, <1>c, <1>d, <1>1, CallsReturn
<1>3. \A i \in 1..Len(stack') :
         /\ i + 1 \in 1..Len(stack) /\ stack'[i] = stack[i + 1]
         /\ stack[i + 1].at \in {"idle", "wait", "handler", "callback"}
  BY <1>2, <1>0 DEF Calls
<1>4. stack'[1].at \in {"idle", "wait", "handler", "callback"}
  BY <1>2, <1>3
<1>5. Waits'
  BY <1>4, <1>0, <1>c, KindsStay DEF Unmoved, lists, fields, Waits, InOrder, At
<1>6. \A i \in 1..Len(stack') :
         /\ stack'[i].at \in Holding =>
               \E j \in 1..Len(stack) :
                  stack[j].at \in Holding /\ stack[j].task = stack'[i].task
         /\ stack'[i].at = "callback" => stack'[i].task \in ToSet(retiring)
  BY <1>3 DEF IInv, MainHolds
<1>7. /\ stack[1].at \notin {"settle", "free", "push"}
      /\ stack'[1].at \notin {"settle", "free", "push"}
  BY <1>4, <1>c
<1> QED
  BY <1>c, <1>d, <1>e, <1>2, <1>5, <1>6, <1>7, UnmovedIInv

\* Any other takes all the finished tasks over.
LEMMA DetachIInv ==
    ASSUME IInv, UNCHANGED setup, Detach, ~inGather
    PROVE  IInv'
<1> USE DEF fields, flags, history
<1> DEFINE f == Frame("retire", None, 0)
<1>0. Types /\ Calls
  BY DEF IInv
<1>k. MainTasks' = MainTasks /\ ScheduledTasks' = ScheduledTasks /\ Budget' = Budget
  BY KindsStay
<1>1. /\ lock = None /\ stack[1].at = "detach" /\ MainGoto(f) /\ inGather' = TRUE
      /\ retiring' \in PutAll(finished, retiring) /\ finished' = <<>> /\ finishedCount' = 0
      /\ UNCHANGED <<running, runningCount, fields, flags, lock, extrasStarted, pc,
                     task, inRunMain, ready, history>>
  BY DEF Detach, Unlocked, At
<1>l. lock \notin Workers /\ lock # Main
  BY <1>1, TaskQueueAssumption DEF Threads
<1>2. f \in Frames /\ f.at = "retire"
  BY FrameType DEF Places
<1>3. /\ retiring' \in Seq(Tasks) /\ IsInjective(retiring')
      /\ ToSet(retiring') = ToSet(finished) \cup ToSet(retiring)
  BY <1>1, PutAllMoves DEF IInv, Types, Lists
<1>4. /\ finished' \in Seq(Tasks) /\ IsInjective(finished') /\ ToSet(finished') = {}
      /\ Len(finished') = 0
  BY <1>1 DEF ToSet, IsInjective
<1> HIDE DEF f
<1>5. inGather' \in BOOLEAN /\ inRunMain' \in BOOLEAN
  BY <1>0, <1>1 DEF Types
<1>6. /\ Calls' /\ stack' \in Seq(Frames) /\ Len(stack') = Len(stack)
      /\ stack'[1] = f /\ \A j \in 2..Len(stack) : stack'[j] = stack[j]
      /\ Len(stack) \in Nat \ {0}
  <2>1. /\ f.at \in Base <=> stack[1].at \in Base
        /\ Guarded(inRunMain, inRunMain', RunMain, stack[1].at, f.at)
        /\ Guarded(inGather, inGather', Retiring, stack[1].at, f.at)
    BY <1>1, <1>2 DEF Guarded, Base, RunMain, Retiring
  <2> QED
    BY <1>0, <1>1, <1>2, <1>5, <2>1, CallsGoto
<1>a. stack'[1].at = "retire"
  BY <1>2, <1>6
<1>f. \A j \in 1..Len(stack') : j # 1 => j \in 1..Len(stack) /\ stack'[j] = stack[j]
  BY <1>6
<1>7. Types'
  BY <1>0, <1>1, <1>3, <1>4, <1>5, <1>6 DEF Types, Frames
<1>8. Lists'
  BY <1>1, <1>3, <1>4 DEF IInv, Lists
<1>9. WorkersHold'
  <2>1. \A w \in Workers : task[w] # None => task[w] \in ToSet(running)
    BY <1>l DEF IInv, WorkersHold, Has
  <2> QED
    BY <1>1, <1>k, <1>l, <2>1 DEF IInv, WorkersHold, Has
<1>10. MainHolds'
  <2>1. \A j \in 1..Len(stack') :
          /\ stack'[j].at \in Holding =>
                stack'[j].task \in MainTasks /\ stack'[j].task \in ToSet(running)
          /\ stack'[j].at = "callback" => stack'[j].task \in ToSet(retiring')
    <3> TAKE j \in 1..Len(stack')
    <3>1. CASE j = 1
      BY <1>a, <3>1 DEF Holding
    <3>2. CASE j # 1
      BY <1>3, <1>f, <1>l, <3>2 DEF IInv, MainHolds, Has
    <3> QED
      BY <3>1, <3>2
  <2>2. called \ freed \subseteq {}
    BY <1>1 DEF IInv, MainHolds, At
  <2> QED
    BY <1>1, <1>a, <1>k, <1>l, <2>1, <2>2 DEF IInv, MainHolds, Has, At
<1>11. Pushers' /\ Wakes'
  BY <1>1, <1>a DEF IInv, Pushers, Wakes, At
<1>12. Parking'
  <2>1. \A x \in parked : \A j \in 1..Len(stack') :
           stack'[j].at \in Holding => stack'[j].task # x
    <3>1. stack'[1].at \notin Holding
      BY <1>a DEF Holding
    <3> QED
      BY <1>f, <3>1 DEF IInv, Parking
  <2> QED
    BY <1>1, <1>k, <2>1 DEF IInv, Parking
<1>13. Passes'
  <2>1. \A x : Settling(x) => Settling(x)'
    BY <1>1 DEF Settling, At
  <2> QED
    BY <1>1, <1>3, <1>4, <2>1 DEF IInv, Passes
<1>14. Counts'
  BY <1>1, <1>k DEF IInv, Counts
<1>15. Waits'
  BY <1>1, <1>4, <1>a, <1>k DEF IInv, Waits, InOrder, At
<1> QED
  BY <1>6, <1>7, <1>8, <1>9, <1>10, <1>11, <1>12, <1>13, <1>14, <1>15 DEF IInv

\* A task leaves the retiring list when its callback is over,
LEMMA PruneIInv ==
    ASSUME IInv, UNCHANGED setup, Prune
    PROVE  IInv'
<1> USE DEF counts, fields, flags
<1> DEFINE t == stack[1].task
           f == [stack[1] EXCEPT !.at = "free"]
<1>0. stack[1] \in Frames /\ 1 \in 1..Len(stack)
  BY TopFrame DEF IInv
<1>k. MainTasks' = MainTasks /\ ScheduledTasks' = ScheduledTasks /\ Budget' = Budget
  BY KindsStay
<1>1. /\ stack[1].at = "callback" /\ MainGoto(f) /\ called' = called \cup {t}
      /\ retiring' = RemoveFirst(retiring, t)
      /\ UNCHANGED <<running, finished, counts, fields, flags, lock, extrasStarted, pc,
                     task, inGather, inRunMain, ready, pushed, freed, asked>>
  BY DEF Prune, At
<1>2. t \in ToSet(retiring) /\ t \in done /\ t \in pushed
  BY <1>0, <1>1 DEF IInv, MainHolds, Passes, Lists
<1>3. f \in Frames /\ f.at = "free" /\ f.task = t
  BY <1>0 DEF Frames, Places
<1> HIDE DEF t, f
<1>4. /\ retiring' \in Seq(Tasks) /\ IsInjective(retiring')
      /\ ToSet(retiring') = ToSet(retiring) \ {t}
  BY <1>1, <1>2, RemoveLess DEF IInv, Types, Lists, Less
<1>7. /\ Calls' /\ stack' \in Seq(Frames) /\ Len(stack') = Len(stack)
      /\ stack'[1] = f /\ 1 \in 1..Len(stack)
      /\ \A j \in 1..Len(stack) : j # 1 => stack'[j] = stack[j]
      /\ inGather' \in BOOLEAN /\ inRunMain' \in BOOLEAN
  <2>1. /\ f.at \in Base <=> stack[1].at \in Base
        /\ f.at \in RunMain <=> stack[1].at \in RunMain
        /\ f.at \in Retiring <=> stack[1].at \in Retiring
    BY <1>1, <1>3 DEF Base, RunMain, Retiring
  <2> QED
    BY <1>1, <1>3, <2>1, TopStep
<1>a. stack'[1].at = "free" /\ stack'[1].task = t
  BY <1>3, <1>7
<1>8. \A j \in 1..Len(stack') : stack'[j].at # "callback"
  <2>1. \A j \in 1..Len(stack) : j # 1 => stack[j].at # "callback"
    BY <1>1, OneActivity DEF Retiring
  <2> QED
    BY <1>7, <1>a, <2>1
<1>9. Types'
  BY <1>1, <1>4, <1>7 DEF IInv, Types, Frames
<1>10. Lists'
  BY <1>1, <1>2, <1>4 DEF IInv, Lists
<1>11. WorkersHold'
  BY <1>1, <1>k DEF IInv, WorkersHold, Has
<1>h. \A j \in 1..Len(stack') : stack'[j].at \in Holding =>
         j \in 1..Len(stack) /\ stack'[j] = stack[j]
  BY <1>7, <1>a DEF Holding
<1>12. MainHolds'
  <2>1. \A j \in 1..Len(stack') : stack'[j].at \in Holding =>
           stack'[j].task \in MainTasks /\ Has(Main, stack'[j].task)
    BY <1>h DEF IInv, MainHolds
  <2>2. called \ freed \subseteq {} /\ lock # Main /\ lock \in Workers \cup {Main, None}
    BY <1>1 DEF IInv, MainHolds, At
  <2> QED
    BY <1>1, <1>8, <1>a, <1>k, <2>1, <2>2 DEF MainHolds, Has, At
<1>13. Pushers' /\ Wakes'
  BY <1>1, <1>a DEF IInv, Pushers, Wakes, At
<1>14. Parking'
  <2>1. \A x \in parked : \A j \in 1..Len(stack') :
           stack'[j].at \in Holding => stack'[j].task # x
    BY <1>h DEF IInv, Parking
  <2> QED
    BY <1>1, <1>k, <2>1 DEF IInv, Parking
<1>15. Passes'
  <2>1. \A x : Settling(x) => Settling(x)'
    BY <1>1 DEF Settling, At
  <2> QED
    BY <1>1, <1>2, <1>4, <2>1 DEF IInv, Passes
<1>16. Counts'
  <2>1. inGather
    BY <1>0, <1>1 DEF IInv, Calls, Retiring
  <2> QED
    BY <1>1, <1>k, <2>1 DEF IInv, Counts
<1>17. Waits'
  BY <1>1, <1>a, <1>k DEF IInv, Waits, InOrder, At
<1> QED
  BY <1>7, <1>9, <1>10, <1>11, <1>12, <1>13, <1>14, <1>15, <1>16, <1>17 DEF IInv

\* and only then is it freed.
LEMMA FreeIInv ==
    ASSUME IInv, UNCHANGED setup, Free
    PROVE  IInv'
<1> USE DEF MainOnly, lists, counts, fields, flags
<1> DEFINE t == stack[1].task
           f == Frame("retire", None, 1)
<1>k. MainTasks' = MainTasks /\ ScheduledTasks' = ScheduledTasks /\ Budget' = Budget
  BY KindsStay
<1>1. /\ stack[1].at = "free" /\ MainGoto(f) /\ freed' = freed \cup {t}
      /\ MainOnly /\ UNCHANGED <<inGather, inRunMain, pushed, called, asked>>
  BY DEF Free, At
<1>2. t \in called /\ called \ freed \subseteq {t} /\ lock # Main
  BY <1>1 DEF IInv, MainHolds, At
<1>3. f \in Frames /\ f.at = "retire"
  BY FrameType DEF Places
<1> HIDE DEF t, f
<1>7. /\ Calls' /\ stack' \in Seq(Frames) /\ Len(stack') = Len(stack)
      /\ stack'[1] = f /\ 1 \in 1..Len(stack)
      /\ \A j \in 1..Len(stack) : j # 1 => stack'[j] = stack[j]
      /\ inGather' \in BOOLEAN /\ inRunMain' \in BOOLEAN
  <2>1. /\ f.at \in Base <=> stack[1].at \in Base
        /\ f.at \in RunMain <=> stack[1].at \in RunMain
        /\ f.at \in Retiring <=> stack[1].at \in Retiring
    BY <1>1, <1>3 DEF Base, RunMain, Retiring
  <2> QED
    BY <1>1, <1>3, <2>1, TopStep
<1>a. stack'[1].at = "retire"
  BY <1>3, <1>7
<1>h. \A j \in 1..Len(stack') : stack'[j].at \in Holding \cup {"callback"} =>
         j \in 1..Len(stack) /\ stack'[j] = stack[j]
  BY <1>7, <1>a DEF Holding
<1>9. Types' /\ Lists'
  BY <1>1, <1>2, <1>7 DEF IInv, Types, Lists, Frames
<1>11. WorkersHold'
  BY <1>1, <1>k DEF IInv, WorkersHold, Has
<1>12. MainHolds'
  <2>1. \A j \in 1..Len(stack') :
          /\ stack'[j].at \in Holding =>
                stack'[j].task \in MainTasks /\ Has(Main, stack'[j].task)
          /\ stack'[j].at = "callback" => stack'[j].task \in ToSet(retiring)
    BY <1>h DEF IInv, MainHolds
  <2>2. called \ freed' \subseteq {}
    BY <1>1, <1>2
  <2> QED
    BY <1>1, <1>2, <1>a, <1>k, <2>1, <2>2 DEF IInv, MainHolds, Has, At
<1>13. Pushers' /\ Wakes'
  BY <1>1, <1>a DEF IInv, Pushers, Wakes, At
<1>14. Parking'
  <2>1. \A x \in parked : \A j \in 1..Len(stack') :
           stack'[j].at \in Holding => stack'[j].task # x
    BY <1>h DEF IInv, Parking
  <2> QED
    BY <1>1, <1>k, <2>1 DEF IInv, Parking
<1>15. Passes'
  <2>1. \A x : Settling(x) => Settling(x)'
    BY <1>1 DEF Settling, At
  <2> QED
    BY <1>1, <2>1 DEF IInv, Passes
<1>16. Counts' /\ Waits'
  BY <1>1, <1>a, <1>k DEF IInv, Counts, Waits, InOrder, At
<1> QED
  BY <1>7, <1>9, <1>11, <1>12, <1>13, <1>14, <1>15, <1>16 DEF IInv

(***************************************************************************)
(* The theorems.                                                           *)
(***************************************************************************)
\* A step of a worker's,
LEMMA WorkersIInv ==
    ASSUME IInv, UNCHANGED setup, NEW w \in Workers, WorkerStep(w) \/ WakeUp(w, "asleep")
    PROVE  IInv'
<1>1. CASE Pick(w)
  BY <1>1, PickIInv
<1>2. CASE WorkerHandler(w)
  BY <1>2, WorkerHandlerIInv
<1>3. CASE WorkerYields(w)
  BY <1>3, WorkerYieldsIInv
<1>4. CASE WorkerMoves(w)
  BY <1>4, WorkerMovesIInv
<1>5. CASE WorkerCounts(w)
  BY <1>5, WorkerCountsIInv
<1>6. CASE WakeUp(w, "timed") \/ WakeUp(w, "asleep")
  <2>1. PICK from \in {"timed", "asleep"} : WakeUp(w, from)
    BY <1>6
  <2>2. /\ Goto(w, from, "loop")
        /\ UNCHANGED <<lists, counts, fields, flags, lock, extrasStarted, task, main, ready,
                       history>>
    BY <2>1 DEF WakeUp
  <2> QED
    BY <2>2, SleepIInv
<1> QED
  BY <1>1, <1>2, <1>3, <1>4, <1>5, <1>6 DEF WorkerStep

\* of a gather's on Main,
LEMMA GatherIInv ==
    ASSUME IInv, UNCHANGED setup, GatherStep
    PROVE  IInv'
<1>1. CASE LookRunning \/ LookFinished
  BY <1>1, LookIInv
<1>2. CASE Pass \/ RunMainOver
  BY <1>2, PassIInv
<1>3. CASE PickMain
  BY <1>3, PickMainIInv
<1>4. CASE MainHandler
  BY <1>4, MainHandlerIInv
<1>5. CASE MainYields \/ MainMoves \/ MainCounts
  BY <1>5, MainYieldsIInv, MainMovesIInv, MainCountsIInv
<1>6. CASE Detach
  BY <1>6, DetachIInv, DetachNestedIInv
<1>7. CASE RetireNext \/ Prune \/ Free
  BY <1>7, RetireNextIInv, PruneIInv, FreeIInv
<1>8. CASE RetireOver \/ RetireBudget
  BY <1>8, RetireOverIInv
<1> QED
  BY <1>1, <1>2, <1>3, <1>4, <1>5, <1>6, <1>7, <1>8 DEF GatherStep

\* of anyone's.
LEMMA StepIInv ==
    ASSUME IInv, UNCHANGED setup, Step
    PROVE  IInv'
<1>1. CASE \E w \in Workers : WorkerStep(w) \/ WakeUp(w, "asleep")
  BY <1>1, WorkersIInv
<1>2. CASE \E o \in Others : OtherStep(o) \/ Push(o) \/ ScanBlocking(o)
  <2>1. PICK o \in Others : OtherStep(o) \/ Push(o) \/ ScanBlocking(o)
    BY <1>2
  <2>2. CASE Push(o) \/ PushBlocking(o)
    BY <2>2, PushesIInv
  <2>3. CASE ScanBlocking(o) \/ Publish(o) \/ Wake(o)
    BY <2>3, ScanBlockingIInv, PublishIInv, WakeIInv
  <2> QED
    BY <2>1, <2>2, <2>3 DEF OtherStep
<1>3. CASE GatherStep
  BY <1>3, GatherIInv
<1>4. CASE Wait \/ WaitStep
  BY <1>4, WaitIInv, WaitLooksIInv DEF WaitStep
<1>5. CASE Check
  BY <1>5, CheckIInv
<1>6. CASE MainPush
  BY <1>6, PushesIInv
<1>7. CASE MainScanBlocking \/ MainPushBlocking
  BY <1>7, MainScanBlockingIInv, MainPushBlockingIInv
<1>8. CASE Reset \/ Cancel \/ Expire
  BY <1>8, ResetIInv, CancelIInv, ExpireIInv
<1> QED
  BY <1>1, <1>2, <1>3, <1>4, <1>5, <1>6, <1>7, <1>8 DEF Step, MainStep

\* The inductive invariant holds, however many workers, tasks and other threads
\* there are, and however deep the checks go inside one another.
THEOREM Invariance == Spec => []IInv
<1>1. Init => IInv
  BY InitIInv
<1>2. IInv /\ [Next]_<<setup, vars>> => IInv'
  <2> SUFFICES ASSUME IInv, [Next]_<<setup, vars>> PROVE IInv'
    OBVIOUS
  <2>1. CASE Next
    BY <2>1, StepIInv DEF Next
  <2>2. CASE UNCHANGED <<setup, vars>>
    <3> USE <2>2 DEF vars, lists, counts, fields, flags, main, history
    <3>k. MainTasks' = MainTasks /\ ScheduledTasks' = ScheduledTasks /\ Budget' = Budget
      BY KindsStay
    <3>1. Types' /\ Calls' /\ Lists'
      BY DEF IInv, Types, Calls, Lists
    <3>2. WorkersHold' /\ MainHolds'
      BY <3>k DEF IInv, WorkersHold, MainHolds, Has, At
    <3>3. Pushers' /\ Parking' /\ Passes' /\ Wakes'
      BY <3>k DEF IInv, Pushers, Parking, Passes, Wakes, Settling, At
    <3>4. Counts' /\ Waits'
      BY <3>k DEF IInv, Counts, Waits, InOrder, At
    <3> QED
      BY <3>1, <3>2, <3>3, <3>4 DEF IInv
  <2> QED
    BY <2>1, <2>2
<1> QED
  BY <1>1, <1>2, PTL DEF Spec

\* task_queue_find is told the truth: a task is in one list, and once, from its push
\* to the end of its callback.
THEOREM FindIsTruthful == Spec => []FindTruthful
<1>1. IInv => FindTruthful
  <2> SUFFICES ASSUME IInv PROVE FindTruthful
    OBVIOUS
  <2>0. /\ running \in Seq(Tasks) /\ IsInjective(running)
        /\ finished \in Seq(Tasks) /\ IsInjective(finished)
        /\ retiring \in Seq(Tasks) /\ IsInjective(retiring)
    BY DEF IInv, Types, Lists
  <2>1. TypeOK
    <3>1. runningCount \in Nat /\ finishedCount \in Nat
      BY <2>0, LenProperties DEF IInv, Counts
    <3>2. parked \cup busy \subseteq ToSet(running)
      BY DEF IInv, Parking, WorkersHold
    <3>3. lock \in Threads \cup {None}
      BY DEF IInv, MainHolds, Threads
    <3>4. \A i \in 1..Len(stack) : stack[i].at \in Places
      <4> TAKE i \in 1..Len(stack)
      <4>1. stack[i] \in Frames
        BY ElementOfSeq DEF IInv, Types, Frames
      <4> QED
        BY <4>1 DEF Frames
    <3> QED
      BY <2>0, <3>1, <3>2, <3>3, <3>4 DEF TypeOK, IInv, Types
  <2>2. /\ \A t \in pushed \ called : Listed(t)
        /\ \A t \in called : ~Listed(t)
    BY DEF IInv, Lists, Listed
  <2>3. Len(running) + Len(finished) + Len(retiring) = Cardinality({t \in Tasks : Listed(t)})
    <3> DEFINE R == ToSet(running)
               F == ToSet(finished)
               T == ToSet(retiring)
    <3>1. {t \in Tasks : Listed(t)} = (R \cup F) \cup T
      <4>1. R \subseteq Tasks /\ F \subseteq Tasks /\ T \subseteq Tasks
        BY <2>0 DEF ToSet
      <4> QED
        BY <4>1 DEF Listed
    <3>2. /\ IsFiniteSet(R) /\ Cardinality(R) = Len(running)
          /\ IsFiniteSet(F) /\ Cardinality(F) = Len(finished)
          /\ IsFiniteSet(T) /\ Cardinality(T) = Len(retiring)
      BY <2>0, LengthCounts
    <3>3. R \cap F = {} /\ (R \cup F) \cap T = {}
      BY DEF IInv, Lists
    <3> HIDE DEF R, F, T
    <3>5. IsFiniteSet(R \cup F) /\ Cardinality(R \cup F) = Cardinality(R) + Cardinality(F)
      BY <3>2, <3>3, TwoParts
    <3>6. Cardinality((R \cup F) \cup T) = Cardinality(R \cup F) + Cardinality(T)
      BY <3>2, <3>3, <3>5, TwoParts
    <3> QED
      BY <3>1, <3>2, <3>5, <3>6
  <2> QED
    BY <2>1, <2>2, <2>3 DEF FindTruthful
<1> QED
  BY <1>1, Invariance, PTL

\* The early return of a gather leaves nothing to retire behind.
THEOREM NothingIsMissed == Spec => []NothingMissed
<1>1. IInv => NothingMissed
  BY DEF IInv, Counts, NothingMissed
<1> QED
  BY <1>1, Invariance, PTL

\* A wake that comes in while the handler asks for a park is not lost.
THEOREM NoWakeIsLost == Spec => []NoLostWake
<1>1. IInv => NoLostWake
  BY DEF IInv, Wakes, NoLostWake
<1> QED
  BY <1>1, Invariance, PTL

\* No handler and no callback of a task runs twice at once, on two workers or in a
\* check inside another.
THEOREM HandlersAreOne == Spec => []OneHandler
<1>1. IInv => OneHandler
  <2> SUFFICES ASSUME IInv PROVE OneHandler
    OBVIOUS
  <2>1. \A w, x \in Workers : w # x /\ task[w] # None => task[w] # task[x]
    BY DEF IInv, WorkersHold
  <2>2. ASSUME NEW i \in 1..Len(stack), NEW j \in 1..Len(stack), i # j,
               stack[i].at \in Holding, stack[j].at \in {"callback", "free"}
        PROVE  stack[i].task # stack[j].task
    <3>1. stack[i].task \in ToSet(running) \cup ToSet(finished)
      BY <2>2 DEF IInv, MainHolds, Has
    <3>2. stack[j].task \in ToSet(retiring) \cup called
      <4>1. CASE stack[j].at = "callback"
        BY <4>1 DEF IInv, MainHolds
      <4>2. CASE stack[j].at = "free"
        <5>1. j \notin 2..Len(stack)
          BY <4>2 DEF IInv, Calls
        <5>2. j = 1
          BY <5>1
        <5> QED
          BY <4>2, <5>2 DEF IInv, MainHolds, At
      <4> QED
        BY <2>2, <4>1, <4>2
    <3> QED
      BY <3>1, <3>2 DEF IInv, Lists
  <2>3. ASSUME NEW i \in 1..Len(stack), NEW j \in 1..Len(stack), i # j,
               stack[i].at \in {"handler", "settle", "callback", "free"},
               stack[j].at \in {"handler", "settle", "callback", "free"}
        PROVE  stack[i].task # stack[j].task
    <3>1. ~(stack[i].at \in RunMain /\ stack[j].at \in RunMain)
      BY <2>3 DEF IInv, Calls
    <3>2. ~(stack[i].at \in Retiring /\ stack[j].at \in Retiring)
      BY <2>3 DEF IInv, Calls
    <3>3. \/ stack[i].at \in Holding /\ stack[j].at \in {"callback", "free"}
          \/ stack[j].at \in Holding /\ stack[i].at \in {"callback", "free"}
      BY <2>3, <3>1, <3>2 DEF RunMain, Retiring, Holding
    <3> QED
      BY <2>2, <2>3, <3>3
  <2> QED
    BY <2>1, <2>3 DEF OneHandler
<1> QED
  BY <1>1, Invariance, PTL

\* When task_queue_wait returns, what was pushed before it and has no time to start at
\* has been retired, or is what a budget has left on the retiring list: with no budget,
\* a wait that returns is a wait for all of them.
THEOREM WaitIsRight == Spec => []WaitOverlooksNone
<1>1. IInv => WaitOverlooksNone
  <2> SUFFICES ASSUME IInv, stack[1].at = "waited"
               PROVE  asked \ ScheduledTasks \subseteq
                         freed \cup (IF Budget THEN ToSet(retiring) ELSE {})
    BY DEF WaitOverlooksNone, At
  <2>1. asked \ ScheduledTasks \subseteq ToSet(retiring) \cup called
    BY DEF IInv, Waits, Lists, At
  <2>2. called \subseteq freed
    BY DEF IInv, MainHolds, At
  <2>3. ~inGather
    <3>1. 1 \in 1..Len(stack) /\ Len(stack) \in Nat
      BY TopFrame DEF IInv
    <3>2. 1 = Len(stack)
      BY <3>1 DEF IInv, Calls, Base
    <3>3. \A i \in 1..1 : i = 1
      OBVIOUS
    <3> QED
      BY <3>2, <3>3 DEF IInv, Calls, Retiring
  <2>4. ~Budget => ToSet(retiring) = {}
    BY <2>3 DEF IInv, Counts, ToSet
  <2> QED
    BY <2>1, <2>2, <2>4
<1> QED
  BY <1>1, Invariance, PTL
=============================================================================
