-------------------------- MODULE SimRunnerProofs --------------------------
(* Proofs about SimRunner's counters, tiers and prefetches, for any        *)
(* traces, sizes, capacities, policies and sequence of runs on one         *)
(* configuration.                                                          *)
EXTENDS SimRunner, DataLemmas

-----------------------------------------------------------------------------
(* The tiers: what add, touch and eviction do to the eviction order of a   *)
(* tier and to the bytes it is charged for, whatever the sizes of its      *)
(* objects.                                                                *)

(* A tier whose resident objects are objects and have an entry in a proper *)
(* order.                                                                  *)
Sound(tier) ==
    /\ tier = [resident |-> tier.resident, order |-> tier.order, bytes |-> tier.bytes]
    /\ tier.resident \subseteq Objects
    /\ tier.order \in Seq(Objects)
    /\ Ordered(tier)

(* An entry is a position of the order.                                    *)
LEMMA OrderedEntries ==
    ASSUME NEW tier, tier.order \in Seq(Objects)
    PROVE  Ordered(tier) <=>
              \A o \in tier.resident : \E i \in 1 .. Len(tier.order) : tier.order[i] = o
  BY DEF Ordered, Range

(* The empty tier is sound.                                                *)
LEMMA EmptySound == Sound(EmptyTier)
  BY DEF Sound, EmptyTier, Ordered, Range

(* add() of any object leaves a sound tier, which has it.                  *)
LEMMA AddSound ==
    ASSUME NEW tier, Sound(tier), NEW o \in Objects
    PROVE  Sound(Add(tier, o))
<1> DEFINE s == tier.order
           t == Append(s, o)
<1>1. s \in Seq(Objects)
  BY DEF Sound
<1>2. /\ t \in Seq(Objects) /\ Len(t) = Len(s) + 1
      /\ t[Len(s) + 1] = o /\ \A i \in 1 .. Len(s) : t[i] = s[i]
  BY <1>1
<1>3. /\ Add(tier, o) = [resident |-> Add(tier, o).resident,
                         order |-> Add(tier, o).order, bytes |-> Add(tier, o).bytes]
      /\ Add(tier, o).resident = tier.resident \union {o}
      /\ Add(tier, o).order = t
  BY DEF Add
<1> HIDE DEF s, t
<1>4. \A p \in tier.resident : \E i \in 1 .. Len(s) : s[i] = p
  BY OrderedEntries DEF Sound, s
<1>5. ASSUME NEW p \in tier.resident \union {o}
      PROVE  \E i \in 1 .. Len(t) : t[i] = p
  <2>1. Len(s) \in Nat
    BY <1>1
  <2>2. CASE p \in tier.resident
    <3>1. PICK i \in 1 .. Len(s) : s[i] = p
      BY <1>4, <2>2
    <3>2. i \in 1 .. Len(t) /\ t[i] = p
      BY <1>2, <2>1, <3>1
    <3> QED
      BY <3>2
  <2>3. CASE p = o
    BY <1>2, <2>1, <2>3
  <2> QED
    BY <2>2, <2>3
<1>6. /\ Add(tier, o).order \in Seq(Objects)
      /\ Add(tier, o).resident \subseteq Objects
  BY <1>2, <1>3 DEF Sound
<1>7. Ordered(Add(tier, o))
  BY <1>3, <1>5, <1>6, OrderedEntries
<1> QED
  BY <1>3, <1>6, <1>7 DEF Sound

(* touch() of a resident object takes its first entry out of the order,    *)
(* and puts it at the end.                                                 *)
LEMMA TouchOrder ==
    ASSUME NEW tier, Sound(tier), NEW o \in tier.resident
    PROVE  /\ Touch(tier, o) = [resident |-> tier.resident,
                                order |-> Touch(tier, o).order, bytes |-> tier.bytes]
           /\ Touch(tier, o).order \in Seq(Objects)
           /\ Len(Touch(tier, o).order) = Len(tier.order)
           /\ Touch(tier, o).order[Len(tier.order)] = o
           /\ \E k \in 1 .. Len(tier.order) :
                 /\ tier.order[k] = o
                 /\ \A j \in 1 .. Len(tier.order) - 1 :
                       Touch(tier, o).order[j] =
                          IF j < k THEN tier.order[j] ELSE tier.order[j + 1]
<1> DEFINE s == tier.order
           k == Min({i \in 1 .. Len(s) : s[i] = o})
           r == RemoveAt(s, k)
           t == Append(r, o)
<1>1. s \in Seq(Objects) /\ Len(s) \in Nat /\ o \in Objects
  BY DEF Sound
<1>2. \E i \in 1 .. Len(s) : s[i] = o
  BY OrderedEntries DEF Sound
<1>3. k \in 1 .. Len(s) /\ s[k] = o
  <2> DEFINE I == {i \in 1 .. Len(s) : s[i] = o}
  <2>1. I \in SUBSET Nat /\ I # {}
    BY <1>1, <1>2
  <2>2. Min(I) \in I
    BY <2>1, MinIsLeast
  <2> QED
    BY <2>2
<1>4. /\ r \in Seq(Objects) /\ Len(r) = Len(s) - 1
      /\ \A j \in 1 .. Len(s) - 1 : r[j] = IF j < k THEN s[j] ELSE s[j + 1]
  <2> HIDE DEF k
  <2> QED
    BY <1>1, <1>3, RemoveAtLemma
<1>5. RemoveFirst(s, o) = r
  <2>1. SelectInSeq(s, LAMBDA v : v = o) = k
    BY <1>2 DEF SelectInSeq
  <2> QED
    BY <1>2, <2>1 DEF RemoveFirst
<1>6. Touch(tier, o) = [resident |-> tier.resident, order |-> t, bytes |-> tier.bytes]
  <2>1. tier = [resident |-> tier.resident, order |-> tier.order, bytes |-> tier.bytes]
    BY DEF Sound
  <2>2. Touch(tier, o) = [tier EXCEPT !.order = t]
    BY <1>5 DEF Touch
  <2> HIDE DEF t
  <2>3. [[resident |-> tier.resident, order |-> tier.order, bytes |-> tier.bytes]
            EXCEPT !.order = t]
          = [resident |-> tier.resident, order |-> t, bytes |-> tier.bytes]
    OBVIOUS
  <2> QED
    BY <2>1, <2>2, <2>3
<1> HIDE DEF r, k
<1>7. /\ t \in Seq(Objects) /\ Len(t) = Len(s)
      /\ t[Len(s)] = o /\ \A j \in 1 .. Len(s) - 1 : t[j] = r[j]
  BY <1>1, <1>4
<1> HIDE DEF t
<1>8. Touch(tier, o).order = t
  BY <1>6
<1> QED
  BY <1>3, <1>4, <1>6, <1>7, <1>8

(* So every object keeps an entry.                                         *)
LEMMA TouchSound ==
    ASSUME NEW tier, Sound(tier), NEW o \in tier.resident
    PROVE  Sound(Touch(tier, o))
<1> DEFINE s == tier.order
           t == Touch(tier, o).order
<1>1. PICK k \in 1 .. Len(s) :
         /\ s[k] = o
         /\ \A j \in 1 .. Len(s) - 1 : t[j] = IF j < k THEN s[j] ELSE s[j + 1]
  BY TouchOrder
<1>2. /\ Touch(tier, o) = [resident |-> tier.resident, order |-> t, bytes |-> tier.bytes]
      /\ t \in Seq(Objects) /\ Len(t) = Len(s) /\ t[Len(s)] = o
      /\ Len(s) \in Nat
  BY TouchOrder DEF Sound
<1>3. Touch(tier, o).resident = tier.resident
  BY <1>2
<1> HIDE DEF t
<1>4. ASSUME NEW p \in tier.resident
      PROVE  \E j \in 1 .. Len(t) : t[j] = p
  <2>1. CASE p = o
    BY <1>2, <2>1
  <2>2. CASE p # o
    <3>1. PICK i \in 1 .. Len(s) : s[i] = p
      BY OrderedEntries DEF Sound
    <3>2. i # k
      BY <1>1, <2>2, <3>1
    <3>3. CASE i < k
      BY <1>1, <1>2, <3>1, <3>3
    <3>4. CASE i > k
      <4>1. i - 1 \in 1 .. Len(s) - 1 /\ ~(i - 1 < k) /\ i - 1 + 1 = i
        BY <1>1, <1>2, <3>4
      <4>2. t[i - 1] = p
        BY <1>1, <3>1, <4>1
      <4> QED
        BY <1>2, <4>1, <4>2
    <3> QED
      BY <1>1, <1>2, <3>2, <3>3, <3>4
  <2> QED
    BY <2>1, <2>2
<1>5. Ordered(Touch(tier, o))
  BY <1>2, <1>3, <1>4, OrderedEntries DEF t
<1> QED
  BY <1>2, <1>3, <1>5 DEF Sound, t

(* Popping entries leaves every object that stays with an entry.           *)
LEMMA PopsSound ==
    ASSUME NEW tier, Sound(tier), NEW n \in 0 .. Len(tier.order)
    PROVE  Sound(AfterPops(tier, n))
<1> DEFINE s == tier.order
           t == SubSeq(s, n + 1, Len(s))
<1>1. s \in Seq(Objects) /\ Len(s) \in Nat
  BY DEF Sound
<1>2. /\ t \in Seq(Objects) /\ Len(t) = Len(s) - n
      /\ \A j \in 1 .. Len(s) - n : t[j] = s[n + j]
  BY <1>1
<1>3. /\ AfterPops(tier, n) = [resident |-> AfterPops(tier, n).resident,
                               order |-> AfterPops(tier, n).order,
                               bytes |-> AfterPops(tier, n).bytes]
      /\ AfterPops(tier, n).resident = tier.resident \ Popped(tier, n)
      /\ AfterPops(tier, n).order = t
  BY DEF AfterPops
<1> HIDE DEF t
<1>4. ASSUME NEW p \in tier.resident \ Popped(tier, n)
      PROVE  \E j \in 1 .. Len(t) : t[j] = p
  <2>1. PICK i \in 1 .. Len(s) : s[i] = p
    BY OrderedEntries DEF Sound
  <2>2. i > n
    BY <1>1, <2>1 DEF Popped
  <2>3. i - n \in 1 .. Len(s) - n /\ n + (i - n) = i
    BY <1>1, <2>2
  <2> QED
    BY <1>2, <2>1, <2>3
<1> QED
  BY <1>2, <1>3, <1>4, OrderedEntries DEF Sound

(* _make_room pops no more entries than there are: enough, when it answers *)
(* True, and all of them when it answers False.                            *)
LEMMA PopCountInOrder ==
    ASSUME NEW tier, Sound(tier), NEW size, NEW capacity
    PROVE  /\ PopCount(tier, size, capacity) \in 0 .. Len(tier.order)
           /\ MakesRoom(tier, size, capacity) =>
                 PopCount(tier, size, capacity) \in Enough(tier, size, capacity)
           /\ ~MakesRoom(tier, size, capacity) =>
                 PopCount(tier, size, capacity) = Len(tier.order)
<1> DEFINE enough == Enough(tier, size, capacity)
<1>0. Len(tier.order) \in Nat /\ enough \subseteq 0 .. Len(tier.order)
  BY DEF Sound, Enough
<1> HIDE DEF enough
<1>1. CASE enough = {}
  BY <1>0, <1>1 DEF PopCount, MakesRoom, enough
<1>2. CASE enough # {}
  <2>1. enough \in SUBSET Nat
    BY <1>0
  <2>2. Min(enough) \in enough
    BY <1>2, <2>1, MinIsLeast
  <2> QED
    BY <1>0, <1>2, <2>2 DEF PopCount, MakesRoom, enough
<1> QED
  BY <1>1, <1>2

(* _make_room leaves a sound tier, whether or not it makes the room.       *)
LEMMA MakeRoomSound ==
    ASSUME NEW tier, Sound(tier), NEW size, NEW capacity
    PROVE  Sound(MakeRoom(tier, size, capacity))
  BY PopCountInOrder, PopsSound DEF MakeRoom

-----------------------------------------------------------------------------
(* The bytes of a tier *)

(* The bytes of finitely many objects are a number, and add up.            *)
LEMMA TotalAdds ==
    ASSUME NEW S \in SUBSET Objects, IsFiniteSet(S)
    PROVE  /\ Total(S) \in Nat
           /\ \A o \in Objects \ S : Total(S \union {o}) = Total(S) + Bytes[o]
           /\ \A T \in SUBSET S : /\ Total(T) \in Nat
                                  /\ Total(S) = Total(T) + Total(S \ T)
<1>1. \A o \in Objects : Bytes[o] \in Nat
  BY BytesAssumption
<1>2. Total(S) \in Nat
  BY <1>1, SumRemove DEF Total
<1>3. ASSUME NEW o \in Objects \ S PROVE Total(S \union {o}) = Total(S) + Bytes[o]
  BY <1>1, SumAdd DEF Total
<1>4. ASSUME NEW T \in SUBSET S
      PROVE  Total(T) \in Nat /\ Total(S) = Total(T) + Total(S \ T)
  BY <1>1, SumSplit DEF Total
<1> QED
  BY <1>2, <1>3, <1>4

(* The bytes a tier is charged for beyond those of what it holds.          *)
Drift(tier) == tier.bytes - Total(tier.resident)

(* A sound tier that is charged at least for what it holds.                *)
Accounted(tier) ==
    /\ Sound(tier)
    /\ IsFiniteSet(tier.resident)
    /\ tier.bytes \in Nat
    /\ Drift(tier) \in Nat

(* An empty tier is charged for nothing and has not drifted.               *)
LEMMA EmptyAccounted == Accounted(EmptyTier) /\ Drift(EmptyTier) = 0
<1>1. Total({}) = 0
  BY SumEmpty DEF Total
<1> QED
  BY <1>1, EmptySound, FS_EmptySet DEF Accounted, Drift, EmptyTier

(* add() of an object the tier holds is charged for nothing it holds.      *)
LEMMA AddAccounted ==
    ASSUME NEW tier, Accounted(tier), NEW o \in Objects
    PROVE  /\ Accounted(Add(tier, o))
           /\ Add(tier, o).resident = tier.resident \union {o}
           /\ Add(tier, o).bytes = tier.bytes + Bytes[o]
           /\ Drift(Add(tier, o)) =
                 Drift(tier) + (IF o \in tier.resident THEN Bytes[o] ELSE 0)
<1> DEFINE R == tier.resident
           A == R \union {o}
           t == Add(tier, o)
<1>1. Sound(t) /\ t.resident = A /\ t.bytes = tier.bytes + Bytes[o]
  BY AddSound DEF Add, Accounted
<1>2. R \in SUBSET Objects /\ IsFiniteSet(R) /\ tier.bytes \in Nat /\ Bytes[o] \in Nat
  BY BytesAssumption DEF Accounted, Sound
<1>3. Total(R) \in Nat
  BY <1>2, TotalAdds
<1>4. IsFiniteSet(A)
  BY <1>2, FS_AddElement
<1> HIDE DEF t, R
<1>5. Total(A) = Total(R) + (IF o \in R THEN 0 ELSE Bytes[o])
  <2>1. CASE o \in R
    <3>1. A = R
      BY <2>1
    <3>2. Total(A) = Total(R)
      BY <3>1, Zenon
    <3> QED
      BY <1>3, <2>1, <3>2
  <2>2. CASE o \notin R
    BY <1>2, <1>3, <2>2, TotalAdds
  <2> QED
    BY <2>1, <2>2
<1> HIDE DEF A
<1>6. t.bytes = tier.bytes + Bytes[o] /\ Total(t.resident) = Total(A)
  BY <1>1, Zenon
<1>7. Drift(tier) = tier.bytes - Total(R) /\ Drift(tier) \in Nat
  BY DEF Drift, R, Accounted
<1>8. Drift(t) = Drift(tier) + (IF o \in R THEN Bytes[o] ELSE 0)
  BY <1>2, <1>3, <1>5, <1>6, <1>7 DEF Drift
<1>9. Accounted(t)
  BY <1>1, <1>2, <1>4, <1>7, <1>8 DEF Accounted
<1> QED
  BY <1>1, <1>8, <1>9 DEF t, R, A

(* touch() moves an entry and nothing else.                                *)
LEMMA TouchAccounted ==
    ASSUME NEW tier, Accounted(tier), NEW o \in tier.resident
    PROVE  /\ Accounted(Touch(tier, o))
           /\ Touch(tier, o).resident = tier.resident
           /\ Touch(tier, o).bytes = tier.bytes
           /\ Drift(Touch(tier, o)) = Drift(tier)
<1>1. Sound(Touch(tier, o))
  BY TouchSound DEF Accounted
<1>2. tier = [resident |-> tier.resident, order |-> tier.order, bytes |-> tier.bytes]
  BY DEF Accounted, Sound
<1>3. Touch(tier, o).resident = tier.resident /\ Touch(tier, o).bytes = tier.bytes
  BY <1>2 DEF Touch
<1> QED
  BY <1>1, <1>3 DEF Accounted, Drift

(* What eviction frees is credited for exactly, so the room counted as     *)
(* freed is there when the answer is True; when it is False, what is left  *)
(* is charged for objects the tier does not hold.                          *)
LEMMA MakeRoomAccounted ==
    ASSUME NEW tier, Accounted(tier), NEW size \in Nat, NEW capacity \in Nat
    PROVE  /\ Accounted(MakeRoom(tier, size, capacity))
           /\ Evicted(tier, size, capacity) \subseteq tier.resident
           /\ IsFiniteSet(Evicted(tier, size, capacity))
           /\ MakeRoom(tier, size, capacity).resident =
                 tier.resident \ Evicted(tier, size, capacity)
           /\ MakeRoom(tier, size, capacity).resident \subseteq tier.resident
           /\ MakeRoom(tier, size, capacity).bytes <= tier.bytes
           /\ Drift(MakeRoom(tier, size, capacity)) = Drift(tier)
           /\ MakesRoom(tier, size, capacity) =>
                 size <= capacity - MakeRoom(tier, size, capacity).bytes
           /\ MakesRoom(tier, size, capacity) \/ size > capacity - Drift(tier)
<1> DEFINE n == PopCount(tier, size, capacity)
           G == Popped(tier, n)
           R == tier.resident
           left == MakeRoom(tier, size, capacity)
<1>1. /\ R \in SUBSET Objects /\ IsFiniteSet(R) /\ tier.bytes \in Nat
      /\ Sound(tier) /\ Len(tier.order) \in Nat
      /\ tier.bytes - Total(R) \in Nat
  BY DEF Accounted, Sound, Drift
<1>2. n \in 0 .. Len(tier.order) /\ Sound(left)
  BY <1>1, PopCountInOrder, MakeRoomSound
<1>3. G \in SUBSET R /\ G = Evicted(tier, size, capacity) /\ IsFiniteSet(G)
  <2>1. G \in SUBSET R /\ G = Evicted(tier, size, capacity)
    BY DEF Popped, Evicted
  <2> QED
    BY <1>1, <2>1, FS_Subset
<1>4. left.resident = R \ G /\ left.bytes = tier.bytes - Total(G)
  BY DEF MakeRoom, AfterPops, Credited
<1>5. IsFiniteSet(R \ G)
  BY <1>1, FS_Difference
<1>6. Total(G) \in Nat /\ Total(R \ G) \in Nat /\ Total(R) = Total(G) + Total(R \ G)
  <2>1. Total(G) \in Nat /\ Total(R) = Total(G) + Total(R \ G)
    BY <1>1, <1>3, TotalAdds
  <2>2. R \ G \in SUBSET Objects
    BY <1>1
  <2>3. Total(R \ G) \in Nat
    BY <1>5, <2>2, TotalAdds
  <2> QED
    BY <2>1, <2>3
<1>7. Drift(left) = tier.bytes - Total(G) - Total(R \ G)
  BY <1>4, Zenon DEF Drift
<1>8. Drift(tier) = tier.bytes - Total(R)
  BY DEF Drift
<1>9. MakesRoom(tier, size, capacity) => size <= capacity - left.bytes
  <2> SUFFICES ASSUME MakesRoom(tier, size, capacity)
               PROVE  size <= capacity - left.bytes
    OBVIOUS
  <2>1. n \in Enough(tier, size, capacity)
    BY <1>1, PopCountInOrder
  <2>2. Total(G) >= size - (capacity - tier.bytes)
    BY <2>1 DEF Enough, Freed, Shortfall
  <2> HIDE DEF G, left
  <2> QED
    BY <1>1, <1>4, <1>6, <2>2
<1>10. MakesRoom(tier, size, capacity) \/ size > capacity - Drift(tier)
  <2> SUFFICES ASSUME ~MakesRoom(tier, size, capacity)
               PROVE  size > capacity - Drift(tier)
    OBVIOUS
  <2>1. n = Len(tier.order)
    BY <1>1, PopCountInOrder
  <2>2. \A p \in R : \E i \in 1 .. Len(tier.order) : tier.order[i] = p
    BY <1>1, OrderedEntries DEF Sound
  <2>3. G = R
    BY <2>1, <2>2 DEF Popped
  <2>4. ~(Total(G) >= size - (capacity - tier.bytes))
    BY <1>2, <2>1 DEF MakesRoom, Enough, Freed, Shortfall
  <2>5. Total(G) = Total(R)
    BY <2>3, Zenon
  <2> HIDE DEF G, R
  <2> QED
    BY <1>1, <1>6, <1>8, <2>4, <2>5
<1> HIDE DEF G, R, left, n
<1>11. Drift(left) = Drift(tier) /\ left.bytes \in Nat /\ left.bytes <= tier.bytes
       /\ Drift(tier) \in Nat
  BY <1>1, <1>4, <1>6, <1>7, <1>8
<1>12. IsFiniteSet(left.resident) /\ left.resident \subseteq R
  <2>1. left.resident \subseteq R
    BY <1>4
  <2> QED
    BY <1>4, <1>5, <2>1, Zenon
<1>13. Accounted(left)
  BY <1>2, <1>11, <1>12 DEF Accounted
<1> QED
  BY <1>3, <1>4, <1>9, <1>10, <1>11, <1>12, <1>13 DEF left, R

-----------------------------------------------------------------------------
(* A tier that no object it holds is added to *)

(* It is charged for exactly what it holds, and its order is a list of     *)
(* that, without repetition.                                               *)
Exact(tier) ==
    /\ Accounted(tier)
    /\ Drift(tier) = 0
    /\ \A i \in 1 .. Len(tier.order) : tier.order[i] \in tier.resident
    /\ \A i, j \in 1 .. Len(tier.order) : tier.order[i] = tier.order[j] => i = j

(* An empty tier is exact.                                                 *)
LEMMA EmptyExact == Exact(EmptyTier)
  BY EmptyAccounted DEF Exact, EmptyTier

(* An exact tier is charged for what it holds, and lists as many entries   *)
(* as it holds objects.                                                    *)
LEMMA ExactCounts ==
    ASSUME NEW tier, Exact(tier)
    PROVE  /\ tier.bytes = Total(tier.resident)
           /\ Len(tier.order) = Cardinality(tier.resident)
<1> DEFINE s == tier.order
           R == tier.resident
<1>1. s \in Seq(Objects) /\ Len(s) \in Nat /\ R \in SUBSET Objects /\ IsFiniteSet(R)
  BY DEF Exact, Accounted, Sound
<1>2. \A p \in R : \E i \in 1 .. Len(s) : s[i] = p
  BY OrderedEntries DEF Exact, Accounted, Sound
<1>3. s \in Bijection(1 .. Len(s), R)
  <2>1. s \in [1 .. Len(s) -> R]
    BY <1>1 DEF Exact
  <2>2. IsInjective(s)
    BY <1>1 DEF Exact, IsInjective
  <2> QED
    BY <1>2, <2>1, <2>2 DEF Bijection, Injection, Surjection
<1>4. Cardinality(R) = Len(s)
  BY <1>1, <1>3, FS_CountingElements DEF ExistsBijection
<1>5. tier.bytes \in Nat /\ Total(R) \in Nat /\ tier.bytes - Total(R) = 0
  BY <1>1, TotalAdds DEF Exact, Accounted, Drift
<1> QED
  BY <1>4, <1>5

(* add() keeps a tier exact when the object is new to it.                  *)
LEMMA AddExact ==
    ASSUME NEW tier, Exact(tier), NEW o \in Objects \ tier.resident
    PROVE  Exact(Add(tier, o))
<1> DEFINE s == tier.order
           t == Append(s, o)
<1>1. s \in Seq(Objects) /\ Len(s) \in Nat
  BY DEF Exact, Accounted, Sound
<1>2. /\ Len(t) = Len(s) + 1 /\ t[Len(s) + 1] = o
      /\ \A i \in 1 .. Len(s) : t[i] = s[i]
  BY <1>1
<1>3. Add(tier, o).order = t /\ Add(tier, o).resident = tier.resident \union {o}
  BY DEF Add
<1>4. Accounted(Add(tier, o)) /\ Drift(Add(tier, o)) = 0
  BY AddAccounted DEF Exact
<1> HIDE DEF t
<1>5. \A i \in 1 .. Len(t) : i \in 1 .. Len(s) \/ i = Len(s) + 1
  BY <1>1, <1>2
<1>6. \A i \in 1 .. Len(t) : t[i] \in tier.resident \union {o}
  BY <1>2, <1>5 DEF Exact
<1>7. \A i, j \in 1 .. Len(t) : t[i] = t[j] => i = j
  BY <1>2, <1>5 DEF Exact
<1>8. \A i \in 1 .. Len(Add(tier, o).order) :
         Add(tier, o).order[i] \in Add(tier, o).resident
  BY <1>3, <1>6
<1>9. \A i, j \in 1 .. Len(Add(tier, o).order) :
         Add(tier, o).order[i] = Add(tier, o).order[j] => i = j
  BY <1>3, <1>7
<1> QED
  BY <1>4, <1>8, <1>9 DEF Exact

(* touch() keeps a tier exact when the object is in it.                    *)
LEMMA TouchExact ==
    ASSUME NEW tier, Exact(tier), NEW o \in tier.resident
    PROVE  Exact(Touch(tier, o))
<1> DEFINE s == tier.order
           t == Touch(tier, o).order
<1>1. Sound(tier) /\ Len(s) \in Nat
  BY DEF Exact, Accounted, Sound
<1>2. PICK k \in 1 .. Len(s) :
         /\ s[k] = o
         /\ \A j \in 1 .. Len(s) - 1 : t[j] = IF j < k THEN s[j] ELSE s[j + 1]
  BY <1>1, TouchOrder
<1>3. Len(t) = Len(s) /\ t[Len(s)] = o /\ Touch(tier, o).resident = tier.resident
  BY <1>1, TouchOrder, TouchAccounted DEF Exact
<1>4. Accounted(Touch(tier, o)) /\ Drift(Touch(tier, o)) = 0
  BY TouchAccounted DEF Exact
<1> HIDE DEF t
<1> DEFINE from == [j \in 1 .. Len(s) |->
                       IF j = Len(s) THEN k ELSE IF j < k THEN j ELSE j + 1]
<1>5. \A j \in 1 .. Len(s) : from[j] \in 1 .. Len(s) /\ t[j] = s[from[j]]
  BY <1>1, <1>2, <1>3
<1>6. \A i, j \in 1 .. Len(s) : from[i] = from[j] => i = j
  BY <1>1, <1>2
<1> HIDE DEF from
<1>7. \A i \in 1 .. Len(t) : t[i] \in tier.resident
  BY <1>3, <1>5 DEF Exact
<1>8. \A i, j \in 1 .. Len(t) : t[i] = t[j] => i = j
  <2>1. \A i, j \in 1 .. Len(s) : s[i] = s[j] => i = j
    BY DEF Exact
  <2>2. ASSUME NEW i \in 1 .. Len(s), NEW j \in 1 .. Len(s), t[i] = t[j]
        PROVE  i = j
    <3>1. s[from[i]] = s[from[j]] /\ from[i] \in 1 .. Len(s) /\ from[j] \in 1 .. Len(s)
      BY <1>5, <2>2
    <3>2. from[i] = from[j]
      BY <2>1, <3>1
    <3> QED
      BY <1>6, <3>2
  <2> QED
    BY <1>3, <2>2, Zenon
<1> QED
  BY <1>3, <1>4, <1>7, <1>8 DEF Exact, t

(* Evicting keeps a tier exact.                                            *)
LEMMA MakeRoomExact ==
    ASSUME NEW tier, Exact(tier), NEW size \in Nat, NEW capacity \in Nat
    PROVE  Exact(MakeRoom(tier, size, capacity))
<1> DEFINE s == tier.order
           n == PopCount(tier, size, capacity)
           t == SubSeq(s, n + 1, Len(s))
           left == MakeRoom(tier, size, capacity)
<1>1. Sound(tier) /\ s \in Seq(Objects) /\ Len(s) \in Nat
  BY DEF Exact, Accounted, Sound
<1>2. n \in 0 .. Len(s)
  BY <1>1, PopCountInOrder
<1>3. left.order = t /\ left.resident = tier.resident \ Popped(tier, n)
  BY DEF MakeRoom, AfterPops
<1> HIDE DEF n
<1>4. Len(t) = Len(s) - n /\ \A j \in 1 .. Len(s) - n : t[j] = s[n + j]
  BY <1>1, <1>2
<1>5. Accounted(left) /\ Drift(left) = 0
  BY MakeRoomAccounted DEF Exact
<1> HIDE DEF t, left
<1>6. \A j \in 1 .. Len(t) : n + j \in 1 .. Len(s) /\ n + j > n /\ t[j] = s[n + j]
  BY <1>1, <1>2, <1>4
<1>7. ASSUME NEW j \in 1 .. Len(t) PROVE t[j] \in left.resident
  <2>1. t[j] \in tier.resident
    BY <1>6 DEF Exact
  <2>2. t[j] \notin Popped(tier, n)
    <3> SUFFICES ASSUME NEW i \in 1 .. n, s[i] = t[j] PROVE FALSE
      BY DEF Popped
    <3>1. i \in 1 .. Len(s)
      BY <1>1, <1>2
    <3> QED
      BY <1>2, <1>6, <3>1 DEF Exact
  <2> QED
    BY <1>3, <2>1, <2>2
<1>8. ASSUME NEW i \in 1 .. Len(t), NEW j \in 1 .. Len(t), t[i] = t[j] PROVE i = j
  <2>1. n + i = n + j
    BY <1>6, <1>8 DEF Exact
  <2> QED
    BY <1>1, <1>2, <1>4, <2>1
<1> QED
  BY <1>3, <1>5, <1>7, <1>8 DEF Exact, left

-----------------------------------------------------------------------------
(* The order of a tier as an order of recency *)

(* The entries of all objects but o are in increasing order of key.        *)
SortedBut(tier, key, o) ==
    \A i, j \in 1 .. Len(tier.order) :
        i < j /\ tier.order[i] # o /\ tier.order[j] # o
            => key[tier.order[i]] < key[tier.order[j]]

Sorted(tier, key) ==
    \A i, j \in 1 .. Len(tier.order) :
        i < j => key[tier.order[i]] < key[tier.order[j]]

(* o has the greatest key of all.                                          *)
Newest(tier, key, o) == \A p \in tier.resident \ {o} : key[p] < key[o]

(* Whatever is added or touched last becomes the last of the order.        *)
LEMMA AddSorted ==
    ASSUME NEW tier, Exact(tier), NEW key, NEW o \in Objects \ tier.resident,
           SortedBut(tier, key, o), Newest(tier, key, o)
    PROVE  Sorted(Add(tier, o), key)
<1> DEFINE s == tier.order
           t == Append(s, o)
<1>1. s \in Seq(Objects) /\ Len(s) \in Nat
  BY DEF Exact, Accounted, Sound
<1>2. /\ Len(t) = Len(s) + 1 /\ t[Len(s) + 1] = o
      /\ \A i \in 1 .. Len(s) : t[i] = s[i]
  BY <1>1
<1>3. Add(tier, o).order = t
  BY DEF Add
<1> HIDE DEF t
<1>4. \A i \in 1 .. Len(s) : s[i] \in tier.resident /\ s[i] # o
  BY DEF Exact
<1> SUFFICES ASSUME NEW i \in 1 .. Len(t), NEW j \in 1 .. Len(t), i < j
             PROVE  key[t[i]] < key[t[j]]
  BY <1>3 DEF Sorted
<1>5. i \in 1 .. Len(s) /\ (j \in 1 .. Len(s) \/ j = Len(s) + 1)
  BY <1>1, <1>2
<1>6. CASE j \in 1 .. Len(s)
  BY <1>2, <1>4, <1>5, <1>6 DEF SortedBut
<1>7. CASE j = Len(s) + 1
  BY <1>2, <1>4, <1>5, <1>7 DEF Newest
<1> QED
  BY <1>5, <1>6, <1>7

(* touch() of the newest object sorts a tier that was sorted but for it.   *)
LEMMA TouchSorted ==
    ASSUME NEW tier, Exact(tier), NEW key, NEW o \in tier.resident,
           SortedBut(tier, key, o), Newest(tier, key, o)
    PROVE  Sorted(Touch(tier, o), key)
<1> DEFINE s == tier.order
           t == Touch(tier, o).order
<1>1. Sound(tier) /\ Len(s) \in Nat
  BY DEF Exact, Accounted, Sound
<1>2. PICK k \in 1 .. Len(s) :
         /\ s[k] = o
         /\ \A j \in 1 .. Len(s) - 1 : t[j] = IF j < k THEN s[j] ELSE s[j + 1]
  BY <1>1, TouchOrder
<1>3. Len(t) = Len(s) /\ t[Len(s)] = o
  BY <1>1, TouchOrder
<1> HIDE DEF t
<1>4. \A i \in 1 .. Len(s) : s[i] \in tier.resident /\ (i # k => s[i] # o)
  BY <1>2 DEF Exact
<1> SUFFICES ASSUME NEW i \in 1 .. Len(s), NEW j \in 1 .. Len(s), i < j
             PROVE  key[t[i]] < key[t[j]]
  BY <1>3 DEF Sorted, t
<1> DEFINE from(m) == IF m < k THEN m ELSE m + 1
<1>5. /\ from(i) \in 1 .. Len(s) /\ from(i) # k /\ t[i] = s[from(i)]
  BY <1>1, <1>2
<1>6. CASE j = Len(s)
  BY <1>3, <1>4, <1>5, <1>6 DEF Newest
<1>7. CASE j # Len(s)
  <2>1. /\ from(j) \in 1 .. Len(s) /\ from(j) # k /\ t[j] = s[from(j)]
        /\ from(i) < from(j)
    BY <1>1, <1>2, <1>7
  <2> HIDE DEF from
  <2> QED
    BY <1>4, <1>5, <2>1 DEF SortedBut
<1> QED
  BY <1>6, <1>7

(* Eviction keeps the order of what stays.                                 *)
LEMMA MakeRoomSorted ==
    ASSUME NEW tier, Sound(tier), NEW size, NEW capacity, NEW key, NEW o,
           SortedBut(tier, key, o)
    PROVE  SortedBut(MakeRoom(tier, size, capacity), key, o)
<1> DEFINE s == tier.order
           n == PopCount(tier, size, capacity)
           t == SubSeq(s, n + 1, Len(s))
<1>1. s \in Seq(Objects) /\ Len(s) \in Nat
  BY DEF Sound
<1>2. n \in 0 .. Len(s)
  BY PopCountInOrder
<1>3. MakeRoom(tier, size, capacity).order = t
  BY DEF MakeRoom, AfterPops
<1> HIDE DEF n
<1>4. Len(t) = Len(s) - n /\ \A j \in 1 .. Len(s) - n : t[j] = s[n + j]
  <2>1. /\ Len(SubSeq(s, n + 1, Len(s))) = Len(s) - n
        /\ \A j \in 1 .. Len(s) - n : SubSeq(s, n + 1, Len(s))[j] = s[n + j]
    <3> HIDE DEF s
    <3> QED
      BY <1>1, <1>2
  <2> QED
    BY <2>1
<1> HIDE DEF t
<1>5. \A j \in 1 .. Len(t) : n + j \in 1 .. Len(s) /\ t[j] = s[n + j]
  BY <1>1, <1>2, <1>4
<1> SUFFICES ASSUME NEW i \in 1 .. Len(t), NEW j \in 1 .. Len(t),
                    i < j, t[i] # o, t[j] # o
             PROVE  key[t[i]] < key[t[j]]
  BY <1>3 DEF SortedBut
<1>6. n + i < n + j
  BY <1>1, <1>2, <1>4
<1> QED
  BY <1>5, <1>6 DEF SortedBut

-----------------------------------------------------------------------------
(* The runs *)

\* The counters that EventsPartition speaks of; the others count evictions,
\* promotions and what became of the prefetches.
Tallied ==
    {"total_events", "sram_hits", "dram_hits", "random_flash_reads",
     "sequential_flash_reads", "prefetched_objects", "sync_flash_policy_failures"}

Tally == DOMAIN metrics = Counters /\ \A c \in Tallied : metrics[c] \in Nat

\* The events that found their object somewhere.
LookedUp == metrics["sram_hits"] + metrics["dram_hits"] + metrics["random_flash_reads"]

Lookups == {"sram_hits", "dram_hits", "random_flash_reads"}

(* What makes EventsPartition inductive: where the run is in its trace is  *)
(* what it has counted.                                                    *)
CountersOK ==
    /\ Tally
    /\ runs \in Nat /\ trace \in Seq(Events) /\ pos \in Nat \ {0}
    /\ phase \in {"idle", "plan", "stage"}
    /\ metrics["sequential_flash_reads"] = metrics["prefetched_objects"]
    /\ metrics["sync_flash_policy_failures"] <= metrics["random_flash_reads"]
    /\ phase = "plan" => /\ metrics["total_events"] = pos - 1
                         /\ LookedUp = pos - 1
                         /\ pos <= Len(trace) + 1
    /\ phase = "stage" => /\ metrics["total_events"] = pos
                          /\ LookedUp = pos - 1
                          /\ pos <= Len(trace)
    /\ phase = "idle" /\ runs > 0 => /\ metrics["total_events"] = Len(trace)
                                     /\ LookedUp = Len(trace)

(* What evicting charges to the metrics leaves the tally alone.            *)
LEMMA ChargedTally ==
    ASSUME NEW m, DOMAIN m = Counters, NEW S
    PROVE  /\ DOMAIN Charged(m, S) = Counters
           /\ \A c \in Tallied : Charged(m, S)[c] = m[c]
  BY DEF Charged, Tallied, Counters

(* So does settling a prefetch.                                            *)
LEMMA SettledTally ==
    ASSUME NEW m, DOMAIN m = Counters, NEW o
    PROVE  /\ DOMAIN Settled(m, o) = Counters
           /\ \A c \in Tallied : Settled(m, o)[c] = m[c]
  BY DEF Settled, Tallied, Counters

(* The tally, counter by counter, for the arithmetic.                      *)
LEMMA TallyCounters ==
    ASSUME NEW m
    PROVE  (\A c \in Tallied : m[c] \in Nat) <=>
              /\ m["total_events"] \in Nat
              /\ m["sram_hits"] \in Nat
              /\ m["dram_hits"] \in Nat
              /\ m["random_flash_reads"] \in Nat
              /\ m["sequential_flash_reads"] \in Nat
              /\ m["prefetched_objects"] \in Nat
              /\ m["sync_flash_policy_failures"] \in Nat
  BY DEF Tallied

(* One more hit or read is one more lookup.                                *)
LEMMA OneMoreLookup ==
    ASSUME Tally, DOMAIN metrics' = Counters,
           NEW k \in Lookups, metrics'[k] = metrics[k] + 1,
           \A c \in Lookups \ {k} : metrics'[c] = metrics[c],
           metrics'["total_events"] \in Nat,
           metrics'["sequential_flash_reads"] \in Nat,
           metrics'["prefetched_objects"] \in Nat,
           metrics'["sync_flash_policy_failures"] \in Nat
    PROVE  Tally' /\ LookedUp' = LookedUp + 1
<1>1. /\ metrics["sram_hits"] \in Nat
      /\ metrics["dram_hits"] \in Nat
      /\ metrics["random_flash_reads"] \in Nat
  BY DEF Tally, Tallied
<1>2. \/ /\ metrics'["sram_hits"] = metrics["sram_hits"] + 1
         /\ metrics'["dram_hits"] = metrics["dram_hits"]
         /\ metrics'["random_flash_reads"] = metrics["random_flash_reads"]
      \/ /\ metrics'["sram_hits"] = metrics["sram_hits"]
         /\ metrics'["dram_hits"] = metrics["dram_hits"] + 1
         /\ metrics'["random_flash_reads"] = metrics["random_flash_reads"]
      \/ /\ metrics'["sram_hits"] = metrics["sram_hits"]
         /\ metrics'["dram_hits"] = metrics["dram_hits"]
         /\ metrics'["random_flash_reads"] = metrics["random_flash_reads"] + 1
  BY DEF Lookups
<1>3. /\ metrics'["sram_hits"] \in Nat
      /\ metrics'["dram_hits"] \in Nat
      /\ metrics'["random_flash_reads"] \in Nat
  BY <1>1, <1>2
<1>4. Tally'
  BY <1>3, TallyCounters DEF Tally
<1>5. LookedUp' = LookedUp + 1
  BY <1>1, <1>2 DEF LookedUp
<1> QED
  BY <1>4, <1>5

(* The lookup of an event, wherever it finds the object, goes on to the    *)
(* next event with one more lookup counted.                                *)
LEMMA LookupStep ==
    ASSUME CountersOK, phase = "stage", NextEvent, Tally',
           LookedUp' = LookedUp + 1,
           metrics'["total_events"] = metrics["total_events"],
           metrics'["sequential_flash_reads"] = metrics["sequential_flash_reads"],
           metrics'["prefetched_objects"] = metrics["prefetched_objects"],
           metrics'["sync_flash_policy_failures"] <= metrics'["random_flash_reads"]
    PROVE  CountersOK'
<1>1. /\ pos' = pos + 1 /\ phase' = "plan" /\ UNCHANGED <<trace, runs>>
  BY DEF NextEvent
<1>2. Len(trace) \in Nat
  BY DEF CountersOK
<1> QED
  BY <1>1, <1>2 DEF CountersOK

(* Every step counts what it handles.                                      *)
LEMMA CountersStep == CountersOK /\ [Next]_vars => CountersOK'
<1> SUFFICES ASSUME CountersOK, [Next]_vars PROVE CountersOK'
  OBVIOUS
<1>0. /\ DOMAIN metrics = Counters /\ Len(trace) \in Nat /\ pos \in Nat
      /\ \A c \in Tallied : metrics[c] \in Nat
  BY DEF CountersOK, Tally
<1>a. /\ metrics["total_events"] \in Nat
      /\ metrics["sram_hits"] \in Nat
      /\ metrics["dram_hits"] \in Nat
      /\ metrics["random_flash_reads"] \in Nat
      /\ metrics["sequential_flash_reads"] \in Nat
      /\ metrics["prefetched_objects"] \in Nat
      /\ metrics["sync_flash_policy_failures"] \in Nat
  BY <1>0, TallyCounters
<1>1. CASE RunTrace
  <2>1. PICK run \in Matrix[runs + 1] : trace' = run.trace
    BY <1>1 DEF RunTrace
  <2>2. trace' \in Seq(Events)
    <3>1. runs + 1 \in DOMAIN Matrix
      BY <1>1, SimAssumption DEF RunTrace, CountersOK
    <3>2. Matrix[runs + 1] \in SUBSET [trace : Seq(Events), mode : AllModes, policy : Policies]
      BY <3>1, SimAssumption
    <3> QED
      BY <2>1, <3>2
  <2>3. /\ metrics' = NoMetrics /\ pos' = 1 /\ phase' = "plan" /\ runs' = runs + 1
    BY <1>1 DEF RunTrace
  <2>4. /\ DOMAIN metrics' = Counters
        /\ metrics'["total_events"] = 0
        /\ metrics'["sram_hits"] = 0
        /\ metrics'["dram_hits"] = 0
        /\ metrics'["random_flash_reads"] = 0
        /\ metrics'["sequential_flash_reads"] = 0
        /\ metrics'["prefetched_objects"] = 0
        /\ metrics'["sync_flash_policy_failures"] = 0
    BY <2>3 DEF NoMetrics, Counters
  <2>5. Len(trace') \in Nat
    BY <2>2
  <2>6. Tally'
    BY <2>4, TallyCounters DEF Tally
  <2> QED
    BY <2>2, <2>3, <2>4, <2>5, <2>6 DEF CountersOK, LookedUp
<1>2. CASE PlanEvent
  <2>1. /\ DOMAIN metrics' = Counters
        /\ metrics'["total_events"] = metrics["total_events"] + 1
        /\ metrics'["sram_hits"] = metrics["sram_hits"]
        /\ metrics'["dram_hits"] = metrics["dram_hits"]
        /\ metrics'["random_flash_reads"] = metrics["random_flash_reads"]
        /\ metrics'["sequential_flash_reads"] = metrics["sequential_flash_reads"]
        /\ metrics'["prefetched_objects"] = metrics["prefetched_objects"]
        /\ metrics'["sync_flash_policy_failures"]
              = metrics["sync_flash_policy_failures"]
    BY <1>0, <1>2 DEF PlanEvent, Counters
  <2>2. /\ phase = "plan" /\ phase' = "stage" /\ pos <= Len(trace)
        /\ UNCHANGED <<trace, pos, runs>>
    BY <1>0, <1>2 DEF PlanEvent, CountersOK
  <2>3. Tally'
    BY <1>a, <2>1, TallyCounters DEF Tally
  <2> QED
    BY <1>0, <1>a, <2>1, <2>2, <2>3 DEF CountersOK, LookedUp
<1>3. ASSUME NEW o \in Objects, Prefetch(o) PROVE CountersOK'
  <2> DEFINE charged == Charged(metrics, Evicted(dram, Bytes[o], DramCapacity))
  <2>1. DOMAIN charged = Counters /\ \A c \in Tallied : charged[c] = metrics[c]
    BY <1>0, ChargedTally
  <2>2. /\ UNCHANGED <<trace, pos, phase, runs>>
        /\ \/ metrics' = [charged EXCEPT !["prefetched_objects"] = @ + 1,
                                         !["sequential_flash_reads"] = @ + 1]
           \/ metrics' = charged
    BY <1>3 DEF Prefetch
  <2> HIDE DEF charged
  <2>3. /\ DOMAIN metrics' = Counters
        /\ metrics'["total_events"] = metrics["total_events"]
        /\ metrics'["sram_hits"] = metrics["sram_hits"]
        /\ metrics'["dram_hits"] = metrics["dram_hits"]
        /\ metrics'["random_flash_reads"] = metrics["random_flash_reads"]
        /\ metrics'["sync_flash_policy_failures"]
              = metrics["sync_flash_policy_failures"]
        /\ \/ /\ metrics'["prefetched_objects"] = metrics["prefetched_objects"] + 1
              /\ metrics'["sequential_flash_reads"] = metrics["sequential_flash_reads"] + 1
           \/ /\ metrics'["prefetched_objects"] = metrics["prefetched_objects"]
              /\ metrics'["sequential_flash_reads"] = metrics["sequential_flash_reads"]
    BY <2>1, <2>2 DEF Counters, Tallied
  <2>4. Tally'
    BY <1>a, <2>3, TallyCounters DEF Tally
  <2> QED
    BY <1>0, <1>a, <2>2, <2>3, <2>4 DEF CountersOK, LookedUp
<1>4. CASE SramHit
  <2>1. /\ DOMAIN metrics' = Counters
        /\ metrics'["sram_hits"] = metrics["sram_hits"] + 1
        /\ \A c \in Tallied \ {"sram_hits"} : metrics'[c] = metrics[c]
    BY <1>0, <1>4 DEF SramHit, Counters, Tallied
  <2>2. phase = "stage" /\ NextEvent
    BY <1>4 DEF SramHit, Looking
  <2>3. Tally' /\ LookedUp' = LookedUp + 1
    <3>1. Tally
      BY DEF CountersOK
    <3> QED
      BY <1>a, <2>1, <3>1, OneMoreLookup DEF Lookups, Tallied
  <2> QED
    BY <2>1, <2>2, <2>3, LookupStep DEF Tallied, CountersOK
<1>5. CASE DramHit
  <2> DEFINE o == Event.object
             charged == Charged(metrics, Evicted(sram, Bytes[o], SramCapacity))
             room == MakesRoom(sram, Bytes[o], SramCapacity)
             hit == [charged EXCEPT !["dram_hits"] = @ + 1,
                                    !["sram_promotions"] = @ + (IF room THEN 1 ELSE 0)]
  <2>1. DOMAIN charged = Counters /\ \A c \in Tallied : charged[c] = metrics[c]
    BY <1>0, ChargedTally
  <2>2. metrics' = Settled(hit, o) /\ phase = "stage" /\ NextEvent
    BY <1>5 DEF DramHit, Looking
  <2> HIDE DEF o, charged, room
  <2>3. /\ DOMAIN hit = Counters
        /\ hit["dram_hits"] = metrics["dram_hits"] + 1
        /\ \A c \in Tallied \ {"dram_hits"} : hit[c] = metrics[c]
    BY <2>1 DEF Counters, Tallied
  <2> HIDE DEF hit
  <2>4. DOMAIN metrics' = Counters /\ \A c \in Tallied : metrics'[c] = hit[c]
    BY <2>2, <2>3, SettledTally
  <2>5. /\ metrics'["dram_hits"] = metrics["dram_hits"] + 1
        /\ \A c \in Tallied \ {"dram_hits"} : metrics'[c] = metrics[c]
    BY <2>3, <2>4 DEF Tallied
  <2>6. Tally' /\ LookedUp' = LookedUp + 1
    <3>1. Tally
      BY DEF CountersOK
    <3> QED
      BY <1>a, <2>3, <2>4, <2>5, <3>1, OneMoreLookup DEF Lookups, Tallied
  <2> QED
    BY <2>2, <2>5, <2>6, LookupStep DEF Tallied, CountersOK
<1>6. CASE FlashRead
  <2> DEFINE o == Event.object
             charged == Charged(metrics, Evicted(dram, Bytes[o], DramCapacity))
  <2>1. DOMAIN charged = Counters /\ \A c \in Tallied : charged[c] = metrics[c]
    BY <1>0, ChargedTally
  <2>2. metrics' = CountedRead(charged, o) /\ phase = "stage" /\ NextEvent
    BY <1>6 DEF FlashRead, Looking
  <2> HIDE DEF o, charged
  <2>3. /\ DOMAIN metrics' = Counters
        /\ metrics'["random_flash_reads"] = metrics["random_flash_reads"] + 1
        /\ metrics'["sync_flash_policy_failures"]
              = metrics["sync_flash_policy_failures"] + (IF Event.critical THEN 1 ELSE 0)
        /\ \A c \in Tallied \ {"random_flash_reads", "sync_flash_policy_failures"} :
              metrics'[c] = metrics[c]
    BY <2>1, <2>2 DEF CountedRead, ReadCounter, Counters, Tallied
  <2>4. Tally' /\ LookedUp' = LookedUp + 1
    <3>1. Tally
      BY DEF CountersOK
    <3> QED
      BY <1>a, <2>3, <3>1, OneMoreLookup DEF Lookups, Tallied
  <2>5. metrics'["sync_flash_policy_failures"] <= metrics'["random_flash_reads"]
    BY <1>0, <2>3 DEF CountersOK, Tallied
  <2> QED
    BY <2>2, <2>3, <2>4, <2>5, LookupStep DEF Tallied
<1>7. CASE EndRun
  <2>1. DOMAIN metrics' = Counters /\ \A c \in Tallied : metrics'[c] = metrics[c]
    BY <1>0, <1>7 DEF EndRun, Counters, Tallied
  <2>2. /\ phase = "plan" /\ phase' = "idle" /\ pos \notin DOMAIN trace
        /\ UNCHANGED <<trace, pos, runs>>
    BY <1>7 DEF EndRun
  <2>3. pos = Len(trace) + 1
    BY <1>0, <2>2 DEF CountersOK
  <2> QED
    BY <1>0, <2>1, <2>2, <2>3, SMTT(30) DEF CountersOK, Tally, Tallied, LookedUp
<1>8. CASE UNCHANGED vars
  BY <1>8 DEF vars, CountersOK, Tally, LookedUp
<1> QED
  BY <1>1, <1>2, <1>3, <1>4, <1>5, <1>6, <1>7, <1>8 DEF Next

(* At the start there is nothing to count.                                 *)
LEMMA CountersInit == Init => CountersOK
  BY DEF Init, CountersOK, Tally, Tallied, NoMetrics, Counters, LookedUp

(* For any trace, tiers, mode and policy, and after any earlier runs on    *)
(* the same configuration: a finished run has counted every event of its   *)
(* trace once, and once among SRAM hits, DRAM hits and random flash reads. *)
THEOREM RunsCountEveryEvent == Spec => []EventsPartition
<1>1. Init => CountersOK
  BY CountersInit
<1>2. CountersOK => EventsPartition
  BY DEF CountersOK, Tally, Tallied, LookedUp, EventsPartition
<1> QED
  BY <1>1, <1>2, CountersStep, PTL DEF Spec
-----------------------------------------------------------------------------
(* The tiers *)

(* What makes the properties of the tiers inductive.  DRAM is only charged *)
(* for at least what it holds: a prefetch may add what is there already.   *)
TiersOK ==
    /\ Exact(sram) /\ Accounted(dram)
    /\ sram.bytes <= SramCapacity /\ dram.bytes <= DramCapacity

(* The object of the event being handled is one.                           *)
LEMMA EventTyped ==
    ASSUME CountersOK, phase = "stage"
    PROVE  Event.object \in Objects /\ Event.step \in Nat
<1>1. trace \in Seq(Events) /\ pos \in 1 .. Len(trace)
  BY DEF CountersOK
<1>2. trace[pos] \in Events
  BY <1>1
<1> QED
  BY <1>2 DEF Event, Events

(* Room made in a tier, and what is put there when there is room, are      *)
(* within the tier's capacity.  Its drift grows by what it held already.   *)
LEMMA Admission ==
    ASSUME NEW tier, Accounted(tier), NEW capacity \in Nat, tier.bytes <= capacity,
           NEW o \in Objects
    PROVE  LET left == MakeRoom(tier, Bytes[o], capacity)
               room == MakesRoom(tier, Bytes[o], capacity)
           IN  /\ Accounted(left) /\ left.bytes <= capacity
               /\ Drift(left) = Drift(tier)
               /\ Accounted(Add(left, o))
               /\ room => Add(left, o).bytes <= capacity
               /\ ~room => Bytes[o] > capacity - Drift(tier)
               /\ Drift(Add(left, o)) \in Drift(tier) .. Drift(tier) + Bytes[o]
               /\ o \notin tier.resident => Drift(Add(left, o)) = Drift(tier)
<1> DEFINE left == MakeRoom(tier, Bytes[o], capacity)
           room == MakesRoom(tier, Bytes[o], capacity)
<1>1. Bytes[o] \in Nat
  BY BytesAssumption
<1>2. /\ Accounted(left) /\ left.bytes <= tier.bytes
      /\ Drift(left) = Drift(tier) /\ left.resident \subseteq tier.resident
      /\ room \/ Bytes[o] > capacity - Drift(tier)
  BY <1>1, MakeRoomAccounted
<1>3. room => Bytes[o] <= capacity - left.bytes
  BY <1>1, MakeRoomAccounted
<1> HIDE DEF left, room
<1>4. /\ Accounted(Add(left, o))
      /\ Add(left, o).bytes = left.bytes + Bytes[o]
      /\ Drift(Add(left, o)) = Drift(left) + (IF o \in left.resident THEN Bytes[o] ELSE 0)
  BY <1>2, AddAccounted
<1>5. /\ left.bytes \in Nat /\ Drift(left) \in Nat /\ tier.bytes \in Nat
  BY <1>2 DEF Accounted
<1>6. left.bytes <= capacity /\ (room => Add(left, o).bytes <= capacity)
  BY <1>1, <1>2, <1>3, <1>4, <1>5
<1>7. /\ Drift(Add(left, o)) \in Drift(tier) .. Drift(tier) + Bytes[o]
      /\ o \notin tier.resident => Drift(Add(left, o)) = Drift(tier)
  BY <1>1, <1>2, <1>4, <1>5
<1> QED
  BY <1>2, <1>4, <1>6, <1>7 DEF left, room

(* Every step keeps what the tiers are charged for.                        *)
LEMMA TiersStep == CountersOK /\ TiersOK /\ [Next]_vars => TiersOK'
<1> SUFFICES ASSUME CountersOK, TiersOK, [Next]_vars
             PROVE  /\ Exact(sram') /\ Accounted(dram')
                    /\ sram'.bytes <= SramCapacity /\ dram'.bytes <= DramCapacity
  BY DEF TiersOK, Exact, Accounted, Drift, Total, Sound, Ordered
<1>0. /\ Exact(sram) /\ Accounted(dram) /\ Accounted(sram)
      /\ sram.bytes <= SramCapacity /\ dram.bytes <= DramCapacity
      /\ SramCapacity \in Nat /\ DramCapacity \in Nat
  BY SimAssumption DEF TiersOK, Exact
<1>1. ASSUME NEW o \in Objects, Prefetch(o)
      PROVE  sram' = sram /\ Accounted(dram') /\ dram'.bytes <= DramCapacity
  BY <1>0, <1>1, Admission DEF Prefetch
<1>2. CASE SramHit
  BY <1>0, <1>2, TouchExact, TouchAccounted DEF SramHit
<1>3. CASE DramHit
  <2> DEFINE o == Event.object
             left == MakeRoom(sram, Bytes[o], SramCapacity)
             room == MakesRoom(sram, Bytes[o], SramCapacity)
  <2>1. o \in Objects /\ Bytes[o] \in Nat
    BY <1>3, EventTyped, BytesAssumption DEF DramHit, Looking
  <2>2. /\ o \notin sram.resident /\ o \in dram.resident
        /\ dram' = Touch(dram, o)
        /\ sram' = IF room THEN Add(left, o) ELSE left
    BY <1>3 DEF DramHit
  <2>3. Accounted(dram') /\ dram'.bytes <= DramCapacity
    BY <1>0, <2>2, TouchAccounted
  <2>4. /\ left.bytes <= SramCapacity
        /\ room => Add(left, o).bytes <= SramCapacity
    BY <1>0, <2>1, Admission
  <2>5. Exact(left) /\ left.resident \subseteq sram.resident
    BY <1>0, <2>1, MakeRoomExact, MakeRoomAccounted
  <2> HIDE DEF left, room, o
  <2>6. Exact(Add(left, o))
    BY <2>1, <2>2, <2>5, AddExact
  <2> QED
    BY <2>2, <2>3, <2>4, <2>5, <2>6
<1>4. CASE FlashRead
  <2>1. Event.object \in Objects
    BY <1>4, EventTyped DEF FlashRead, Looking
  <2> QED
    BY <1>0, <1>4, <2>1, Admission DEF FlashRead
<1>5. CASE RunTrace \/ PlanEvent \/ EndRun \/ UNCHANGED vars
  BY <1>0, <1>5 DEF RunTrace, PlanEvent, EndRun, vars
<1> QED
  BY <1>0, <1>1, <1>2, <1>3, <1>4, <1>5 DEF Next

(* Empty tiers are charged for nothing.                                    *)
LEMMA TiersInit == Init => TiersOK
  BY EmptyExact, EmptyAccounted, SimAssumption DEF Init, TiersOK, EmptyTier

(* In any sequence of runs, with any sizes and capacities, touch() finds   *)
(* the entry of the object it moves.                                       *)
THEOREM TouchesFindEntries == Spec => []TouchFindsEntry
<1>1. Init => CountersOK /\ TiersOK
  BY CountersInit, TiersInit
<1>2. CountersOK /\ TiersOK /\ [Next]_vars => (CountersOK /\ TiersOK)'
  BY CountersStep, TiersStep
<1>3. TiersOK => TouchFindsEntry
  BY DEF TiersOK, Exact, Accounted, Sound, TouchFindsEntry
<1> QED
  BY <1>1, <1>2, <1>3, PTL DEF Spec

(* ... SRAM, which a promotion only reaches after a miss, is charged for   *)
(* exactly what it holds and lists it once ...                             *)
THEOREM SramIsExact == Spec => []SramExact
<1>1. Init => CountersOK /\ TiersOK
  BY CountersInit, TiersInit
<1>2. CountersOK /\ TiersOK /\ [Next]_vars => (CountersOK /\ TiersOK)'
  BY CountersStep, TiersStep
<1>3. TiersOK => SramExact
  BY ExactCounts DEF TiersOK, SramExact
<1> QED
  BY <1>1, <1>2, <1>3, PTL DEF Spec

(* ... and neither tier is charged for more than its capacity.             *)
THEOREM TiersStayWithinCapacity == Spec => []WithinCapacity
<1>1. Init => CountersOK /\ TiersOK
  BY CountersInit, TiersInit
<1>2. CountersOK /\ TiersOK /\ [Next]_vars => (CountersOK /\ TiersOK)'
  BY CountersStep, TiersStep
<1>3. TiersOK => WithinCapacity
  BY DEF TiersOK, WithinCapacity
<1> QED
  BY <1>1, <1>2, <1>3, PTL DEF Spec

-----------------------------------------------------------------------------
(* The prefetches *)

(* A prefetch of o planned at a step is for an event the run will come to. *)
Coming(o, step) ==
    /\ mode # "ram_emulation"
    /\ mode = "hybrid" => step >= Warmup
    /\ policy \notin {"no_prefetch", "lru"}
    /\ \E i \in DOMAIN trace :
          /\ trace[i].object = o
          /\ trace[i].step \in step + 1 .. step + Lookahead
    /\ policy = "heuristic" =>
          \E i \in 1 .. pos : /\ trace[i].step = step
                              /\ Predictable(trace[i].object, o)

(* What is staged was coming when it was planned, and so is what the plan  *)
(* of the event being handled still has to stage.                          *)
ComingOK ==
    /\ history = <<>> /\ policy \in Policies
    /\ \A o \in Prefetched : Coming(o, issued[o])
    /\ phase = "stage" => \A o \in pending : Coming(o, Event.step)

(* The objects of the window are those of later events within reach.       *)
LEMMA WindowAhead ==
    ASSUME CountersOK, pos \in DOMAIN trace, NEW o \in Window
    PROVE  \E i \in DOMAIN trace :
              /\ trace[i].object = o
              /\ trace[i].step \in Event.step + 1 .. Event.step + Lookahead
<1>1. PICK i \in DOMAIN trace : /\ trace[i].object = o /\ Ahead(i)
                                /\ trace[i].step <= Event.step + Lookahead
  BY DEF Window
<1>2. trace \in Seq(Events)
  BY DEF CountersOK
<1>3. trace[i].step \in Nat /\ Event.step \in Nat
  <2>1. trace[i] \in Events /\ trace[pos] \in Events
    BY <1>2
  <2> QED
    BY <2>1 DEF Event, Events
<1>4. Lookahead \in Nat
  BY SimAssumption
<1>5. trace[i].step \in Event.step + 1 .. Event.step + Lookahead
  BY <1>1, <1>3, <1>4 DEF Ahead
<1> QED
  BY <1>1, <1>5

(* Every policy plans a part of the window, and two plan nothing.          *)
LEMMA PlanInWindow ==
    ASSUME NEW p \in Policies, NEW c, NEW w, NEW o \in Plan(p, c, w, <<>>)
    PROVE  /\ o \in w
           /\ p \notin {"no_prefetch", "lru"}
           /\ p = "heuristic" => Predictable(c, o)
<1>1. Range(<<>>) = {}
  BY DEF Range
<1>2. /\ p # "no_prefetch"
      /\ p # "lru"
  BY <1>1 DEF Plan, Policies, NoPrefetchPlan, LRUPlan
<1>3. o \in w /\ (p = "heuristic" => Predictable(c, o))
  BY <1>2 DEF Plan, Policies, HeuristicPlan, FixedWindowPlan, PredictivePlan, OraclePlan
<1> QED
  BY <1>2, <1>3

(* The candidates of an event are coming.                                  *)
LEMMA CandidatesComing ==
    ASSUME CountersOK, ComingOK, pos \in DOMAIN trace, AllowPrefetch,
           NEW o \in Candidates
    PROVE  Coming(o, Event.step)
<1>1. o \in Plan(policy, Event.object, Window, <<>>) /\ policy \in Policies
  BY DEF Candidates, ComingOK
<1>2. /\ o \in Window
      /\ policy \notin {"no_prefetch", "lru"}
      /\ policy = "heuristic" => Predictable(Event.object, o)
  BY <1>1, PlanInWindow
<1>3. \E i \in DOMAIN trace :
         /\ trace[i].object = o
         /\ trace[i].step \in Event.step + 1 .. Event.step + Lookahead
  BY <1>2, WindowAhead
<1>4. mode # "ram_emulation" /\ (mode = "hybrid" => Event.step >= Warmup)
  BY DEF AllowPrefetch
<1>5. pos \in 1 .. pos
  BY DEF CountersOK
<1> QED
  BY <1>2, <1>3, <1>4, <1>5 DEF Coming, Event

(* Within a run what was coming stays so.                                  *)
LEMMA ComingStays ==
    ASSUME CountersOK, UNCHANGED <<trace, mode, policy>>,
           pos' = pos \/ pos' = pos + 1,
           NEW o, NEW step, Coming(o, step)
    PROVE  Coming(o, step)'
<1>1. 1 .. pos \subseteq 1 .. pos'
  BY DEF CountersOK
<1> QED
  BY <1>1 DEF Coming

(* A step stages only what its plan has, and the plan is of what is coming.*)
LEMMA ComingStep == CountersOK /\ ComingOK /\ [Next]_vars => ComingOK'
<1> SUFFICES ASSUME CountersOK, ComingOK, [Next]_vars PROVE ComingOK'
  OBVIOUS
<1>1. CASE RunTrace
  <2>1. PICK run \in Matrix[runs + 1] : policy' = run.policy
    BY <1>1 DEF RunTrace
  <2>2. policy' \in Policies
    <3>1. runs + 1 \in DOMAIN Matrix
      BY <1>1, SimAssumption DEF RunTrace, CountersOK
    <3>2. Matrix[runs + 1] \in SUBSET [trace : Seq(Events), mode : AllModes, policy : Policies]
      BY <3>1, SimAssumption
    <3> QED
      BY <2>1, <3>2
  <2>3. issued' = <<>> /\ phase' = "plan" /\ history' = history
    BY <1>1 DEF RunTrace
  <2>4. Prefetched' = {}
    BY <2>3 DEF Prefetched
  <2> QED
    BY <2>2, <2>3, <2>4 DEF ComingOK
<1>2. CASE PlanEvent
  <2>1. /\ UNCHANGED <<trace, mode, policy, pos, issued, history>>
        /\ pos \in DOMAIN trace
        /\ pending' = IF AllowPrefetch THEN Candidates ELSE {}
    BY <1>2 DEF PlanEvent
  <2>2. \A o \in pending' : Coming(o, Event.step)
    BY <2>1, CandidatesComing
  <2>3. \A o \in pending' : Coming(o, Event.step)'
    BY <2>1, <2>2 DEF Coming, Event
  <2>4. \A o \in Prefetched' : Coming(o, issued[o])'
    BY <2>1 DEF ComingOK, Prefetched, Coming
  <2> QED
    BY <2>1, <2>3, <2>4 DEF ComingOK
<1>3. ASSUME NEW o \in Objects, Prefetch(o) PROVE ComingOK'
  <2>1. /\ phase = "stage" /\ o \in pending /\ pending' = pending \ {o}
        /\ UNCHANGED <<trace, mode, policy, pos, phase, history>>
        /\ \/ issued' = [p \in Prefetched \union {o} |->
                            IF p = o THEN Event.step ELSE issued[p]]
           \/ issued' = issued
    BY <1>3 DEF Prefetch
  <2>2. Event' = Event
    BY <2>1 DEF Event
  <2>3. \A p \in pending' : Coming(p, Event.step)'
    BY <2>1, <2>2 DEF ComingOK, Coming
  <2>4. ASSUME NEW p \in Prefetched' PROVE Coming(p, issued[p])'
    <3>1. \/ p \in Prefetched /\ issued'[p] = issued[p]
          \/ p = o /\ issued'[p] = Event.step
      BY <2>1 DEF Prefetched
    <3>2. Coming(p, issued'[p])
      BY <2>1, <3>1 DEF ComingOK
    <3> QED
      BY <2>1, <3>2 DEF Coming
  <2>5. phase' = "stage" /\ history' = history /\ policy' = policy
    BY <2>1
  <2> QED
    BY <2>3, <2>4, <2>5 DEF ComingOK
<1>4. CASE SramHit \/ DramHit \/ FlashRead
  <2>1. NextEvent
    BY <1>4 DEF SramHit, DramHit, FlashRead
  <2>2. /\ UNCHANGED <<trace, mode, policy, issued, history>>
        /\ pos' = pos + 1 /\ phase' = "plan"
    BY <2>1 DEF NextEvent
  <2>3. ASSUME NEW p \in Prefetched' PROVE Coming(p, issued[p])'
    BY <2>2, ComingStays DEF ComingOK, Prefetched
  <2> QED
    BY <2>2, <2>3 DEF ComingOK
<1>5. CASE EndRun \/ UNCHANGED vars
  BY <1>5 DEF EndRun, vars, ComingOK, Coming, Prefetched, Event
<1> QED
  BY <1>1, <1>2, <1>3, <1>4, <1>5 DEF Next

-----------------------------------------------------------------------------
(* The types *)

(* What evicting finitely many objects charges is a number.                *)
LEMMA ChargedTyped ==
    ASSUME NEW m \in [Counters -> Nat], NEW S, IsFiniteSet(S)
    PROVE  /\ Charged(m, S) \in [Counters -> Nat]
           /\ IsFiniteSet(Squandered(S))
           /\ Charged(m, S)["wasted_prefetches"] =
                 m["wasted_prefetches"] + Cardinality(Squandered(S))
           /\ \A c \in Counters \ {"dram_evictions", "wasted_prefetches"} :
                 Charged(m, S)[c] = m[c]
<1>1. IsFiniteSet(Squandered(S)) /\ Cardinality(Squandered(S)) \in Nat
  <2>1. Squandered(S) \in SUBSET S
    BY DEF Squandered
  <2> QED
    BY <2>1, FS_Subset, FS_CardinalityType
<1>2. Cardinality(S) \in Nat
  BY FS_CardinalityType
<1> QED
  BY <1>1, <1>2 DEF Charged, Counters

(* Settling a prefetch counts it once, as useful or as waste.              *)
LEMMA SettledTyped ==
    ASSUME NEW m \in [Counters -> Nat], NEW o
    PROVE  /\ Settled(m, o) \in [Counters -> Nat]
           /\ \A c \in Counters \ {"useful_prefetches", "wasted_prefetches"} :
                 Settled(m, o)[c] = m[c]
           /\ Settled(m, o)["useful_prefetches"] + Settled(m, o)["wasted_prefetches"] =
                 m["useful_prefetches"] + m["wasted_prefetches"]
                    + (IF Settles(o) THEN 1 ELSE 0)
  BY DEF Settled, Counters

(* An accounted tier is a tier.                                            *)
LEMMA AccountedTier ==
    ASSUME NEW tier, Accounted(tier)
    PROVE  tier \in Tier
  BY DEF Accounted, Sound, Tier

(* What is not yet of type by the proofs above: the arguments of the run   *)
(* under way, its prefetches and its metrics.                              *)
ArgsOK ==
    /\ runs \in 0 .. Len(Matrix)
    /\ runs > 0 => [trace |-> trace, mode |-> mode, policy |-> policy] \in Matrix[runs]
    /\ pos \in 1 .. Len(trace) + 1

PrefetchesOK ==
    /\ pending \subseteq Objects \ Prefetched
    /\ Prefetched \subseteq Objects
    /\ IsFiniteSet(Prefetched)
    /\ \A o \in Prefetched : issued[o] \in Nat
    /\ useful \subseteq Prefetched
    /\ wasted \subseteq Prefetched

Types == ArgsOK /\ PrefetchesOK /\ metrics \in [Counters -> Nat]

(* The objects of a window are objects.                                    *)
LEMMA CandidatesTyped ==
    ASSUME CountersOK, ComingOK
    PROVE  Candidates \subseteq Objects \ Prefetched
<1> SUFFICES ASSUME NEW o \in Candidates PROVE o \in Objects \ Prefetched
  OBVIOUS
<1>1. o \in Plan(policy, Event.object, Window, <<>>) /\ policy \in Policies
  BY DEF Candidates, ComingOK
<1>2. o \in Window
  BY <1>1, PlanInWindow
<1>3. PICK j \in DOMAIN trace : o = trace[j].object
  BY <1>2 DEF Window
<1>4. trace[j] \in Events
  BY <1>3 DEF CountersOK
<1> QED
  BY <1>3, <1>4 DEF Candidates, Events

(* The arguments of a run stay as they were given.                         *)
LEMMA ArgsStep == CountersOK /\ ArgsOK /\ [Next]_vars => ArgsOK'
<1> SUFFICES ASSUME CountersOK, ArgsOK, [Next]_vars PROVE ArgsOK'
  OBVIOUS
<1>0. Len(trace) \in Nat /\ pos \in Nat \ {0} /\ Len(Matrix) \in Nat
  BY SimAssumption DEF CountersOK
<1>1. CASE RunTrace
  <2>1. PICK run \in Matrix[runs + 1] :
           trace' = run.trace /\ mode' = run.mode /\ policy' = run.policy
    BY <1>1 DEF RunTrace
  <2>2. runs + 1 \in 1 .. Len(Matrix) /\ runs' = runs + 1 /\ pos' = 1
    BY <1>0, <1>1 DEF RunTrace, ArgsOK
  <2>3. run \in [trace : Seq(Events), mode : AllModes, policy : Policies]
    BY <2>1, <2>2, SimAssumption
  <2>4. [trace |-> trace', mode |-> mode', policy |-> policy'] = run
    BY <2>1, <2>3
  <2>5. Len(trace') \in Nat
    BY <2>1, <2>3
  <2> QED
    BY <2>1, <2>2, <2>4, <2>5 DEF ArgsOK
<1>2. CASE PlanEvent \/ EndRun \/ UNCHANGED vars
  BY <1>2 DEF PlanEvent, EndRun, vars, ArgsOK
<1>3. ASSUME NEW o \in Objects, Prefetch(o) PROVE ArgsOK'
  BY <1>3 DEF Prefetch, ArgsOK
<1>4. CASE SramHit \/ DramHit \/ FlashRead
  <2>1. UNCHANGED <<trace, mode, policy, runs>> /\ pos' = pos + 1
    BY <1>4 DEF SramHit, DramHit, FlashRead, NextEvent
  <2>2. pos <= Len(trace)
    BY <1>4 DEF SramHit, DramHit, FlashRead, Looking, CountersOK
  <2> QED
    BY <1>0, <2>1, <2>2 DEF ArgsOK
<1> QED
  BY <1>1, <1>2, <1>3, <1>4 DEF Next

(* What a step records of prefetches is of objects and of steps.           *)
LEMMA PrefetchesStep ==
    CountersOK /\ ComingOK /\ PrefetchesOK /\ [Next]_vars => PrefetchesOK'
<1> SUFFICES ASSUME CountersOK, ComingOK, PrefetchesOK, [Next]_vars PROVE PrefetchesOK'
  OBVIOUS
<1>1. CASE RunTrace
  <2>1. pending' = pending /\ issued' = <<>> /\ useful' = {} /\ wasted' = {}
    BY <1>1 DEF RunTrace
  <2>2. Prefetched' = {}
    BY <2>1 DEF Prefetched
  <2>3. IsFiniteSet(Prefetched')
    BY <2>2, FS_EmptySet, Zenon
  <2> QED
    BY <2>1, <2>2, <2>3 DEF PrefetchesOK
<1>2. CASE PlanEvent
  <2>1. /\ pending' = IF AllowPrefetch THEN Candidates ELSE {}
        /\ UNCHANGED <<issued, useful, wasted>>
    BY <1>2 DEF PlanEvent
  <2>2. pending' \subseteq Objects \ Prefetched
    BY <2>1, CandidatesTyped
  <2> QED
    BY <2>1, <2>2 DEF PrefetchesOK, Prefetched
<1>3. ASSUME NEW o \in Objects, Prefetch(o) PROVE PrefetchesOK'
  <2>1. /\ phase = "stage" /\ o \in pending /\ pending' = pending \ {o}
        /\ wasted' = wasted \union Squandered(Evicted(dram, Bytes[o], DramCapacity))
        /\ useful' = useful
        /\ \/ issued' = [p \in Prefetched \union {o} |->
                            IF p = o THEN Event.step ELSE issued[p]]
           \/ issued' = issued
    BY <1>3 DEF Prefetch
  <2>2. wasted' \subseteq Prefetched
    BY <2>1 DEF Squandered, PrefetchesOK
  <2>3. Event.step \in Nat
    BY <2>1, EventTyped
  <2>4. CASE issued' = [p \in Prefetched \union {o} |->
                           IF p = o THEN Event.step ELSE issued[p]]
    <3>1. Prefetched' = Prefetched \union {o}
      BY <2>4 DEF Prefetched
    <3>2. IsFiniteSet(Prefetched \union {o})
      BY FS_AddElement DEF PrefetchesOK
    <3>3. IsFiniteSet(Prefetched')
      BY <3>1, <3>2, Zenon
    <3>4. \A p \in Prefetched' : issued'[p] \in Nat
      BY <2>3, <2>4, <3>1 DEF PrefetchesOK
    <3> QED
      BY <2>1, <2>2, <3>1, <3>3, <3>4 DEF PrefetchesOK
  <2>5. CASE issued' = issued
    BY <2>1, <2>2, <2>5 DEF PrefetchesOK, Prefetched
  <2> QED
    BY <2>1, <2>4, <2>5
<1>4. CASE SramHit
  BY <1>4 DEF SramHit, NextEvent, PrefetchesOK, Prefetched
<1>5. CASE DramHit
  BY <1>5 DEF DramHit, NextEvent, PrefetchesOK, Prefetched, Squandered, Settles
<1>6. CASE FlashRead
  BY <1>6 DEF FlashRead, NextEvent, PrefetchesOK, Prefetched, Squandered
<1>7. CASE EndRun \/ UNCHANGED vars
  BY <1>7 DEF EndRun, vars, PrefetchesOK, Prefetched
<1> QED
  BY <1>1, <1>2, <1>3, <1>4, <1>5, <1>6, <1>7 DEF Next

(* The objects that making room evicts are finitely many.                  *)
LEMMA FinitelyEvicted ==
    ASSUME TiersOK, NEW o \in Objects
    PROVE  /\ IsFiniteSet(Evicted(dram, Bytes[o], DramCapacity))
           /\ IsFiniteSet(Evicted(sram, Bytes[o], SramCapacity))
  BY MakeRoomAccounted, BytesAssumption, SimAssumption DEF TiersOK, Exact

(* A step keeps every counter a number.                                    *)
LEMMA MetricsStep ==
    CountersOK /\ TiersOK /\ Types /\ [Next]_vars => metrics' \in [Counters -> Nat]
<1> SUFFICES ASSUME CountersOK, TiersOK, Types, [Next]_vars
             PROVE  metrics' \in [Counters -> Nat]
  OBVIOUS
<1>0. metrics \in [Counters -> Nat]
  BY DEF Types
<1>1. CASE RunTrace
  BY <1>1 DEF RunTrace, NoMetrics
<1>2. CASE PlanEvent
  BY <1>0, <1>2 DEF PlanEvent, Counters
<1>3. ASSUME NEW o \in Objects, Prefetch(o) PROVE metrics' \in [Counters -> Nat]
  <2> DEFINE charged == Charged(metrics, Evicted(dram, Bytes[o], DramCapacity))
  <2>1. charged \in [Counters -> Nat]
    BY <1>0, ChargedTyped, FinitelyEvicted
  <2>2. \/ metrics' = [charged EXCEPT !["prefetched_objects"] = @ + 1,
                                      !["sequential_flash_reads"] = @ + 1]
        \/ metrics' = charged
    BY <1>3 DEF Prefetch
  <2> HIDE DEF charged
  <2> QED
    BY <2>1, <2>2 DEF Counters
<1>4. CASE SramHit
  BY <1>0, <1>4 DEF SramHit, Counters
<1>5. CASE DramHit
  <2> DEFINE o == Event.object
             charged == Charged(metrics, Evicted(sram, Bytes[o], SramCapacity))
             room == MakesRoom(sram, Bytes[o], SramCapacity)
             hit == [charged EXCEPT !["dram_hits"] = @ + 1,
                                    !["sram_promotions"] = @ + (IF room THEN 1 ELSE 0)]
  <2>1. o \in Objects
    BY <1>5, EventTyped DEF DramHit, Looking
  <2>2. charged \in [Counters -> Nat]
    BY <1>0, <2>1, ChargedTyped, FinitelyEvicted
  <2>3. metrics' = Settled(hit, o)
    BY <1>5 DEF DramHit
  <2> HIDE DEF o, charged, room
  <2>4. hit \in [Counters -> Nat]
    BY <2>2 DEF Counters
  <2> HIDE DEF hit
  <2> QED
    BY <2>3, <2>4, SettledTyped
<1>6. CASE FlashRead
  <2> DEFINE o == Event.object
             charged == Charged(metrics, Evicted(dram, Bytes[o], DramCapacity))
  <2>1. o \in Objects
    BY <1>6, EventTyped DEF FlashRead, Looking
  <2>2. charged \in [Counters -> Nat]
    BY <1>0, <2>1, ChargedTyped, FinitelyEvicted
  <2>3. metrics' = CountedRead(charged, o)
    BY <1>6 DEF FlashRead
  <2> HIDE DEF o, charged
  <2> QED
    BY <2>2, <2>3 DEF CountedRead, ReadCounter, Counters
<1>7. CASE EndRun
  <2>1. Cardinality(Unsettled) \in Nat
    <3>1. Unsettled \in SUBSET Prefetched
      BY DEF Unsettled
    <3> QED
      BY <3>1, FS_Subset, FS_CardinalityType DEF Types, PrefetchesOK
  <2> QED
    BY <1>0, <1>7, <2>1 DEF EndRun, Counters
<1>8. CASE UNCHANGED vars
  BY <1>0, <1>8 DEF vars
<1> QED
  BY <1>1, <1>2, <1>3, <1>4, <1>5, <1>6, <1>7, <1>8 DEF Next

(* All that has been shown of a run so far.                                *)
RunOK == CountersOK /\ TiersOK /\ ComingOK /\ Types

(* All of it holds before the first run.                                   *)
LEMMA RunInit == Init => RunOK
<1> SUFFICES ASSUME Init PROVE RunOK
  OBVIOUS
<1>1. CountersOK /\ TiersOK
  BY CountersInit, TiersInit
<1>2. ComingOK
  BY DEF Init, ComingOK, Prefetched, Policies
<1>3. ArgsOK /\ metrics \in [Counters -> Nat]
  BY SimAssumption DEF Init, ArgsOK, NoMetrics
<1>4. Prefetched = {}
  BY DEF Init, Prefetched
<1>5. PrefetchesOK
  BY <1>4, FS_EmptySet DEF Init, PrefetchesOK
<1> QED
  BY <1>1, <1>2, <1>3, <1>5 DEF RunOK, Types

(* And every step keeps all of it.                                         *)
LEMMA RunStep == RunOK /\ [Next]_vars => RunOK'
  BY CountersStep, TiersStep, ComingStep, ArgsStep, PrefetchesStep, MetricsStep
     DEF RunOK, Types

(* The variables of the simulator keep their types in any sequence of runs.*)
THEOREM RunTypes == Spec => []TypeOK
<1>1. RunOK => TypeOK
  <2> SUFFICES ASSUME RunOK PROVE TypeOK
    OBVIOUS
  <2>1. sram \in Tier /\ dram \in Tier
    BY AccountedTier DEF RunOK, TiersOK, Exact
  <2>2. phase \in {"idle", "plan", "stage"} /\ (phase = "stage" => pos \in DOMAIN trace)
    BY DEF RunOK, CountersOK
  <2> QED
    BY <2>1, <2>2 DEF RunOK, Types, ArgsOK, PrefetchesOK, ComingOK, TypeOK
<1> QED
  BY <1>1, RunInit, RunStep, PTL DEF Spec

-----------------------------------------------------------------------------
(* The drift of DRAM *)

(* Before the first run nothing is under way, and the tiers are empty.     *)
ColdOK == runs = 0 => phase = "idle" /\ sram = EmptyTier /\ Drift(dram) = 0

DriftOK == runs = 1 => Drift(dram) <= Total(Prefetched)

(* One turn of the prefetch loop stages its object, which no turn of the   *)
(* run had staged, and DRAM drifts by at most its size; or skips it, for   *)
(* there is no room beside the bytes that DRAM lost track of.              *)
LEMMA PrefetchStages ==
    ASSUME RunOK, NEW o \in Objects, Prefetch(o)
    PROVE  /\ o \notin Prefetched /\ Event' = Event
           /\ Drift(dram) \in Nat
           /\ \/ /\ Prefetched' = Prefetched \union {o}
                 /\ Drift(dram') \in Drift(dram) .. Drift(dram) + Bytes[o]
              \/ /\ Prefetched' = Prefetched
                 /\ Drift(dram') = Drift(dram)
                 /\ Bytes[o] > DramCapacity - Drift(dram)
<1> DEFINE left == MakeRoom(dram, Bytes[o], DramCapacity)
           room == MakesRoom(dram, Bytes[o], DramCapacity)
<1>1. /\ o \in pending /\ UNCHANGED <<trace, pos>>
      /\ \/ /\ room /\ dram' = Add(left, o)
            /\ issued' = [p \in Prefetched \union {o} |->
                             IF p = o THEN Event.step ELSE issued[p]]
         \/ ~room /\ dram' = left /\ issued' = issued
  BY DEF Prefetch
<1>2. /\ Accounted(dram) /\ dram.bytes <= DramCapacity /\ DramCapacity \in Nat
      /\ pending \subseteq Objects \ Prefetched
  BY SimAssumption DEF RunOK, TiersOK, Types, PrefetchesOK
<1>3. /\ Drift(left) = Drift(dram)
      /\ ~room => Bytes[o] > DramCapacity - Drift(dram)
      /\ Drift(Add(left, o)) \in Drift(dram) .. Drift(dram) + Bytes[o]
  BY <1>2, Admission
<1> HIDE DEF left, room
<1>4. CASE room
  <2>1. Prefetched' = Prefetched \union {o}
    BY <1>1, <1>4 DEF Prefetched
  <2> QED
    BY <1>1, <1>2, <1>3, <1>4, <2>1 DEF Event, Accounted
<1>5. CASE ~room
  BY <1>1, <1>2, <1>3, <1>5 DEF Prefetched, Event, Accounted
<1> QED
  BY <1>4, <1>5

(* Looking an object up does not make DRAM drift.                          *)
LEMMA LookupKeepsDrift ==
    ASSUME RunOK, SramHit \/ DramHit \/ FlashRead
    PROVE  Drift(dram') = Drift(dram)
<1>1. Event.object \in Objects /\ Accounted(dram)
      /\ dram.bytes <= DramCapacity /\ DramCapacity \in Nat
  BY EventTyped, SimAssumption
     DEF RunOK, TiersOK, SramHit, DramHit, FlashRead, Looking
<1>2. CASE SramHit
  BY <1>2 DEF SramHit
<1>3. CASE DramHit
  BY <1>1, <1>3, TouchAccounted DEF DramHit
<1>4. CASE FlashRead
  BY <1>1, <1>4, Admission DEF FlashRead
<1> QED
  BY <1>2, <1>3, <1>4

(* Only staging makes DRAM drift, and it prefetches the object that it     *)
(* stages.                                                                 *)
LEMMA DriftStep == RunOK /\ ColdOK /\ DriftOK /\ [Next]_vars => (ColdOK /\ DriftOK)'
<1> SUFFICES ASSUME RunOK, ColdOK, DriftOK, [Next]_vars
             PROVE  /\ runs' = 0 => phase' = "idle" /\ sram' = EmptyTier /\ Drift(dram') = 0
                    /\ runs' = 1 => Drift(dram') <= Total(Prefetched')
  BY DEF ColdOK, DriftOK, Drift, Total
<1>0. /\ Prefetched \in SUBSET Objects /\ IsFiniteSet(Prefetched)
      /\ runs \in Nat /\ Drift(dram) \in Nat
  BY DEF RunOK, Types, PrefetchesOK, CountersOK, TiersOK, Accounted
<1>1. CASE RunTrace
  <2>1. runs' = runs + 1 /\ dram' = dram /\ issued' = <<>>
    BY <1>1 DEF RunTrace
  <2>2. Prefetched' = {}
    BY <2>1 DEF Prefetched
  <2>3. Total(Prefetched') = 0
    <3>1. Total({}) = 0
      BY SumEmpty DEF Total
    <3> QED
      BY <2>2, <3>1, Zenon
  <2> QED
    BY <1>0, <2>1, <2>3 DEF ColdOK
<1>2. ASSUME NEW o \in Objects, Prefetch(o)
      PROVE  runs' # 0 /\ (runs' = 1 => Drift(dram') <= Total(Prefetched'))
  <2>1. runs' = runs /\ runs # 0
    BY <1>2 DEF Prefetch, ColdOK
  <2>2. Bytes[o] \in Nat /\ Total(Prefetched) \in Nat
    BY <1>0, TotalAdds, BytesAssumption
  <2>3. CASE Prefetched' = Prefetched \union {o}
    <3>1. Total(Prefetched \union {o}) = Total(Prefetched) + Bytes[o]
      BY <1>0, <1>2, PrefetchStages, TotalAdds
    <3>2. Total(Prefetched') = Total(Prefetched) + Bytes[o]
      BY <2>3, <3>1, Zenon
    <3>3. Drift(dram') \in Drift(dram) .. Drift(dram) + Bytes[o]
      <4>1. o \notin Prefetched
        BY <1>2, PrefetchStages
      <4> QED
        BY <1>2, <2>3, <4>1, PrefetchStages
    <3> QED
      BY <1>0, <2>1, <2>2, <3>2, <3>3 DEF DriftOK
  <2>4. CASE Prefetched' # Prefetched \union {o}
    <3>1. Prefetched' = Prefetched /\ Drift(dram') = Drift(dram)
      BY <1>2, <2>4, PrefetchStages
    <3>2. Total(Prefetched') = Total(Prefetched)
      BY <3>1, Zenon
    <3> QED
      BY <2>1, <3>1, <3>2 DEF DriftOK
  <2> QED
    BY <2>3, <2>4
<1>3. CASE SramHit \/ DramHit \/ FlashRead
  <2>1. Drift(dram') = Drift(dram)
    BY <1>3, LookupKeepsDrift
  <2>2. runs # 0 /\ runs' = runs /\ issued' = issued
    BY <1>3 DEF SramHit, DramHit, FlashRead, NextEvent, Looking, ColdOK
  <2>3. Total(Prefetched') = Total(Prefetched)
    <3>1. Prefetched' = Prefetched
      BY <2>2 DEF Prefetched
    <3> QED
      BY <3>1, Zenon
  <2> QED
    BY <2>1, <2>2, <2>3 DEF DriftOK
<1>4. CASE PlanEvent \/ EndRun \/ UNCHANGED vars
  <2>1. /\ UNCHANGED <<sram, dram, runs, issued>>
        /\ phase' = phase \/ phase # "idle"
    BY <1>4 DEF PlanEvent, EndRun, vars
  <2>2. Drift(dram') = Drift(dram)
    BY <2>1
  <2>3. Total(Prefetched') = Total(Prefetched)
    <3>1. Prefetched' = Prefetched
      BY <2>1 DEF Prefetched
    <3> QED
      BY <3>1, Zenon
  <2> QED
    BY <2>1, <2>2, <2>3 DEF ColdOK, DriftOK
<1> QED
  BY <1>1, <1>2, <1>3, <1>4 DEF Next

(* Before the first run DRAM has not drifted.                              *)
LEMMA ColdInit == Init => ColdOK /\ DriftOK
  BY EmptyAccounted DEF Init, ColdOK, DriftOK

(* In any sequence of runs: DRAM is charged at least for what it holds, and*)
(* in the first run the excess is at most the size of the run's prefetches,*)
(* each of which can be charged for a second time.                         *)
THEOREM DriftComesFromPrefetches == Spec => []DriftIsPrefetched
<1>1. Init => RunOK /\ ColdOK /\ DriftOK
  BY RunInit, ColdInit
<1>2. RunOK /\ ColdOK /\ DriftOK /\ [Next]_vars => (RunOK /\ ColdOK /\ DriftOK)'
  BY RunStep, DriftStep
<1>3. RunOK /\ DriftOK => DriftIsPrefetched
  <2> SUFFICES ASSUME RunOK, DriftOK PROVE DriftIsPrefetched
    OBVIOUS
  <2>1. DramDrift = Drift(dram) /\ Drift(dram) \in Nat
    BY DEF RunOK, TiersOK, Accounted, DramDrift, Drift
  <2> QED
    BY <2>1 DEF DriftOK, DriftIsPrefetched
<1> QED
  BY <1>1, <1>2, <1>3, PTL DEF Spec

-----------------------------------------------------------------------------
(* What becomes of the prefetches *)

SettledCount(m) == m["useful_prefetches"] + m["wasted_prefetches"]

(* Until the run ends the counters of settled prefetches count the records *)
(* of them, of which an object may have two.                               *)
SettledOK ==
    /\ metrics["prefetched_objects"] = Cardinality(Prefetched)
    /\ phase # "idle" =>
          SettledCount(metrics) = Cardinality(useful) + Cardinality(wasted)
    /\ phase = "idle" =>
          SettledCount(metrics) \in Cardinality(Prefetched) .. 2 * Cardinality(Prefetched)

(* The records of a run are finite sets.                                   *)
LEMMA RecordsFinite ==
    ASSUME Types
    PROVE  /\ IsFiniteSet(useful) /\ Cardinality(useful) \in Nat
           /\ IsFiniteSet(wasted) /\ Cardinality(wasted) \in Nat
           /\ IsFiniteSet(Prefetched) /\ Cardinality(Prefetched) \in Nat
           /\ metrics["useful_prefetches"] \in Nat
           /\ metrics["wasted_prefetches"] \in Nat
           /\ metrics["prefetched_objects"] \in Nat
  BY FS_Subset, FS_CardinalityType DEF Types, PrefetchesOK, Counters

(* The waste that eviction charges is what it adds to the records of it.   *)
LEMMA WasteIsRecorded ==
    ASSUME Types, NEW S, IsFiniteSet(S)
    PROVE  /\ Charged(metrics, S) \in [Counters -> Nat]
           /\ Charged(metrics, S)["prefetched_objects"] = metrics["prefetched_objects"]
           /\ SettledCount(Charged(metrics, S)) - Cardinality(wasted \union Squandered(S)) =
                 SettledCount(metrics) - Cardinality(wasted)
<1> DEFINE more == Squandered(S)
           charged == Charged(metrics, S)
<1>1. metrics \in [Counters -> Nat]
  BY DEF Types
<1>2. /\ charged \in [Counters -> Nat]
      /\ IsFiniteSet(more)
      /\ charged["wasted_prefetches"] = metrics["wasted_prefetches"] + Cardinality(more)
      /\ charged["useful_prefetches"] = metrics["useful_prefetches"]
      /\ charged["prefetched_objects"] = metrics["prefetched_objects"]
  BY <1>1, ChargedTyped DEF Counters
<1>3. wasted \intersect more = {}
  BY DEF Squandered
<1>4. Cardinality(wasted \intersect more) = 0
  BY <1>3, FS_EmptySet, Zenon
<1> HIDE DEF more, charged
<1>5. Cardinality(wasted \union more) =
         Cardinality(wasted) + Cardinality(more) - Cardinality(wasted \intersect more)
  BY <1>2, RecordsFinite, FS_Union
<1>6. Cardinality(more) \in Nat
  BY <1>2, FS_CardinalityType
<1> QED
  BY <1>2, <1>4, <1>5, <1>6, RecordsFinite DEF SettledCount, more, charged

(* At the end of a run what is left is settled: then every prefetch has    *)
(* been settled, and twice if it has both records.                         *)
LEMMA AllSettled ==
    ASSUME Types
    PROVE  /\ Cardinality(Unsettled) \in Nat
           /\ Cardinality(useful) + Cardinality(wasted) + Cardinality(Unsettled)
                 \in Cardinality(Prefetched) .. 2 * Cardinality(Prefetched)
<1> DEFINE either == useful \union wasted
           both == useful \intersect wasted
           P == Prefetched
<1>1. either \in SUBSET P /\ both \in SUBSET P /\ P \ either = Unsettled
  BY DEF Types, PrefetchesOK, Unsettled
<1>2. /\ IsFiniteSet(P) /\ Cardinality(P) \in Nat
      /\ Cardinality(useful) \in Nat /\ Cardinality(wasted) \in Nat
  BY RecordsFinite
<1>3. Cardinality(either) = Cardinality(useful) + Cardinality(wasted) - Cardinality(both)
  BY RecordsFinite, FS_Union
<1> HIDE DEF either, both, P
<1>4. Cardinality(both) \in 0 .. Cardinality(P) /\ Cardinality(either) \in Nat
  BY <1>1, <1>2, FS_Subset, FS_CardinalityType
<1>5. Cardinality(P \ either) = Cardinality(P) - Cardinality(P \intersect either)
  BY <1>2, FS_Difference
<1>6. P \intersect either = either
  BY <1>1
<1>7. Cardinality(Unsettled) = Cardinality(P) - Cardinality(either)
  BY <1>1, <1>5, <1>6, Zenon
<1>8. Cardinality(Unsettled) \in Nat
  BY <1>1, <1>2, FS_Subset, FS_CardinalityType, FS_Difference
<1> QED
  BY <1>2, <1>3, <1>4, <1>7, <1>8 DEF P

(* A step that settles a prefetch records what it counts.                  *)
LEMMA SettledStep == RunOK /\ SettledOK /\ [Next]_vars => SettledOK'
<1> SUFFICES ASSUME RunOK, SettledOK, [Next]_vars
             PROVE  /\ metrics'["prefetched_objects"] = Cardinality(Prefetched')
                    /\ phase' # "idle" => SettledCount(metrics') =
                          Cardinality(useful') + Cardinality(wasted')
                    /\ phase' = "idle" => SettledCount(metrics') \in
                          Cardinality(Prefetched') .. 2 * Cardinality(Prefetched')
  BY DEF SettledOK, SettledCount
<1>0. Types /\ metrics \in [Counters -> Nat]
  BY DEF RunOK, Types
<1>a. /\ Cardinality(useful) \in Nat /\ Cardinality(wasted) \in Nat
      /\ Cardinality(Prefetched) \in Nat
      /\ IsFiniteSet(useful) /\ IsFiniteSet(Prefetched)
      /\ metrics["useful_prefetches"] \in Nat /\ metrics["wasted_prefetches"] \in Nat
      /\ SettledCount(metrics) \in Nat
  BY <1>0, RecordsFinite DEF SettledCount
<1>b. /\ Cardinality(useful') \in Nat /\ Cardinality(wasted') \in Nat
      /\ SettledCount(metrics') \in Nat
  <2>1. Types'
    BY RunStep DEF RunOK
  <2>2. /\ useful' \in SUBSET Prefetched' /\ wasted' \in SUBSET Prefetched'
        /\ IsFiniteSet(Prefetched') /\ metrics' \in [Counters -> Nat]
    BY <2>1 DEF Types, PrefetchesOK
  <2>3. /\ Cardinality(useful') \in Nat /\ Cardinality(wasted') \in Nat
    BY <2>2, FS_Subset, FS_CardinalityType
  <2>4. metrics'["useful_prefetches"] \in Nat /\ metrics'["wasted_prefetches"] \in Nat
    BY <2>2 DEF Counters
  <2> QED
    BY <2>3, <2>4 DEF SettledCount
<1>1. CASE RunTrace
  <2>1. /\ issued' = <<>> /\ useful' = {} /\ wasted' = {} /\ metrics' = NoMetrics
        /\ phase' = "plan"
    BY <1>1 DEF RunTrace
  <2>2. Prefetched' = {}
    BY <2>1 DEF Prefetched
  <2>3. /\ Cardinality(Prefetched') = 0 /\ Cardinality(useful') = 0
        /\ Cardinality(wasted') = 0
    BY <2>1, <2>2, FS_EmptySet, Zenon
  <2>4. metrics'["prefetched_objects"] = 0 /\ SettledCount(metrics') = 0
    BY <2>1 DEF NoMetrics, Counters, SettledCount
  <2> QED
    BY <2>1, <2>3, <2>4
<1>2. CASE PlanEvent \/ SramHit
  <2>1. /\ UNCHANGED <<issued, useful, wasted>>
        /\ phase # "idle" /\ phase' # "idle"
        /\ metrics'["prefetched_objects"] = metrics["prefetched_objects"]
        /\ SettledCount(metrics') = SettledCount(metrics)
    BY <1>0, <1>2 DEF PlanEvent, SramHit, Looking, NextEvent, Counters, SettledCount
  <2>2. Prefetched' = Prefetched
    BY <2>1 DEF Prefetched
  <2>3. Cardinality(Prefetched') = Cardinality(Prefetched)
    BY <2>2, Zenon
  <2> QED
    BY <2>1, <2>3 DEF SettledOK
<1>3. ASSUME NEW o \in Objects, Prefetch(o)
      PROVE  /\ phase' # "idle"
             /\ metrics'["prefetched_objects"] = Cardinality(Prefetched')
             /\ SettledCount(metrics') = Cardinality(useful') + Cardinality(wasted')
  <2> DEFINE gone == Evicted(dram, Bytes[o], DramCapacity)
             charged == Charged(metrics, gone)
  <2>1. /\ phase = "stage" /\ phase' = "stage" /\ useful' = useful /\ o \in pending
        /\ wasted' = wasted \union Squandered(gone)
        /\ \/ /\ issued' = [p \in Prefetched \union {o} |->
                               IF p = o THEN Event.step ELSE issued[p]]
              /\ metrics' = [charged EXCEPT !["prefetched_objects"] = @ + 1,
                                            !["sequential_flash_reads"] = @ + 1]
           \/ issued' = issued /\ metrics' = charged
    BY <1>3 DEF Prefetch
  <2>2. IsFiniteSet(gone)
    BY FinitelyEvicted DEF RunOK
  <2>3. /\ charged \in [Counters -> Nat]
        /\ charged["prefetched_objects"] = metrics["prefetched_objects"]
        /\ SettledCount(charged) - Cardinality(wasted \union Squandered(gone)) =
              SettledCount(metrics) - Cardinality(wasted)
    BY <1>0, <2>2, WasteIsRecorded
  <2>4. o \notin Prefetched
    BY <1>0, <2>1 DEF Types, PrefetchesOK
  <2>5. Cardinality(wasted') = Cardinality(wasted \union Squandered(gone))
    BY <2>1, Zenon
  <2> HIDE DEF charged, gone
  <2>6. SettledCount(charged) = Cardinality(useful) + Cardinality(wasted')
    <3>1. SettledCount(charged) \in Nat
      BY <2>3 DEF SettledCount, Counters
    <3> QED
      BY <1>a, <1>b, <2>1, <2>3, <2>5, <3>1 DEF SettledOK
  <2>7. CASE issued' = issued /\ metrics' = charged
    <3>1. Prefetched' = Prefetched
      BY <2>7 DEF Prefetched
    <3>2. Cardinality(Prefetched') = Cardinality(Prefetched)
      BY <3>1, Zenon
    <3> QED
      BY <2>1, <2>3, <2>6, <2>7, <3>2 DEF SettledOK
  <2>8. CASE ~(issued' = issued /\ metrics' = charged)
    <3>1. /\ Prefetched' = Prefetched \union {o}
          /\ metrics' = [charged EXCEPT !["prefetched_objects"] = @ + 1,
                                        !["sequential_flash_reads"] = @ + 1]
      BY <2>1, <2>8 DEF Prefetched
    <3>2. Cardinality(Prefetched \union {o}) = Cardinality(Prefetched) + 1
      BY <1>a, <2>4, FS_AddElement
    <3>3. Cardinality(Prefetched') = Cardinality(Prefetched) + 1
      BY <3>1, <3>2, Zenon
    <3>4. /\ metrics'["prefetched_objects"] = metrics["prefetched_objects"] + 1
          /\ SettledCount(metrics') = SettledCount(charged)
      BY <2>3, <3>1 DEF Counters, SettledCount
    <3> QED
      BY <2>1, <2>6, <3>3, <3>4 DEF SettledOK
  <2> QED
    BY <2>7, <2>8
<1>4. CASE DramHit \/ FlashRead
  <2>0. Event.object \in Objects /\ phase = "stage"
    BY <1>4, EventTyped DEF DramHit, FlashRead, Looking, RunOK
  <2>1. PICK S : /\ IsFiniteSet(S)
                 /\ wasted' = wasted \union Squandered(S)
                 /\ phase' # "idle" /\ issued' = issued
                 /\ \E hit : /\ hit \in [Counters -> Nat]
                             /\ SettledCount(hit) = SettledCount(Charged(metrics, S))
                             /\ hit["prefetched_objects"] = metrics["prefetched_objects"]
                             /\ \/ metrics' = hit /\ useful' = useful
                                \/ /\ metrics' = Settled(hit, Event.object)
                                   /\ useful' = useful \union
                                        (IF Settles(Event.object) THEN {Event.object} ELSE {})
    <3>1. CASE DramHit
      <4> DEFINE o == Event.object
                 gone == Evicted(sram, Bytes[o], SramCapacity)
                 charged == Charged(metrics, gone)
                 room == MakesRoom(sram, Bytes[o], SramCapacity)
                 hit == [charged EXCEPT !["dram_hits"] = @ + 1,
                                        !["sram_promotions"] = @ + (IF room THEN 1 ELSE 0)]
      <4>1. IsFiniteSet(gone)
        BY <2>0, FinitelyEvicted DEF RunOK
      <4>2. /\ charged \in [Counters -> Nat]
            /\ charged["prefetched_objects"] = metrics["prefetched_objects"]
        BY <1>0, <4>1, WasteIsRecorded
      <4>3. /\ metrics' = Settled(hit, o) /\ wasted' = wasted \union Squandered(gone)
            /\ useful' = useful \union (IF Settles(o) THEN {o} ELSE {})
            /\ phase' # "idle" /\ issued' = issued
        BY <3>1 DEF DramHit, NextEvent
      <4> HIDE DEF room, charged
      <4>4. /\ hit \in [Counters -> Nat]
            /\ SettledCount(hit) = SettledCount(charged)
            /\ hit["prefetched_objects"] = metrics["prefetched_objects"]
        BY <4>2 DEF Counters, SettledCount
      <4> HIDE DEF hit
      <4> QED
        BY <4>1, <4>3, <4>4 DEF charged
    <3>2. CASE FlashRead
      <4> DEFINE o == Event.object
                 gone == Evicted(dram, Bytes[o], DramCapacity)
                 charged == Charged(metrics, gone)
      <4>1. IsFiniteSet(gone)
        BY <2>0, FinitelyEvicted DEF RunOK
      <4>2. /\ charged \in [Counters -> Nat]
            /\ charged["prefetched_objects"] = metrics["prefetched_objects"]
        BY <1>0, <4>1, WasteIsRecorded
      <4>3. /\ metrics' = CountedRead(charged, o)
            /\ wasted' = wasted \union Squandered(gone)
            /\ useful' = useful /\ phase' # "idle" /\ issued' = issued
        BY <3>2 DEF FlashRead, NextEvent
      <4> HIDE DEF charged
      <4>4. /\ metrics' \in [Counters -> Nat]
            /\ SettledCount(metrics') = SettledCount(charged)
            /\ metrics'["prefetched_objects"] = metrics["prefetched_objects"]
        BY <4>2, <4>3 DEF Counters, SettledCount, CountedRead, ReadCounter
      <4> QED
        BY <4>1, <4>3, <4>4 DEF charged
    <3> QED
      BY <1>4, <3>1, <3>2
  <2>2. PICK hit : /\ hit \in [Counters -> Nat]
                   /\ SettledCount(hit) = SettledCount(Charged(metrics, S))
                   /\ hit["prefetched_objects"] = metrics["prefetched_objects"]
                   /\ \/ metrics' = hit /\ useful' = useful
                      \/ /\ metrics' = Settled(hit, Event.object)
                         /\ useful' = useful \union
                              (IF Settles(Event.object) THEN {Event.object} ELSE {})
    BY <2>1
  <2>3. SettledCount(hit) - Cardinality(wasted \union Squandered(S)) =
           SettledCount(metrics) - Cardinality(wasted)
    BY <1>0, <2>1, <2>2, WasteIsRecorded
  <2>4. Cardinality(wasted') = Cardinality(wasted \union Squandered(S))
    BY <2>1, Zenon
  <2>5. SettledCount(hit) \in Nat
    BY <2>2 DEF SettledCount, Counters
  <2>6. SettledCount(hit) = Cardinality(useful) + Cardinality(wasted')
    BY <1>a, <1>b, <2>0, <2>3, <2>4, <2>5 DEF SettledOK
  <2>7. metrics'["prefetched_objects"] = metrics["prefetched_objects"]
    BY <2>2, SettledTyped DEF Counters
  <2>8. SettledCount(metrics') - Cardinality(useful') = SettledCount(hit) - Cardinality(useful)
    <3>1. CASE metrics' = hit /\ useful' = useful
      BY <3>1
    <3>2. CASE ~(metrics' = hit /\ useful' = useful)
      <4>1. /\ metrics' = Settled(hit, Event.object)
            /\ useful' = useful \union (IF Settles(Event.object) THEN {Event.object} ELSE {})
        BY <2>2, <3>2
      <4>2. SettledCount(metrics') =
               SettledCount(hit) + (IF Settles(Event.object) THEN 1 ELSE 0)
        BY <2>2, <4>1, SettledTyped DEF SettledCount
      <4>3. CASE Settles(Event.object)
        <5>1. useful' = useful \union {Event.object} /\ Event.object \notin useful
          BY <4>1, <4>3 DEF Settles
        <5>2. Cardinality(useful \union {Event.object}) = Cardinality(useful) + 1
          BY <1>a, <5>1, FS_AddElement
        <5>3. Cardinality(useful') = Cardinality(useful) + 1
          BY <5>1, <5>2, Zenon
        <5> QED
          BY <1>a, <2>5, <4>2, <4>3, <5>3
      <4>4. CASE ~Settles(Event.object)
        <5>1. useful' = useful
          BY <4>1, <4>4
        <5>2. Cardinality(useful') = Cardinality(useful)
          BY <5>1, Zenon
        <5> QED
          BY <1>a, <2>5, <4>2, <4>4, <5>2
      <4> QED
        BY <4>3, <4>4
    <3> QED
      BY <3>1, <3>2
  <2>9. Cardinality(Prefetched') = Cardinality(Prefetched)
    <3>1. Prefetched' = Prefetched
      BY <2>1 DEF Prefetched
    <3> QED
      BY <3>1, Zenon
  <2>10. SettledCount(metrics') = Cardinality(useful') + Cardinality(wasted')
    BY <1>a, <1>b, <2>5, <2>6, <2>8
  <2> QED
    BY <2>1, <2>7, <2>9, <2>10 DEF SettledOK
<1>5. CASE EndRun
  <2>1. /\ phase = "plan" /\ phase' = "idle" /\ issued' = issued
        /\ metrics' = [metrics EXCEPT !["wasted_prefetches"] = @ + Cardinality(Unsettled)]
    BY <1>5 DEF EndRun
  <2>2. /\ Cardinality(Unsettled) \in Nat
        /\ Cardinality(useful) + Cardinality(wasted) + Cardinality(Unsettled)
              \in Cardinality(Prefetched) .. 2 * Cardinality(Prefetched)
    BY <1>0, AllSettled
  <2>3. /\ metrics'["prefetched_objects"] = metrics["prefetched_objects"]
        /\ SettledCount(metrics') = SettledCount(metrics) + Cardinality(Unsettled)
    BY <1>0, <1>a, <2>1, <2>2 DEF Counters, SettledCount
  <2>4. Cardinality(Prefetched') = Cardinality(Prefetched)
    <3>1. Prefetched' = Prefetched
      BY <2>1 DEF Prefetched
    <3> QED
      BY <3>1, Zenon
  <2> QED
    BY <1>a, <2>1, <2>2, <2>3, <2>4 DEF SettledOK
<1>6. CASE UNCHANGED vars
  <2>1. UNCHANGED <<issued, useful, wasted, metrics, phase>>
    BY <1>6 DEF vars
  <2>2. Prefetched' = Prefetched
    BY <2>1 DEF Prefetched
  <2>3. Cardinality(Prefetched') = Cardinality(Prefetched)
    BY <2>2, Zenon
  <2> QED
    BY <2>1, <2>3 DEF SettledOK
<1> QED
  BY <1>1, <1>2, <1>3, <1>4, <1>5, <1>6 DEF Next

(* In any sequence of runs, with any policy: what a finished run prefetched*)
(* it settled, each object at least once and at most twice.                *)
THEOREM PrefetchesAreSettled == Spec => []PrefetchesSettled
<1>1. Init => RunOK /\ SettledOK
  <2> SUFFICES ASSUME Init PROVE SettledOK
    BY RunInit
  <2>1. Prefetched = {} /\ phase = "idle" /\ metrics = NoMetrics
    BY DEF Init, Prefetched
  <2>2. Cardinality(Prefetched) = 0
    BY <2>1, FS_EmptySet, Zenon
  <2> QED
    BY <2>1, <2>2 DEF SettledOK, SettledCount, NoMetrics, Counters
<1>2. RunOK /\ SettledOK /\ [Next]_vars => (RunOK /\ SettledOK)'
  BY RunStep, SettledStep
<1>3. SettledOK => PrefetchesSettled
  BY DEF SettledOK, SettledCount, PrefetchesSettled
<1> QED
  BY <1>1, <1>2, <1>3, PTL DEF Spec

-----------------------------------------------------------------------------
(* The eviction order of SRAM *)

Recency == [o \in Objects |-> LastAccess(o)]

LruOK == runs = 1 => Sorted(sram, Recency)

(* The accesses of an object that a run has made are before its position.  *)
LEMMA LastAccessBefore ==
    ASSUME CountersOK, NEW o
    PROVE  LastAccess(o) \in Nat /\ LastAccess(o) < pos
<1> DEFINE S == {0} \union {i \in DOMAIN trace : i < pos /\ trace[i].object = o}
<1>1. DOMAIN trace \subseteq Nat /\ pos \in Nat \ {0}
  BY DEF CountersOK
<1>2. S \in SUBSET Nat /\ S # {} /\ \A i \in S : i <= pos - 1
  BY <1>1
<1>3. pos - 1 \in Nat
  BY <1>1
<1> HIDE DEF S
<1>4. Max(S) \in S
  BY <1>2, <1>3, MaxIsGreatest
<1>5. LastAccess(o) = Max(S)
  BY DEF LastAccess, S
<1>6. LastAccess(o) \in Nat /\ LastAccess(o) <= pos - 1
  BY <1>2, <1>4, <1>5, Zenon
<1> QED
  BY <1>1, <1>6

(* Looking an object up makes it the one accessed last, and changes        *)
(* nothing about the others.                                               *)
LEMMA LookupIsAccess ==
    ASSUME CountersOK, phase = "stage", NextEvent, NEW o
    PROVE  LastAccess(o)' = IF o = Event.object THEN pos ELSE LastAccess(o)
<1> DEFINE S == {0} \union {i \in DOMAIN trace : i < pos /\ trace[i].object = o}
           T == {0} \union {i \in DOMAIN trace : i < pos + 1 /\ trace[i].object = o}
<1>1. DOMAIN trace \subseteq Nat /\ pos \in DOMAIN trace /\ pos \in Nat
  BY DEF CountersOK
<1>2. LastAccess(o) = Max(S)
  BY DEF LastAccess
<1>3. LastAccess(o)' = Max(T)
  <2>1. pos' = pos + 1 /\ trace' = trace
    BY DEF NextEvent
  <2> QED
    BY <2>1, Zenon DEF LastAccess
<1>4. CASE o = Event.object
  <2>1. T \in SUBSET Nat /\ T # {} /\ pos \in T /\ \A i \in T : i <= pos
    BY <1>1, <1>4 DEF Event
  <2> HIDE DEF T
  <2>2. Max(T) \in T /\ pos <= Max(T)
    BY <1>1, <2>1, MaxIsGreatest
  <2>3. Max(T) \in Nat /\ Max(T) <= pos
    BY <2>1, <2>2, Zenon
  <2>4. Max(T) = pos
    BY <1>1, <2>2, <2>3
  <2> QED
    BY <1>3, <1>4, <2>4
<1>5. CASE o # Event.object
  <2>1. T = S
    BY <1>1, <1>5 DEF Event
  <2> QED
    BY <1>2, <1>3, <1>5, <2>1, Zenon
<1> QED
  BY <1>4, <1>5

(* A step of the first run keeps SRAM in the order of the last accesses.   *)
LEMMA LruStep == RunOK /\ ColdOK /\ LruOK /\ [Next]_vars => LruOK'
<1> SUFFICES ASSUME RunOK, ColdOK, LruOK, [Next]_vars, runs' = 1
             PROVE  Sorted(sram', Recency')
  BY DEF LruOK, Sorted
<1>0. CountersOK /\ Exact(sram) /\ SramCapacity \in Nat /\ sram.bytes <= SramCapacity
  BY SimAssumption DEF RunOK, TiersOK
<1>a. /\ sram.order \in Seq(Objects) /\ Len(sram.order) \in Nat
      /\ sram.resident \subseteq Objects
      /\ \A i \in 1 .. Len(sram.order) :
            sram.order[i] \in Objects /\ sram.order[i] \in sram.resident
  BY <1>0 DEF Exact, Accounted, Sound
<1>1. CASE RunTrace
  <2>1. runs = 0 /\ sram' = sram
    BY <1>0, <1>1 DEF RunTrace, CountersOK
  <2>2. Len(sram'.order) = 0
    BY <2>1 DEF ColdOK, EmptyTier
  <2> QED
    BY <2>2 DEF Sorted
<1>2. CASE PlanEvent \/ (\E o \in Objects : Prefetch(o)) \/ EndRun \/ UNCHANGED vars
  <2>1. UNCHANGED <<sram, trace, pos, runs>>
    BY <1>2 DEF PlanEvent, Prefetch, EndRun, vars
  <2>2. Recency' = Recency
    BY <2>1 DEF Recency, LastAccess
  <2> QED
    BY <2>1, <2>2 DEF LruOK, Sorted
<1>3. CASE SramHit \/ DramHit \/ FlashRead
  <2> DEFINE o == Event.object
             key == Recency'
  <2>1. phase = "stage" /\ NextEvent /\ runs = 1
    BY <1>3 DEF SramHit, DramHit, FlashRead, Looking, NextEvent
  <2>2. o \in Objects
    BY <1>0, <2>1, EventTyped
  <2>3. /\ \A p \in Objects \ {o} : key[p] = Recency[p] /\ key[p] < key[o]
    <3>1. \A p \in Objects : key[p] = LastAccess(p)' /\ Recency[p] = LastAccess(p)
      BY DEF Recency
    <3>2. \A p \in Objects : key[p] = IF p = o THEN pos ELSE LastAccess(p)
      BY <1>0, <2>1, <3>1, LookupIsAccess
    <3>3. \A p \in Objects : LastAccess(p) < pos
      BY <1>0, LastAccessBefore
    <3> QED
      BY <2>2, <3>1, <3>2, <3>3
  <2>4. Sorted(sram, Recency)
    BY <2>1 DEF LruOK
  <2> HIDE DEF o, key
  <2>5. SortedBut(sram, key, o)
    BY <1>a, <2>3, <2>4 DEF SortedBut, Sorted
  <2>6. CASE SramHit
    <3>1. sram' = Touch(sram, o) /\ o \in sram.resident
      BY <2>6 DEF SramHit, o
    <3>2. Newest(sram, key, o)
      BY <1>a, <2>3 DEF Newest
    <3>3. Sorted(Touch(sram, o), key)
      BY <1>0, <2>5, <3>1, <3>2, TouchSorted
    <3> QED
      BY <3>1, <3>3 DEF key
  <2>7. CASE DramHit
    <3> DEFINE left == MakeRoom(sram, Bytes[o], SramCapacity)
               room == MakesRoom(sram, Bytes[o], SramCapacity)
    <3>1. sram' = (IF room THEN Add(left, o) ELSE left) /\ o \notin sram.resident
      BY <2>7 DEF DramHit, o
    <3>2. Bytes[o] \in Nat
      BY <2>2, BytesAssumption
    <3>3. Exact(left) /\ left.resident \subseteq sram.resident
      BY <1>0, <3>2, MakeRoomExact, MakeRoomAccounted DEF Exact
    <3>4. SortedBut(left, key, o)
      BY <1>0, <2>5, MakeRoomSorted DEF Exact, Accounted
    <3> HIDE DEF left, room
    <3>5. Newest(left, key, o)
      BY <1>a, <2>3, <3>3 DEF Newest
    <3>6. Sorted(Add(left, o), key)
      BY <2>2, <3>1, <3>3, <3>4, <3>5, AddSorted
    <3>7. Sorted(left, key)
      BY <3>1, <3>3, <3>4 DEF Sorted, SortedBut, Exact
    <3> QED
      BY <3>1, <3>6, <3>7 DEF key
  <2>8. CASE FlashRead
    <3>1. sram' = sram /\ o \notin sram.resident
      BY <2>8 DEF FlashRead, o
    <3>2. Sorted(sram, key)
      BY <1>a, <2>5, <3>1 DEF Sorted, SortedBut
    <3> QED
      BY <3>1, <3>2 DEF key
  <2> QED
    BY <1>3, <2>6, <2>7, <2>8
<1> QED
  BY <1>1, <1>2, <1>3 DEF Next

(* In the first run SRAM holds its objects in the order of their last      *)
(* accesses, so that what it evicts is the least recently used.            *)
THEOREM SramEvictsLru == Spec => []SramIsLru
<1>1. Init => RunOK /\ ColdOK /\ DriftOK /\ LruOK
  BY RunInit, ColdInit DEF Init, LruOK
<1>2. RunOK /\ ColdOK /\ DriftOK /\ LruOK /\ [Next]_vars
         => (RunOK /\ ColdOK /\ DriftOK /\ LruOK)'
  BY RunStep, DriftStep, LruStep
<1>3. RunOK /\ LruOK => SramIsLru
  <2> SUFFICES ASSUME RunOK, LruOK, runs = 1,
                      NEW i \in DOMAIN sram.order, NEW j \in DOMAIN sram.order, i < j
               PROVE  LastAccess(sram.order[i]) < LastAccess(sram.order[j])
    BY DEF SramIsLru
  <2>1. sram.order \in Seq(Objects)
    BY DEF RunOK, TiersOK, Exact, Accounted, Sound
  <2>2. i \in 1 .. Len(sram.order) /\ j \in 1 .. Len(sram.order)
    BY <2>1
  <2>3. Recency[sram.order[i]] < Recency[sram.order[j]]
    BY <2>2 DEF LruOK, Sorted
  <2>4. sram.order[i] \in Objects /\ sram.order[j] \in Objects
    BY <2>1, <2>2
  <2> QED
    BY <2>3, <2>4 DEF Recency
<1> QED
  BY <1>1, <1>2, <1>3, PTL DEF Spec

-----------------------------------------------------------------------------
(* The misses of a run that prefetches everything it sees coming *)

\* The runs that MissesWerePrefetched is about.
Streaming ==
    /\ trace \in Streams
    /\ mode = "stream_to_scratchpad" /\ policy \in {"oracle", "predictive"}

\* The object of the event i has been prefetched, or there is no room for it.
Covered(i) ==
    \/ trace[i].object \in Prefetched
    \/ Bytes[trace[i].object] > DramCapacity - Drift(dram)

(* An event is covered when the run comes to it: it was in the window of   *)
(* the event before, whose prefetches are staged before its own lookup.    *)
MissOK ==
    Streaming =>
        /\ phase # "idle" /\ pos > 1 /\ pos \in DOMAIN trace => Covered(pos)
        /\ phase = "stage" /\ pos + 1 \in DOMAIN trace =>
              Covered(pos + 1) \/ trace[pos + 1].object \in pending

(* With a lookahead, the next event of a stream is in the window.          *)
LEMMA NextIsInWindow ==
    ASSUME CountersOK, Streaming, Lookahead > 0,
           pos \in DOMAIN trace, pos + 1 \in DOMAIN trace
    PROVE  trace[pos + 1].object \in Window
<1>1. /\ pos \in Nat /\ Len(trace) \in Nat /\ DOMAIN trace = 1 .. Len(trace)
      /\ Lookahead \in Nat
  BY SimAssumption DEF CountersOK
<1>2. \A i \in DOMAIN trace : trace[i].step = i - 1
  BY StreamsAssumption DEF Streaming
<1>3. Event.step = pos - 1 /\ trace[pos + 1].step = pos
  BY <1>1, <1>2 DEF Event
<1>4. Ahead(pos + 1) /\ trace[pos + 1].step <= Event.step + Lookahead
  BY <1>1, <1>3 DEF Ahead
<1>5. LastOfStep(pos + 1)
  BY <1>1, <1>2 DEF LastOfStep
<1>6. trace[pos + 1].step < Len(trace)
  BY <1>1, <1>3
<1> QED
  BY <1>4, <1>5, <1>6 DEF Window

(* So the plan of an event stages it, unless the run has done so before.   *)
LEMMA NextIsPlanned ==
    ASSUME CountersOK, Streaming, Lookahead > 0,
           pos \in DOMAIN trace, pos + 1 \in DOMAIN trace
    PROVE  AllowPrefetch /\ trace[pos + 1].object \in Candidates \union Prefetched
<1>1. Plan(policy, Event.object, Window, history) = Window
  BY DEF Streaming, Plan, OraclePlan, PredictivePlan
<1> QED
  BY <1>1, NextIsInWindow DEF Candidates, AllowPrefetch, Streaming

(* What a run covers stays covered: no record of a prefetch is dropped, and*)
(* no byte DRAM lost track of is found again.                              *)
LEMMA StaysCovered ==
    ASSUME RunOK, NEW i \in DOMAIN trace, Covered(i), trace' = trace,
           Prefetched \subseteq Prefetched', Drift(dram') \in Nat,
           Drift(dram) <= Drift(dram')
    PROVE  Covered(i)'
<1>1. trace[i].object \in Objects
  <2>1. trace \in Seq(Events)
    BY DEF RunOK, CountersOK
  <2>2. trace[i] \in Events
    BY <2>1
  <2> QED
    BY <2>2 DEF Events
<1>2. /\ Drift(dram) \in Nat /\ DramCapacity \in Nat /\ Bytes[trace[i].object] \in Nat
  BY <1>1, BytesAssumption, SimAssumption DEF RunOK, TiersOK, Accounted
<1>3. Drift(dram)' = Drift(dram')
  BY DEF Drift, Total
<1> QED
  BY <1>2, <1>3 DEF Covered

(* A step covers the next event before the run comes to it.                *)
LEMMA MissStep ==
    ASSUME Lookahead > 0, RunOK, MissOK, [Next]_vars
    PROVE  MissOK'
<1> USE DEF MissOK
<1>0. /\ CountersOK /\ pos \in Nat \ {0} /\ Drift(dram) \in Nat
      /\ Len(trace) \in Nat /\ DOMAIN trace = 1 .. Len(trace)
  BY DEF RunOK, CountersOK, TiersOK, Accounted
<1>1. CASE RunTrace
  <2>1. pos' = 1 /\ phase' = "plan"
    BY <1>1 DEF RunTrace
  <2> QED
    BY <2>1
<1>2. CASE PlanEvent
  <2>1. /\ UNCHANGED <<trace, mode, policy, pos, dram, issued>>
        /\ phase = "plan" /\ pos \in DOMAIN trace
        /\ pending' = IF AllowPrefetch THEN Candidates ELSE {}
    BY <1>2 DEF PlanEvent
  <2>2. /\ \A i : Covered(i)' <=> Covered(i)
        /\ Streaming' <=> Streaming
    BY <2>1 DEF Covered, Streaming, Prefetched, Drift, Total
  <2>3. Streaming /\ pos + 1 \in DOMAIN trace =>
           Covered(pos + 1) \/ trace[pos + 1].object \in pending'
    BY <1>0, <2>1, NextIsPlanned DEF Covered
  <2> QED
    BY <2>1, <2>2, <2>3
<1>3. ASSUME NEW o \in Objects, Prefetch(o) PROVE MissOK'
  <2>1. /\ UNCHANGED <<trace, mode, policy, pos, phase>> /\ phase = "stage"
        /\ pending' = pending \ {o}
    BY <1>3 DEF Prefetch
  <2>2. /\ Prefetched \subseteq Prefetched' /\ Drift(dram') \in Nat
        /\ Drift(dram) <= Drift(dram')
        /\ \/ o \in Prefetched'
           \/ Drift(dram') = Drift(dram) /\ Bytes[o] > DramCapacity - Drift(dram)
    <3>1. Bytes[o] \in Nat
      BY BytesAssumption
    <3> QED
      BY <1>0, <1>3, <3>1, PrefetchStages
  <2>3. \A i \in DOMAIN trace : Covered(i) => Covered(i)'
    BY <2>1, <2>2, StaysCovered
  <2>4. \A i \in DOMAIN trace : trace[i].object = o => Covered(i)'
    <3>1. Drift(dram)' = Drift(dram')
      BY DEF Drift, Total
    <3> QED
      BY <2>1, <2>2, <3>1 DEF Covered
  <2>5. Streaming' <=> Streaming
    BY <2>1 DEF Streaming
  <2> QED
    BY <2>1, <2>3, <2>4, <2>5
<1>4. CASE SramHit \/ DramHit \/ FlashRead
  <2>1. /\ UNCHANGED <<trace, mode, policy, issued>> /\ phase = "stage"
        /\ pos' = pos + 1 /\ phase' = "plan" /\ pending = {}
    BY <1>4 DEF SramHit, DramHit, FlashRead, Looking, NextEvent
  <2>2. Drift(dram') = Drift(dram)
    BY <1>4, LookupKeepsDrift
  <2>3. Prefetched' = Prefetched /\ (Streaming' <=> Streaming)
    BY <2>1 DEF Streaming, Prefetched
  <2>4. \A i \in DOMAIN trace : Covered(i) => Covered(i)'
    BY <1>0, <2>1, <2>2, <2>3, StaysCovered
  <2> QED
    BY <1>0, <2>1, <2>3, <2>4
<1>5. CASE EndRun
  BY <1>5 DEF EndRun
<1>6. CASE UNCHANGED vars
  BY <1>6 DEF vars, Covered, Streaming, Prefetched, Drift, Total
<1> QED
  BY <1>1, <1>2, <1>3, <1>4, <1>5, <1>6 DEF Next

(* With any lookahead, over a trace of one event a step, a run that        *)
(* prefetches what it sees coming reads from flash on the critical path    *)
(* only at its first event, for what it had prefetched and evicted, and    *)
(* for what no longer fits beside the bytes DRAM has lost track of.        *)
THEOREM OnlyPrefetchedMissed ==
    ASSUME Lookahead > 0
    PROVE  Spec => []MissesWerePrefetched
<1>1. Init => RunOK /\ MissOK
  BY RunInit DEF Init, MissOK
<1>2. RunOK /\ MissOK /\ [Next]_vars => (RunOK /\ MissOK)'
  BY RunStep, MissStep
<1>3. RunOK /\ MissOK => MissesWerePrefetched
  <2> SUFFICES ASSUME RunOK, MissOK, Streaming, phase = "stage", pos > 1
               PROVE  \/ Event.object \in Prefetched
                      \/ Bytes[Event.object] > DramCapacity - DramDrift
    BY DEF MissesWerePrefetched, Streaming, Looking
  <2>1. pos \in DOMAIN trace
    BY DEF RunOK, CountersOK
  <2> QED
    BY <2>1 DEF MissOK, Covered, Event, Drift, DramDrift
<1> QED
  BY <1>1, <1>2, <1>3, PTL DEF Spec
=============================================================================
