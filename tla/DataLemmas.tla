---------------------------- MODULE DataLemmas -----------------------------
(***************************************************************************)
(* Facts about queues, numbers and sums that the proofs about several      *)
(* components share.  The library's induction theorems take the predicate  *)
(* as a parameter, which the provers cannot instantiate; EveryNatural is   *)
(* induction for a set of naturals instead, and is enough to prove that    *)
(* the folds of the community modules add up what they are given.          *)
(***************************************************************************)
EXTENDS Integers, Sequences, SequencesExt, SequenceTheorems, FiniteSetTheorems, TLAPS

(* Queues *)

(* Taking the i-th completion out of the queue keeps the others in order.  *)
LEMMA RemoveAtLemma ==
    ASSUME NEW S, NEW s \in Seq(S), NEW i \in 1 .. Len(s)
    PROVE  /\ RemoveAt(s, i) \in Seq(S)
           /\ Len(RemoveAt(s, i)) = Len(s) - 1
           /\ \A j \in 1 .. Len(s) - 1 :
                RemoveAt(s, i)[j] = IF j < i THEN s[j] ELSE s[j + 1]
<1> DEFINE left == SubSeq(s, 1, i - 1)
           right == SubSeq(s, i + 1, Len(s))
<1>1. /\ left \in Seq(S) /\ Len(left) = i - 1
      /\ \A j \in 1 .. i - 1 : left[j] = s[j]
  OBVIOUS
<1>2. /\ right \in Seq(S) /\ Len(right) = Len(s) - i
      /\ \A j \in 1 .. Len(s) - i : right[j] = s[i + j]
  OBVIOUS
<1>3. RemoveAt(s, i) = left \o right
  BY DEF RemoveAt
<1> HIDE DEF left, right
<1>4. /\ left \o right \in Seq(S)
      /\ Len(left \o right) = Len(s) - 1
      /\ \A j \in 1 .. Len(s) - 1 :
            (left \o right)[j] = IF j <= Len(left) THEN left[j] ELSE right[j - Len(left)]
  <2>1. Len(left) + Len(right) = Len(s) - 1
    BY <1>1, <1>2
  <2>2. /\ left \o right \in Seq(S)
        /\ Len(left \o right) = Len(left) + Len(right)
        /\ \A j \in 1 .. Len(left) + Len(right) :
              (left \o right)[j] = IF j <= Len(left) THEN left[j] ELSE right[j - Len(left)]
    BY <1>1, <1>2, ConcatProperties
  <2> QED
    BY <2>1, <2>2
<1> SUFFICES ASSUME NEW j \in 1 .. Len(s) - 1
             PROVE  RemoveAt(s, i)[j] = IF j < i THEN s[j] ELSE s[j + 1]
  BY <1>3, <1>4
<1>5. CASE j < i
  BY <1>1, <1>3, <1>4, <1>5
<1>6. CASE ~(j < i)
  <2>1. j - (i - 1) \in 1 .. Len(s) - i /\ i + (j - (i - 1)) = j + 1
    BY <1>6
  <2> QED
    BY <1>1, <1>2, <1>3, <1>4, <1>6, <2>1
<1> QED
  BY <1>5, <1>6

(* The positions of a queue that hold one of the elements of D.            *)
Places(s, D) == {n \in DOMAIN s : s[n] \in D}

(* They are finitely many.                                                 *)
LEMMA PlacesFinite ==
    ASSUME NEW S, NEW s \in Seq(S), NEW D
    PROVE  IsFiniteSet(Places(s, D)) /\ Cardinality(Places(s, D)) \in Nat
<1>1. DOMAIN s = 1 .. Len(s) /\ Len(s) \in Nat
  OBVIOUS
<1>2. IsFiniteSet(DOMAIN s)
  BY <1>1, FS_Interval
<1>3. Places(s, D) \in SUBSET DOMAIN s
  BY DEF Places
<1> QED
  BY <1>2, <1>3, FS_Subset, FS_CardinalityType

(* Putting an element at the end of a queue adds its place.                *)
LEMMA CountAppend ==
    ASSUME NEW S, NEW s \in Seq(S), NEW e \in S, NEW D
    PROVE  Cardinality(Places(Append(s, e), D)) =
              Cardinality(Places(s, D)) + (IF e \in D THEN 1 ELSE 0)
<1> DEFINE t == Append(s, e)
           P == Places(s, D)
           k == Len(s) + 1
<1>1. /\ DOMAIN s = 1 .. Len(s) /\ Len(s) \in Nat
      /\ DOMAIN t = 1 .. Len(s) + 1 /\ t[k] = e
      /\ \A n \in 1 .. Len(s) : t[n] = s[n]
  OBVIOUS
<1>2. IsFiniteSet(P) /\ Cardinality(P) \in Nat
  BY PlacesFinite
<1>p. k \notin P
  BY <1>1 DEF Places
<1> HIDE DEF t
<1>3. Places(t, D) = IF e \in D THEN P \union {k} ELSE P
  BY <1>1 DEF Places
<1> HIDE DEF P
<1>4. CASE e \in D
  <2>1. Cardinality(P \union {k}) = Cardinality(P) + 1
    BY <1>2, <1>p, FS_AddElement
  <2>2. Places(t, D) = P \union {k}
    BY <1>3, <1>4
  <2>3. Cardinality(Places(t, D)) = Cardinality(P) + 1
    BY <2>1, <2>2, Zenon
  <2> QED
    BY <1>4, <2>3 DEF t, P
<1>5. CASE e \notin D
  <2>1. Places(t, D) = P
    BY <1>3, <1>5
  <2>2. Cardinality(Places(t, D)) = Cardinality(P)
    BY <2>1, Zenon
  <2> QED
    BY <1>2, <1>5, <2>2 DEF t, P
<1> QED
  BY <1>4, <1>5

(* Taking one out removes its place, and moves those behind it.            *)
LEMMA CountRemoveAt ==
    ASSUME NEW S, NEW s \in Seq(S), NEW k \in 1 .. Len(s), NEW D
    PROVE  Cardinality(Places(RemoveAt(s, k), D)) =
              Cardinality(Places(s, D)) - (IF s[k] \in D THEN 1 ELSE 0)
<1> DEFINE t == RemoveAt(s, k)
           P == Places(s, D)
           Q == Places(t, D)
           from == [n \in Q |-> IF n < k THEN n ELSE n + 1]
<1>1. /\ DOMAIN s = 1 .. Len(s) /\ Len(s) \in Nat
      /\ t \in Seq(S) /\ DOMAIN t = 1 .. Len(s) - 1
      /\ \A n \in 1 .. Len(s) - 1 : t[n] = IF n < k THEN s[n] ELSE s[n + 1]
  <2>1. /\ t \in Seq(S) /\ Len(t) = Len(s) - 1
        /\ \A n \in 1 .. Len(s) - 1 : t[n] = IF n < k THEN s[n] ELSE s[n + 1]
    BY RemoveAtLemma, Zenon
  <2> HIDE DEF t
  <2>2. DOMAIN s = 1 .. Len(s) /\ Len(s) \in Nat /\ DOMAIN t = 1 .. Len(t)
    BY <2>1
  <2> QED
    BY <2>1, <2>2, Zenon
<1>2. IsFiniteSet(P) /\ Cardinality(P) \in Nat /\ IsFiniteSet(Q)
  BY <1>1, PlacesFinite
<1> HIDE DEF t
<1>3. from \in Bijection(Q, P \ {k})
  <2>1. \A n \in Q : n \in 1 .. Len(s) - 1 /\ t[n] \in D
    BY <1>1 DEF Places
  <2>2. ASSUME NEW n \in Q PROVE from[n] \in P \ {k}
    <3>1. s[from[n]] \in D /\ from[n] \in 1 .. Len(s) /\ from[n] # k
      BY <1>1, <2>1
    <3> QED
      BY <1>1, <3>1 DEF Places
  <2>3. ASSUME NEW m \in Q, NEW n \in Q, from[m] = from[n] PROVE m = n
    BY <1>1, <2>1, <2>3
  <2>4. ASSUME NEW p \in P \ {k} PROVE \E n \in Q : from[n] = p
    <3>1. p \in 1 .. Len(s) /\ s[p] \in D /\ p # k
      BY <1>1 DEF Places
    <3>2. CASE p < k
      <4>1. p \in 1 .. Len(s) - 1 /\ t[p] = s[p]
        BY <1>1, <3>1, <3>2
      <4>2. p \in Q
        BY <1>1, <3>1, <4>1 DEF Places
      <4> QED
        BY <3>2, <4>2
    <3>3. CASE p > k
      <4>1. /\ p - 1 \in 1 .. Len(s) - 1 /\ t[p - 1] = s[p]
            /\ ~(p - 1 < k) /\ p - 1 + 1 = p
        BY <1>1, <3>1, <3>3
      <4>2. p - 1 \in Q
        BY <1>1, <3>1, <4>1 DEF Places
      <4>3. from[p - 1] = p
        BY <4>1, <4>2
      <4> QED
        BY <4>2, <4>3
    <3> QED
      BY <1>1, <3>1, <3>2, <3>3
  <2> HIDE DEF P, Q
  <2>5. from \in [Q -> P \ {k}]
    BY <2>2
  <2> HIDE DEF from
  <2>6. IsInjective(from)
    BY <2>3, <2>5 DEF IsInjective
  <2> QED
    BY <2>4, <2>5, <2>6 DEF Bijection, Injection, Surjection
<1> HIDE DEF from
<1>4. ExistsBijection(Q, P \ {k})
  BY <1>3 DEF ExistsBijection
<1> HIDE DEF Q
<1>5. Cardinality(P \ {k}) = Cardinality(Q)
  BY <1>2, <1>4, FS_Bijection
<1>6. k \in P <=> s[k] \in D
  BY <1>1 DEF Places
<1> HIDE DEF P
<1>7. Cardinality(P \ {k}) = IF k \in P THEN Cardinality(P) - 1 ELSE Cardinality(P)
  BY <1>2, FS_RemoveElement
<1> QED
  BY <1>2, <1>5, <1>6, <1>7 DEF P, Q, t

-----------------------------------------------------------------------------
(* Numbers *)

(* A set of naturals that is not empty has a least element.                *)
LEMMA MinIsLeast ==
    ASSUME NEW S \in SUBSET Nat, S # {}
    PROVE  Min(S) \in S /\ \A y \in S : Min(S) <= y
<1>1. PICK x \in S : \A y \in S : ~ (<<y, x>> \in OpToRel(<, Nat))
  BY NatLessThanWellFounded, WFMin
<1>2. \A y \in S : ~ (y < x)
  BY <1>1 DEF OpToRel
<1>3. \A y \in S : x <= y
  BY <1>2
<1> QED
  BY <1>3 DEF Min

(* And one that is bounded has a greatest.                                 *)
LEMMA MaxIsGreatest ==
    ASSUME NEW S \in SUBSET Nat, S # {}, NEW n \in Nat, \A y \in S : y <= n
    PROVE  Max(S) \in S /\ \A y \in S : y <= Max(S)
<1> DEFINE Bounds == {b \in Nat : \A y \in S : y <= b}
           k == Min(Bounds)
<1>1. k \in Nat /\ (\A y \in S : y <= k) /\ (\A b \in Bounds : k <= b)
  <2>1. Bounds \in SUBSET Nat /\ n \in Bounds
    OBVIOUS
  <2>2. k \in Bounds /\ \A b \in Bounds : k <= b
    BY <2>1, MinIsLeast
  <2> QED
    BY <2>2
<1> HIDE DEF k
<1>2. k \in S
  <2> SUFFICES ASSUME k \notin S PROVE FALSE
    OBVIOUS
  <2>1. \A y \in S : y <= k - 1
    BY <1>1
  <2>2. k - 1 \in Nat
    <3>1. PICK y \in S : TRUE
      OBVIOUS
    <3>2. y \in Nat /\ y <= k /\ y # k
      BY <1>1, <3>1
    <3> QED
      BY <1>1, <3>2
  <2>3. k - 1 \in Bounds
    BY <2>1, <2>2
  <2> QED
    BY <1>1, <2>3
<1>3. \A y \in S : k >= y
  BY <1>1
<1> QED
  BY <1>1, <1>2, <1>3 DEF Max

(* Induction over the naturals, for a set of them.                         *)
LEMMA EveryNatural ==
    ASSUME NEW G \in SUBSET Nat, 0 \in G, \A n \in G : n + 1 \in G
    PROVE  G = Nat
<1> SUFFICES ASSUME Nat \ G # {} PROVE FALSE
  OBVIOUS
<1> DEFINE k == Min(Nat \ G)
<1>1. k \in Nat \ G /\ \A y \in Nat \ G : k <= y
  BY MinIsLeast
<1> HIDE DEF k
<1>2. k - 1 \in Nat /\ k - 1 \notin Nat \ G
  BY <1>1
<1>3. k - 1 + 1 \in G
  BY <1>2
<1> QED
  BY <1>1, <1>3

-----------------------------------------------------------------------------
(* Sums *)

(* The element of a set that a fold takes next.                            *)
Pick(s) == CHOOSE x \in s : TRUE

(* What a fold of f computes for every set of D, if D has the smaller sets.*)
Sums(f, D, it) ==
    it = [s \in D |-> IF s = {} THEN 0 ELSE f[Pick(s)] + it[s \ {Pick(s)}]]

(* The parts of S of at most n elements: what the induction goes over.     *)
UpTo(S, n) == {t \in SUBSET S : Cardinality(t) <= n}

(* What is left of a set after what is picked from it is smaller.          *)
LEMMA PickLess ==
    ASSUME NEW S, IsFiniteSet(S), NEW n \in Nat, NEW s \in UpTo(S, n + 1), s # {}
    PROVE  Pick(s) \in s /\ s \ {Pick(s)} \in UpTo(S, n)
<1>1. Pick(s) \in s
  BY DEF Pick
<1>2. IsFiniteSet(s) /\ Cardinality(s) \in Nat /\ s \subseteq S
  BY FS_Subset, FS_CardinalityType DEF UpTo
<1>3. Cardinality(s \ {Pick(s)}) = Cardinality(s) - 1
  BY <1>1, <1>2, FS_RemoveElement
<1> QED
  BY <1>1, <1>2, <1>3 DEF UpTo

(* The function that a fold computes exists: it is built up over the sets of *)
(* no more than n elements, for each n.  CHOOSE gives the fold one such.   *)
LEMMA SumsExist ==
    ASSUME NEW f, NEW S, IsFiniteSet(S)
    PROVE  \E it : Sums(f, SUBSET S, it)
<1> DEFINE G == {n \in Nat : \E it : Sums(f, UpTo(S, n), it)}
<1>1. 0 \in G
  <2>1. \A t \in UpTo(S, 0) : t = {}
    BY FS_Subset, FS_CardinalityType, FS_EmptySet DEF UpTo
  <2>2. Sums(f, UpTo(S, 0), [s \in UpTo(S, 0) |-> 0])
    BY <2>1 DEF Sums
  <2> QED
    BY <2>2
<1>2. ASSUME NEW n \in G PROVE n + 1 \in G
  <2>1. PICK a : Sums(f, UpTo(S, n), a)
    OBVIOUS
  <2> DEFINE b == [s \in UpTo(S, n + 1) |->
                      IF s = {} THEN 0 ELSE f[Pick(s)] + a[s \ {Pick(s)}]]
  <2>2. ASSUME NEW s \in UpTo(S, n + 1), s # {}
        PROVE  b[s \ {Pick(s)}] = a[s \ {Pick(s)}]
    <3> DEFINE t == s \ {Pick(s)}
    <3>1. t \in UpTo(S, n)
      BY <2>2, PickLess
    <3>2. t \in UpTo(S, n + 1)
      BY <3>1, FS_Subset, FS_CardinalityType DEF UpTo
    <3> HIDE DEF t
    <3>3. a[t] = IF t = {} THEN 0 ELSE f[Pick(t)] + a[t \ {Pick(t)}]
      BY <2>1, <3>1 DEF Sums
    <3>4. b[t] = a[t]
      BY <3>2, <3>3
    <3> QED
      BY <3>4 DEF t
  <2>3. b = [s \in UpTo(S, n + 1) |->
                      IF s = {} THEN 0 ELSE f[Pick(s)] + b[s \ {Pick(s)}]]
    <3> HIDE DEF b
    <3>1. \A s \in UpTo(S, n + 1) :
             (IF s = {} THEN 0 ELSE f[Pick(s)] + a[s \ {Pick(s)}])
              = (IF s = {} THEN 0 ELSE f[Pick(s)] + b[s \ {Pick(s)}])
      BY <2>2
    <3> QED
      BY <3>1 DEF b
  <2> HIDE DEF b
  <2>4. Sums(f, UpTo(S, n + 1), b)
    BY <2>3 DEF Sums
  <2> QED
    BY <2>4
<1>3. G = Nat
  <2> HIDE DEF G
  <2>1. G \in SUBSET Nat
    BY DEF G
  <2> QED
    BY <1>1, <1>2, <2>1, EveryNatural
<1>4. Cardinality(S) \in G
  BY <1>3, FS_CardinalityType
<1>5. UpTo(S, Cardinality(S)) = SUBSET S
  BY FS_Subset DEF UpTo
<1> QED
  BY <1>4, <1>5

(* Over the subsets of a set there is one such function, so that the fold of *)
(* a part of the set agrees with the fold of the whole.                    *)
LEMMA SumsUnique ==
    ASSUME NEW f, NEW S, NEW T \in SUBSET S, IsFiniteSet(S), NEW a, NEW b,
           Sums(f, SUBSET S, a), Sums(f, SUBSET T, b)
    PROVE  a[T] = b[T]
<1> DEFINE G == {n \in Nat : \A t \in UpTo(T, n) : a[t] = b[t]}
<1>0. IsFiniteSet(T)
  BY FS_Subset
<1>1. 0 \in G
  <2>1. \A t \in UpTo(T, 0) : t = {}
    BY <1>0, FS_Subset, FS_CardinalityType, FS_EmptySet DEF UpTo
  <2> QED
    BY <2>1 DEF Sums, UpTo
<1>2. ASSUME NEW n \in G PROVE n + 1 \in G
  <2>1. ASSUME NEW t \in UpTo(T, n + 1) PROVE a[t] = b[t]
    <3>1. t \in SUBSET T /\ t \in SUBSET S
      BY DEF UpTo
    <3>2. CASE t = {}
      BY <3>1, <3>2 DEF Sums
    <3>3. CASE t # {}
      <4>1. t \ {Pick(t)} \in UpTo(T, n)
        BY <1>0, <3>3, PickLess
      <4>2. a[t] = f[Pick(t)] + a[t \ {Pick(t)}]
        BY <3>1, <3>3 DEF Sums
      <4>3. b[t] = f[Pick(t)] + b[t \ {Pick(t)}]
        BY <3>1, <3>3 DEF Sums
      <4> QED
        BY <4>1, <4>2, <4>3
    <3> QED
      BY <3>2, <3>3
  <2> QED
    BY <2>1
<1>3. G = Nat
  <2> HIDE DEF G
  <2>1. G \in SUBSET Nat
    BY DEF G
  <2> QED
    BY <1>1, <1>2, <2>1, EveryNatural
<1>4. Cardinality(T) \in G
  BY <1>0, <1>3, FS_CardinalityType
<1>5. T \in UpTo(T, Cardinality(T))
  BY <1>0, FS_CardinalityType DEF UpTo
<1> QED
  BY <1>4, <1>5

(* The sum of a set is that of what is picked and that of the rest.        *)
LEMMA SumIsSums ==
    ASSUME NEW f, NEW S, IsFiniteSet(S)
    PROVE  \E it : Sums(f, SUBSET S, it) /\ SumFunctionOnSet(f, S) = it[S]
<1> DEFINE iter == CHOOSE it : it = [s \in SUBSET S |->
                       IF s = {} THEN 0 ELSE f[Pick(s)] + it[s \ {Pick(s)}]]
<1>1. Sums(f, SUBSET S, iter)
  <2>1. \E it : it = [s \in SUBSET S |->
                       IF s = {} THEN 0 ELSE f[Pick(s)] + it[s \ {Pick(s)}]]
    <3>1. PICK it : Sums(f, SUBSET S, it)
      BY SumsExist
    <3> QED
      BY <3>1, Zenon DEF Sums
  <2>2. iter = [s \in SUBSET S |->
                       IF s = {} THEN 0 ELSE f[Pick(s)] + iter[s \ {Pick(s)}]]
    BY <2>1, Zenon
  <2> HIDE DEF iter
  <2> QED
    BY <2>2 DEF Sums
<1>2. SumFunctionOnSet(f, S) = iter[S]
  BY DEF SumFunctionOnSet, FoldFunctionOnSet, MapThenFoldSet, Pick
<1> HIDE DEF iter
<1> QED
  BY <1>1, <1>2

(* The sum of a set is that of what is picked and of the rest.             *)
LEMMA SumPick ==
    ASSUME NEW f, NEW S, IsFiniteSet(S)
    PROVE  SumFunctionOnSet(f, S) =
              IF S = {} THEN 0
              ELSE f[Pick(S)] + SumFunctionOnSet(f, S \ {Pick(S)})
<1>1. PICK a : Sums(f, SUBSET S, a) /\ SumFunctionOnSet(f, S) = a[S]
  BY SumIsSums
<1>2. CASE S = {}
  BY <1>1, <1>2 DEF Sums
<1>3. CASE S # {}
  <2> DEFINE T == S \ {Pick(S)}
  <2>1. IsFiniteSet(T) /\ T \in SUBSET S
    BY FS_Subset
  <2>2. a[S] = f[Pick(S)] + a[T]
    BY <1>1, <1>3 DEF Sums
  <2> HIDE DEF T
  <2>3. PICK b : Sums(f, SUBSET T, b) /\ SumFunctionOnSet(f, T) = b[T]
    BY <2>1, SumIsSums
  <2>4. a[T] = b[T]
    BY <1>1, <2>1, <2>3, SumsUnique
  <2> QED
    BY <1>1, <1>3, <2>2, <2>3, <2>4 DEF T
<1> QED
  BY <1>2, <1>3

(* The sum over no elements is 0 ...                                       *)
LEMMA SumEmpty ==
    ASSUME NEW f
    PROVE  SumFunctionOnSet(f, {}) = 0
  BY SumPick, FS_EmptySet

(* ... and of any of its elements and of the rest.                         *)
LEMMA SumRemove ==
    ASSUME NEW f, NEW S, IsFiniteSet(S), \A x \in S : f[x] \in Nat
    PROVE  /\ SumFunctionOnSet(f, S) \in Nat
           /\ \A x \in S : SumFunctionOnSet(f, S) = f[x] + SumFunctionOnSet(f, S \ {x})
<1> DEFINE Sum(T) == SumFunctionOnSet(f, T)
           Right(T) == /\ Sum(T) \in Nat
                       /\ \A x \in T : Sum(T) = f[x] + Sum(T \ {x})
           G == {n \in Nat : \A t \in UpTo(S, n) : Right(t)}
<1>1. 0 \in G
  <2>1. \A t \in UpTo(S, 0) : t = {}
    BY FS_Subset, FS_CardinalityType, FS_EmptySet DEF UpTo
  <2>2. Right({})
    BY SumEmpty
  <2> HIDE DEF Right
  <2> QED
    BY <2>1, <2>2
<1>2. ASSUME NEW n \in G PROVE n + 1 \in G
  <2>1. ASSUME NEW t \in UpTo(S, n + 1) PROVE Right(t)
    <3>1. t \in SUBSET S /\ IsFiniteSet(t)
      BY FS_Subset DEF UpTo
    <3>2. CASE t = {}
      BY <3>2, SumEmpty
    <3>3. CASE t # {}
      <4> DEFINE p == Pick(t)
      <4>1. p \in t /\ t \ {p} \in UpTo(S, n)
        BY <3>3, PickLess
      <4>2. Sum(t) = f[p] + Sum(t \ {p})
        BY <3>1, <3>3, SumPick
      <4> HIDE DEF p, Sum
      <4>3. Sum(t \ {p}) \in Nat /\ f[p] \in Nat
        BY <3>1, <4>1
      <4>4. ASSUME NEW x \in t, x # p PROVE Sum(t) = f[x] + Sum(t \ {x})
        <5>1. Sum(t \ {p}) = f[x] + Sum((t \ {p}) \ {x})
          BY <4>1, <4>4
        <5>2. t \ {x} \in UpTo(S, n)
          <6>1. Cardinality(t \ {x}) = Cardinality(t) - 1 /\ Cardinality(t \ {p}) = Cardinality(t) - 1
            BY <3>1, <4>1, FS_RemoveElement
          <6> QED
            BY <3>1, <4>1, <6>1 DEF UpTo
        <5>3. Sum(t \ {x}) = f[p] + Sum((t \ {x}) \ {p})
          BY <4>1, <4>4, <5>2
        <5>4. Sum((t \ {x}) \ {p}) = Sum((t \ {p}) \ {x})
          <6>1. (t \ {x}) \ {p} = (t \ {p}) \ {x}
            OBVIOUS
          <6> QED
            BY <6>1, Zenon
        <5>5. f[x] \in Nat /\ Sum((t \ {p}) \ {x}) \in Nat
          <6>1. (t \ {p}) \ {x} \in UpTo(S, n)
            BY <3>1, <4>1, FS_Subset, FS_CardinalityType, FS_RemoveElement DEF UpTo
          <6> QED
            BY <3>1, <6>1
        <5> QED
          BY <4>2, <4>3, <5>1, <5>3, <5>4, <5>5
      <4>5. ASSUME NEW x \in t PROVE Sum(t) = f[x] + Sum(t \ {x})
        BY <4>2, <4>4, Zenon
      <4>6. Sum(t) \in Nat
        BY <4>2, <4>3
      <4> QED
        BY <4>5, <4>6
    <3> QED
      BY <3>2, <3>3
  <2> HIDE DEF Right
  <2> QED
    BY <2>1
<1>3. G = Nat
  <2> HIDE DEF G
  <2>1. G \in SUBSET Nat
    BY DEF G
  <2> QED
    BY <1>1, <1>2, <2>1, EveryNatural
<1>4. Cardinality(S) \in G
  BY <1>3, FS_CardinalityType
<1>5. S \in UpTo(S, Cardinality(S))
  BY FS_CardinalityType DEF UpTo
<1>6. Right(S)
  <2> HIDE DEF Right
  <2> QED
    BY <1>4, <1>5
<1> QED
  BY <1>6

(* An element more adds its value to the sum.                              *)
LEMMA SumAdd ==
    ASSUME NEW f, NEW S, IsFiniteSet(S), \A y \in S : f[y] \in Nat,
           NEW x, x \notin S, f[x] \in Nat
    PROVE  SumFunctionOnSet(f, S \cup {x}) = SumFunctionOnSet(f, S) + f[x]
<1>1. IsFiniteSet(S \cup {x})
  BY FS_AddElement
<1>2. SumFunctionOnSet(f, S \cup {x}) = f[x] + SumFunctionOnSet(f, (S \cup {x}) \ {x})
  BY <1>1, SumRemove
<1>3. SumFunctionOnSet(f, (S \cup {x}) \ {x}) = SumFunctionOnSet(f, S)
  <2>1. (S \cup {x}) \ {x} = S
    OBVIOUS
  <2> QED
    BY <2>1, Zenon
<1>4. SumFunctionOnSet(f, S) \in Nat
  BY SumRemove
<1> QED
  BY <1>2, <1>3, <1>4

(* The sum of a set is that of a part of it and of the rest.               *)
LEMMA SumSplit ==
    ASSUME NEW f, NEW S, IsFiniteSet(S), \A y \in S : f[y] \in Nat, NEW T \in SUBSET S
    PROVE  /\ SumFunctionOnSet(f, T) \in Nat
           /\ SumFunctionOnSet(f, S \ T) \in Nat
           /\ SumFunctionOnSet(f, S) = SumFunctionOnSet(f, T) + SumFunctionOnSet(f, S \ T)
<1> DEFINE Sum(A) == SumFunctionOnSet(f, A)
           G == {n \in Nat : \A t \in UpTo(S, n) : Sum(S) = Sum(t) + Sum(S \ t)}
<1>0. ASSUME NEW t \in SUBSET S PROVE IsFiniteSet(t) /\ Sum(t) \in Nat
  BY FS_Subset, SumRemove
<1>1. 0 \in G
  <2>1. \A t \in UpTo(S, 0) : t = {}
    BY FS_Subset, FS_CardinalityType, FS_EmptySet DEF UpTo
  <2>2. Sum({}) = 0
    BY SumEmpty
  <2> HIDE DEF Sum
  <2>3. Sum(S) = Sum({}) + Sum(S \ {})
    BY <1>0, <2>2
  <2> QED
    BY <2>1, <2>3
<1>2. ASSUME NEW n \in G PROVE n + 1 \in G
  <2>1. ASSUME NEW t \in UpTo(S, n + 1), t # {} PROVE Sum(S) = Sum(t) + Sum(S \ t)
    <3> DEFINE p == Pick(t)
               u == t \ {p}
    <3>1. p \in t /\ u \in UpTo(S, n) /\ t \in SUBSET S
      BY <2>1, PickLess DEF UpTo
    <3>2. Sum(t) = f[p] + Sum(u)
      BY <1>0, <2>1, <3>1, SumPick
    <3> HIDE DEF p
    <3>3. Sum(S \ u) = f[p] + Sum((S \ u) \ {p})
      <4>1. IsFiniteSet(S \ u) /\ p \in S \ u /\ \A y \in S \ u : f[y] \in Nat
        BY <1>0, <3>1
      <4> HIDE DEF u
      <4> QED
        BY <4>1, SumRemove
    <3>4. Sum((S \ u) \ {p}) = Sum(S \ t)
      <4>1. (S \ u) \ {p} = S \ t
        BY <3>1
      <4> QED
        BY <4>1, Zenon
    <3>5. f[p] \in Nat /\ u \in SUBSET S
      BY <3>1
    <3> HIDE DEF u, Sum
    <3>6. Sum(S) = Sum(u) + Sum(S \ u)
      BY <3>1
    <3>7. Sum(u) \in Nat /\ Sum(S \ t) \in Nat
      BY <1>0, <3>5
    <3> QED
      BY <3>2, <3>3, <3>4, <3>5, <3>6, <3>7
  <2>2. Sum(S) = Sum({}) + Sum(S \ {})
    BY <1>1, FS_EmptySet DEF UpTo
  <2> HIDE DEF Sum
  <2>3. ASSUME NEW t \in UpTo(S, n + 1) PROVE Sum(S) = Sum(t) + Sum(S \ t)
    BY <2>1, <2>2, Zenon
  <2> QED
    BY <2>3
<1>3. G = Nat
  <2> HIDE DEF G
  <2>1. G \in SUBSET Nat
    BY DEF G
  <2> QED
    BY <1>1, <1>2, <2>1, EveryNatural
<1>4. Cardinality(T) \in G /\ T \in UpTo(S, Cardinality(T))
  BY <1>0, <1>3, FS_CardinalityType DEF UpTo
<1>5. S \ T \in SUBSET S
  OBVIOUS
<1> QED
  BY <1>0, <1>4, <1>5

-----------------------------------------------------------------------------
(* Order *)

(* A finite set whose elements have different keys can be put in the order *)
(* of the keys: the one with the least key goes before the others.         *)
LEMMA AscendingOrder ==
    ASSUME NEW D, IsFiniteSet(D), NEW K, \A x \in D : K[x] \in Nat,
           \A x, y \in D : K[x] = K[y] => x = y
    PROVE  \E p \in Bijection(1 .. Cardinality(D), D) :
              \A m, n \in 1 .. Cardinality(D) : m < n => K[p[m]] < K[p[n]]
<1> DEFINE Orders(p, n, S) ==
              /\ p \in Bijection(1 .. n, S)
              /\ \A a, b \in 1 .. n : a < b => K[p[a]] < K[p[b]]
           G == {n \in Nat : \A S \in SUBSET D :
                                Cardinality(S) = n => \E p : Orders(p, n, S)}
<1>0. ASSUME NEW S \in SUBSET D PROVE IsFiniteSet(S) /\ Cardinality(S) \in Nat
  BY FS_Subset, FS_CardinalityType
<1>1. 0 \in G
  <2>1. ASSUME NEW S \in SUBSET D, Cardinality(S) = 0 PROVE \E p : Orders(p, 0, S)
    <3>1. S = {}
      BY <1>0, <2>1, FS_EmptySet
    <3>2. Orders([a \in 1 .. 0 |-> 0], 0, {})
      BY DEF Bijection, Injection, Surjection, IsInjective
    <3> QED
      BY <3>1, <3>2
  <2> QED
    BY <2>1
<1>2. ASSUME NEW n \in G PROVE n + 1 \in G
  <2>1. ASSUME NEW S \in SUBSET D, Cardinality(S) = n + 1
        PROVE  \E p : Orders(p, n + 1, S)
    <3> DEFINE Keys == {K[x] : x \in S}
               k == Min(Keys)
    <3>1. Keys \in SUBSET Nat /\ Keys # {}
      BY <2>1, FS_EmptySet
    <3>2. k \in Keys /\ \A y \in Keys : k <= y
      <4> HIDE DEF Keys
      <4> QED
        BY <3>1, MinIsLeast
    <3>3. PICK x \in S : \A y \in S \ {x} : K[x] < K[y]
      <4>1. PICK x \in S : K[x] = k
        BY <3>2
      <4>2. ASSUME NEW y \in S \ {x} PROVE K[x] < K[y]
        <5>1. K[y] # K[x] /\ K[y] \in Nat /\ K[x] \in Nat /\ k <= K[y]
          BY <3>2
        <5> HIDE DEF k
        <5> QED
          BY <4>1, <5>1
      <4> QED
        BY <4>2
    <3>4. Cardinality(S \ {x}) = n
      BY <1>0, <2>1, FS_RemoveElement
    <3>5. PICK q : Orders(q, n, S \ {x})
      BY <3>4
    <3> DEFINE p == [a \in 1 .. n + 1 |-> IF a = 1 THEN x ELSE q[a - 1]]
    <3>6. \A a \in 1 .. n : q[a] \in S \ {x}
      BY <3>5 DEF Bijection, Injection
    <3>7. p \in Bijection(1 .. n + 1, S)
      <4>1. p \in [1 .. n + 1 -> S]
        BY <3>6
      <4>2. \A a, b \in 1 .. n + 1 : p[a] = p[b] => a = b
        <5>1. \A a, b \in 1 .. n : q[a] = q[b] => a = b
          BY <3>5 DEF Bijection, Injection, IsInjective
        <5> QED
          BY <3>6, <5>1
      <4>3. \A y \in S : \E a \in 1 .. n + 1 : p[a] = y
        <5>1. \A y \in S \ {x} : \E a \in 1 .. n : q[a] = y
          BY <3>5 DEF Bijection, Surjection
        <5>2. ASSUME NEW y \in S \ {x} PROVE \E a \in 1 .. n + 1 : p[a] = y
          <6>1. PICK a \in 1 .. n : q[a] = y
            BY <5>1
          <6>2. a + 1 \in 1 .. n + 1 /\ p[a + 1] = y
            BY <6>1
          <6> QED
            BY <6>2
        <5>3. p[1] = x
          OBVIOUS
        <5> QED
          BY <5>2, <5>3
      <4> QED
        BY <4>1, <4>2, <4>3 DEF Bijection, Injection, Surjection, IsInjective
    <3>8. ASSUME NEW a \in 1 .. n + 1, NEW b \in 1 .. n + 1, a < b
          PROVE  K[p[a]] < K[p[b]]
      <4>1. b - 1 \in 1 .. n /\ p[b] = q[b - 1]
        BY <3>8
      <4>2. CASE a = 1
        BY <3>3, <3>6, <4>1, <4>2
      <4>3. CASE a # 1
        BY <3>5, <3>8, <4>1, <4>3
      <4> QED
        BY <4>2, <4>3
    <3> QED
      BY <3>7, <3>8
  <2> QED
    BY <2>1
<1>3. G = Nat
  <2> HIDE DEF G
  <2>1. G \in SUBSET Nat
    BY DEF G
  <2> QED
    BY <1>1, <1>2, <2>1, EveryNatural
<1>4. Cardinality(D) \in Nat
  BY FS_CardinalityType
<1> QED
  BY <1>3, <1>4
=============================================================================
