------------------------- MODULE FlashLayoutProofs -------------------------
(***************************************************************************)
(* Proofs about the linearizer, the packer and the analyzer, for any       *)
(* traces, sizes, alignments and lists of bundles from elsewhere.          *)
(***************************************************************************)
EXTENDS FlashLayout, DataLemmas

Group == [key : Nat, objects : SUBSET (Objects \cup {None})]

Bundling == strategy \in {"layer", "coaccess"}

Accessed == {trace[n].object : n \in DOMAIN trace}

(* The objects used with the n-th access, the one without an id left out.  *)
Used(n) ==
    {trace[m].object : m \in {k \in DOMAIN trace : GroupKey(trace[k]) = GroupKey(trace[n])}}
        \ {None}

(* What is used together is together in one of the sets.                   *)
Together(sets) ==
    \A n \in DOMAIN trace : Used(n) # {} => \E k \in DOMAIN sets : Used(n) \subseteq sets[k]

(* The arguments are as they were given, and every object has a size.      *)
ArgsOK ==
    /\ trace \in Seq(Event)
    /\ pc \in {"size", "group", "merge", "place", "pack", "payload", "done", "raised",
               "analyze", "analyzed"}
    /\ i \in Nat \ {0}
    /\ DOMAIN sizes \subseteq Objects
    /\ pc \in {"group", "merge", "place"} => Bundling
    /\ pc = "size" => i = 1
    /\ pc = "merge" => strategy = "coaccess"
    /\ Bundling /\ pc # "size" => sizes \in [Named(trace) -> Nat]

(* The groups of the first n accesses: one for each key, that has all the  *)
(* objects accessed under it.                                              *)
Gathered(n) ==
    /\ \A a, b \in DOMAIN groups : groups[a].key = groups[b].key => a = b
    /\ \A a \in DOMAIN groups :
          /\ groups[a].objects \subseteq Accessed
          /\ strategy = "layer" => None \notin groups[a].objects
    /\ \A m \in 1 .. n :
          ~ (strategy = "layer" /\ trace[m].object = None) =>
             \E a \in DOMAIN groups : /\ groups[a].key = GroupKey(trace[m])
                                      /\ trace[m].object \in groups[a].objects

GroupsOK ==
    /\ groups \in Seq(Group)
    /\ pc = "size" => groups = <<>>
    /\ pc = "group" => i <= Len(trace) + 1 /\ Gathered(i - 1)
    /\ pc = "merge" => Gathered(Len(trace))

MergedOK ==
    /\ merged \in Seq(SUBSET (Objects \cup {None}))
    /\ pc \in {"size", "group"} => merged = <<>>
    /\ pc \in {"merge", "place"} => \A k \in DOMAIN merged : merged[k] \subseteq Accessed
    /\ pc = "merge" =>
          /\ i <= Len(groups) + 1
          /\ \A a \in 1 .. i - 1 :
                \E k \in DOMAIN merged : groups[a].objects \subseteq merged[k]
    /\ pc = "place" => i <= Len(merged) + 1 /\ Together(merged)

(* The bundles of the linearizer are whole pages that follow each other    *)
(* from 0 on, and each has room for its objects.                           *)
PagesOK ==
    /\ \A n \in DOMAIN bundles :
          /\ bundles[n].offset =
                IF n = 1 THEN 0 ELSE bundles[n - 1].offset + bundles[n - 1].size
          /\ bundles[n].offset % PageAlignment = 0
          /\ bundles[n].size % PageAlignment = 0
          /\ bundles[n].objects \subseteq Named(trace)
          /\ SumFunctionOnSet(sizes, bundles[n].objects) <= bundles[n].size

BundlesOK ==
    /\ bundles \in Seq(Bundle)
    /\ pc \in {"size", "group", "merge"} => bundles = <<>>
    /\ trace # <<>> /\ ~Bundling => bundles = <<>>
    /\ Bundling => PagesOK
    /\ pc = "place" => /\ Len(bundles) = i - 1
                       /\ \A n \in DOMAIN bundles : bundles[n].objects = merged[n]
    /\ Linearized => Together([n \in DOMAIN bundles |-> bundles[n].objects])

LayoutInv == ArgsOK /\ GroupsOK /\ MergedOK /\ BundlesOK

-----------------------------------------------------------------------------
(* What the operators of the tools compute *)

(* Rounding up to whole pages gives a multiple that is no smaller.         *)
LEMMA RoundedUp ==
    ASSUME NEW n \in Nat, NEW a \in Nat \ {0}
    PROVE  AlignUp(n, a) \in Nat /\ AlignUp(n, a) >= n /\ AlignUp(n, a) % a = 0
  BY DEF AlignUp

(* Multiples add up to a multiple.                                         *)
LEMMA WholePages ==
    ASSUME NEW a \in Nat \ {0}, NEW x \in Nat, NEW y \in Nat, x % a = 0, y % a = 0
    PROVE  (x + y) % a = 0
<1>1. ASSUME NEW k \in Nat PROVE (a * k) % a = 0
  OBVIOUS
<1>2. PICK q \in Nat : x = a * q
  <2>1. x = a * (x \div a) /\ x \div a \in Nat
    OBVIOUS
  <2> QED
    BY <2>1
<1>3. PICK r \in Nat : y = a * r
  <2>1. y = a * (y \div a) /\ y \div a \in Nat
    OBVIOUS
  <2> QED
    BY <2>1
<1>4. x + y = a * (q + r)
  BY <1>2, <1>3
<1>5. (a * (q + r)) % a = 0
  BY <1>1
<1> QED
  BY <1>4, <1>5

(* The accesses, and so the objects that are named, are finitely many.     *)
LEMMA AccessedFinite ==
    ASSUME ArgsOK
    PROVE  IsFiniteSet(Accessed) /\ IsFiniteSet(Named(trace)) /\ Named(trace) = Accessed \ {None}
<1>1. trace \in Seq(Event) /\ DOMAIN trace = 1 .. Len(trace) /\ Len(trace) \in Nat
  BY DEF ArgsOK
<1>2. [n \in DOMAIN trace |-> trace[n].object] \in Surjection(DOMAIN trace, Accessed)
  BY DEF Surjection, Accessed
<1>3. IsFiniteSet(1 .. Len(trace))
  BY <1>1, FS_Interval
<1>4. IsFiniteSet(Accessed)
  BY <1>1, <1>2, <1>3, FS_Surjection
<1>5. Named(trace) = Accessed \ {None}
  BY DEF Named, Accessed
<1> QED
  BY <1>4, <1>5, FS_Subset

(* object_size_map has a size for every object that is named: that of the  *)
(* last access to it.                                                      *)
LEMMA SizesTyped ==
    ASSUME trace \in Seq(Event), NEW o \in Named(trace)
    PROVE  LastSize(o) \in Nat
<1> DEFINE At == {n \in DOMAIN trace : trace[n].object = o}
<1>1. DOMAIN trace = 1 .. Len(trace) /\ Len(trace) \in Nat
  OBVIOUS
<1>2. At \in SUBSET Nat /\ At # {} /\ \A n \in At : n <= Len(trace)
  BY <1>1 DEF Named
<1>3. Max(At) \in At /\ \A n \in At : n <= Max(At)
  <2> HIDE DEF At
  <2> QED
    BY <1>1, <1>2, MaxIsGreatest
<1>4. \E n \in DOMAIN trace :
         trace[n].object = o /\ \A m \in DOMAIN trace : trace[m].object = o => m <= n
  BY <1>3
<1>5. PICK n \in DOMAIN trace : LastSize(o) = trace[n].size
  BY <1>4 DEF LastSize
<1>6. trace[n] \in Event
  BY <1>5
<1> QED
  BY <1>5, <1>6 DEF Event

(* The sizes of what is accessed add up, and a bundle has room for them.   *)
LEMMA PagesHold ==
    ASSUME ArgsOK, Bundling, pc # "size", NEW objects \in SUBSET Named(trace)
    PROVE  /\ PagesOf(objects) \in Nat
           /\ PagesOf(objects) % PageAlignment = 0
           /\ SumFunctionOnSet(sizes, objects) <= PagesOf(objects)
<1>1. IsFiniteSet(objects)
  BY AccessedFinite, FS_Subset
<1>2. \A o \in objects : sizes[o] \in Nat
  BY DEF ArgsOK
<1>3. SumFunctionOnSet(sizes, objects) \in Nat
  BY <1>1, <1>2, SumRemove
<1>4. PageAlignment \in Nat \ {0}
  BY LayoutAssumption
<1> DEFINE sum == SumFunctionOnSet(sizes, objects)
<1>5. PagesOf(objects) = AlignUp(sum, PageAlignment)
  BY DEF PagesOf, BytesOf
<1> HIDE DEF sum
<1>6. sum \in Nat
  BY <1>3 DEF sum
<1>7. AlignUp(sum, PageAlignment) \in Nat /\ AlignUp(sum, PageAlignment) >= sum
      /\ AlignUp(sum, PageAlignment) % PageAlignment = 0
  BY <1>4, <1>6, RoundedUp
<1>8. sum <= PagesOf(objects)
  BY <1>5, <1>6, <1>7
<1> QED
  BY <1>5, <1>7, <1>8 DEF sum

(* Groups with different keys have an order, and it leaves none of them    *)
(* out.                                                                    *)
LEMMA OrderOfGroups ==
    ASSUME groups \in Seq(Group),
           \A a, b \in DOMAIN groups : groups[a].key = groups[b].key => a = b
    PROVE  InOrder(groups) \in Bijection(DOMAIN groups, DOMAIN groups)
<1> DEFINE K == [a \in DOMAIN groups |-> groups[a].key]
<1>1. DOMAIN groups = 1 .. Len(groups) /\ Len(groups) \in Nat
  OBVIOUS
<1>b. /\ \A a \in DOMAIN groups : K[a] \in Nat
      /\ \A a, b \in DOMAIN groups : K[a] = K[b] => a = b
  <2>1. \A a \in DOMAIN groups : K[a] = groups[a].key
    OBVIOUS
  <2>2. \A a \in DOMAIN groups : groups[a].key \in Nat
    <3> HIDE DEF K
    <3>1. \A a \in DOMAIN groups : groups[a] \in Group
      OBVIOUS
    <3> QED
      BY <3>1 DEF Group
  <2> HIDE DEF K
  <2> QED
    BY <2>1, <2>2
<1>2. IsFiniteSet(DOMAIN groups) /\ Cardinality(DOMAIN groups) = Len(groups)
  <2>1. IsFiniteSet(1 .. Len(groups)) /\ Cardinality(1 .. Len(groups)) = Len(groups)
    BY <1>1, FS_Interval
  <2> QED
    BY <1>1, <2>1, Zenon
<1> HIDE DEF K
<1>3. PICK p \in Bijection(1 .. Cardinality(DOMAIN groups), DOMAIN groups) :
         \A m, n \in 1 .. Cardinality(DOMAIN groups) : m < n => K[p[m]] < K[p[n]]
  BY <1>b, <1>2, AscendingOrder
<1>a. 1 .. Cardinality(DOMAIN groups) = DOMAIN groups
  BY <1>1, <1>2
<1>4. p \in Bijection(DOMAIN groups, DOMAIN groups)
  BY <1>a, <1>3, Zenon
<1>5. \A m \in DOMAIN groups : p[m] \in DOMAIN groups
  BY <1>4 DEF Bijection, Injection
<1>6. \A m, n \in DOMAIN groups : m < n => groups[p[m]].key < groups[p[n]].key
  <2>1. \A m, n \in DOMAIN groups : m < n => K[p[m]] < K[p[n]]
    BY <1>a, <1>3, Zenon
  <2> QED
    BY <1>5, <2>1 DEF K
<1> QED
  BY <1>4, <1>6 DEF InOrder

-----------------------------------------------------------------------------
(* The linearizer *)

(* An access is an event, under a key, of an object or of none.            *)
LEMMA EventTyped ==
    ASSUME ArgsOK, NEW n \in DOMAIN trace
    PROVE  /\ trace[n].object \in Objects \cup {None}
           /\ trace[n].object \in Accessed
           /\ GroupKey(trace[n]) \in Nat
           /\ trace[n] \in Event
<1>1. trace \in Seq(Event)
  BY DEF ArgsOK
<1>2. trace[n] \in Event
  BY <1>1
<1> QED
  BY <1>2 DEF Event, GroupKey, Accessed

(* What is accessed is an object or none.                                  *)
LEMMA AccessedTyped ==
    ASSUME ArgsOK
    PROVE  Accessed \subseteq Objects \cup {None} /\ Named(trace) \subseteq Objects
  BY EventTyped, AccessedFinite DEF Accessed

(* Before the first step there are no groups, no sets and no bundles but   *)
(* those of a list from elsewhere.                                         *)
LEMMA LayoutInit == Init => LayoutInv
<1> SUFFICES ASSUME Init PROVE LayoutInv
  OBVIOUS
<1>1. trace \in Seq(Event)
  <2>1. trace \in Traces \/ trace = <<>>
    BY DEF Init
  <2>2. \A t \in Traces : t \in Seq(Event)
    BY LayoutAssumption
  <2>3. <<>> \in Seq(Event)
    OBVIOUS
  <2> QED
    BY <2>1, <2>2, <2>3, Zenon
<1>2. ArgsOK
  BY <1>1 DEF Init, ArgsOK, Bundling
<1>3. GroupsOK /\ MergedOK
  BY DEF Init, GroupsOK, MergedOK
<1>4. bundles \in Seq(Bundle)
  <2>1. bundles \in Files \/ bundles = <<>>
    BY DEF Init
  <2>2. \A t \in Files : t \in Seq(Bundle)
    BY LayoutAssumption
  <2>3. <<>> \in Seq(Bundle)
    OBVIOUS
  <2> QED
    BY <2>1, <2>2, <2>3, Zenon
<1>5. Bundling => bundles = <<>>
  BY DEF Init, Bundling
<1>6. BundlesOK
  BY <1>4, <1>5 DEF Init, BundlesOK, PagesOK, Linearized
<1> QED
  BY <1>2, <1>3, <1>6 DEF LayoutInv

(* When every access is gathered, what is used together is in one group,   *)
(* for its accesses have one key.                                          *)
LEMMA GroupsTogether ==
    ASSUME ArgsOK, Gathered(Len(trace)), NEW n \in DOMAIN trace, Used(n) # {}
    PROVE  \E a \in DOMAIN groups : Used(n) \subseteq groups[a].objects
<1>1. DOMAIN trace = 1 .. Len(trace)
  BY DEF ArgsOK
<1>2. ASSUME NEW m \in DOMAIN trace, trace[m].object # None
      PROVE  \E a \in DOMAIN groups : /\ groups[a].key = GroupKey(trace[m])
                                      /\ trace[m].object \in groups[a].objects
  BY <1>1, <1>2 DEF Gathered
<1>3. PICK m \in DOMAIN trace : GroupKey(trace[m]) = GroupKey(trace[n]) /\ trace[m].object # None
  BY DEF Used
<1>4. PICK a \in DOMAIN groups : groups[a].key = GroupKey(trace[n])
  BY <1>2, <1>3
<1>5. ASSUME NEW k \in DOMAIN trace, trace[k].object # None,
             GroupKey(trace[k]) = GroupKey(trace[n])
      PROVE  trace[k].object \in groups[a].objects
  <2>1. PICK b \in DOMAIN groups : /\ groups[b].key = GroupKey(trace[k])
                                   /\ trace[k].object \in groups[b].objects
    BY <1>2, <1>5
  <2>2. b = a
    BY <1>4, <1>5, <2>1 DEF Gathered
  <2> QED
    BY <2>1, <2>2
<1> QED
  BY <1>5 DEF Used

(* What is kept together is so in larger sets too.                         *)
LEMMA TogetherIn ==
    ASSUME NEW small, NEW large, Together(small),
           \A k \in DOMAIN small : \E l \in DOMAIN large : small[k] \subseteq large[l]
    PROVE  Together(large)
<1> SUFFICES ASSUME NEW n \in DOMAIN trace, Used(n) # {}
             PROVE  \E l \in DOMAIN large : Used(n) \subseteq large[l]
  BY DEF Together
<1>1. PICK k \in DOMAIN small : Used(n) \subseteq small[k]
  BY DEF Together
<1> QED
  BY <1>1

(* object_size_map has a size for every object named.                      *)
LEMMA MapSizesStep ==
    ASSUME LayoutInv, MapSizes
    PROVE  LayoutInv'
<1> USE DEF LayoutInv
<1>1. /\ trace \in Seq(Event) /\ i = 1 /\ pc = "size"
      /\ trace' = trace /\ strategy' = strategy /\ groups' = groups /\ merged' = merged
      /\ bundles' = bundles /\ i' = i
      /\ sizes' = [o \in Named(trace) |-> LastSize(o)]
      /\ pc' = IF Bundling THEN "group" ELSE "pack"
  BY DEF MapSizes, ArgsOK, Bundling
<1>2. groups = <<>> /\ merged = <<>> /\ bundles = <<>>
  BY <1>1 DEF GroupsOK, MergedOK, BundlesOK
<1>3. sizes' \in [Named(trace) -> Nat]
  BY <1>1, SizesTyped
<1>4. Named(trace)' = Named(trace) /\ Named(trace) \subseteq Objects
  BY <1>1, AccessedTyped DEF Named
<1>5. ArgsOK'
  BY <1>1, <1>3, <1>4 DEF ArgsOK, Bundling
<1>6. GroupsOK'
  BY <1>1, <1>2 DEF GroupsOK, Gathered
<1>7. MergedOK'
  BY <1>1, <1>2 DEF MergedOK
<1>8. BundlesOK'
  <2>1. PagesOK'
    BY <1>1, <1>2 DEF PagesOK
  <2>2. ~ Linearized'
    BY <1>1 DEF Linearized, Bundling
  <2> QED
    BY <1>1, <1>2, <2>1, <2>2 DEF BundlesOK
<1> QED
  BY <1>5, <1>6, <1>7, <1>8

(* An access is gathered in the one group of its key, new or not.          *)
LEMMA GroupEventStep ==
    ASSUME LayoutInv, GroupEvent
    PROVE  LayoutInv'
<1> USE DEF LayoutInv
<1> DEFINE event == trace[i]
           key == GroupKey(event)
           at == {n \in DOMAIN groups : groups[n].key = key}
           skip == strategy = "layer" /\ event.object = None
<1>1. /\ pc = "group" /\ pc' = "group" /\ i \in DOMAIN trace /\ i' = i + 1
      /\ UNCHANGED <<trace, strategy, sizes, merged, bundles>>
      /\ groups' = IF skip THEN groups
                   ELSE IF at = {} THEN Append(groups, [key |-> key, objects |-> {event.object}])
                   ELSE [n \in DOMAIN groups |->
                           IF n \in at THEN [groups[n] EXCEPT !.objects = @ \cup {event.object}]
                           ELSE groups[n]]
  BY DEF GroupEvent
<1>2. /\ groups \in Seq(Group) /\ trace \in Seq(Event) /\ i \in Nat \ {0}
      /\ DOMAIN trace = 1 .. Len(trace) /\ Len(trace) \in Nat
  BY DEF ArgsOK, GroupsOK
<1>3. event.object \in Objects \cup {None} /\ event.object \in Accessed /\ key \in Nat
  BY <1>1, EventTyped
<1>4. Accessed' = Accessed /\ Named(trace)' = Named(trace) /\ Bundling' = Bundling
      /\ \A m \in DOMAIN trace : GroupKey(trace[m])' = GroupKey(trace[m])
  BY <1>1 DEF Accessed, Named, Bundling, GroupKey
<1>5. Gathered(i - 1)
  BY <1>1 DEF GroupsOK
<1>6. DOMAIN groups = 1 .. Len(groups) /\ Len(groups) \in Nat
      /\ \A a \in DOMAIN groups : groups[a] \in Group
  BY <1>2
<1> HIDE DEF event
<1>7. ASSUME NEW j \in Nat, j = i
      PROVE  Gathered(j)' /\ groups' \in Seq(Group)
  <2>1. CASE skip
    <3>1. groups' = groups
      BY <1>1, <2>1
    <3>2. ASSUME NEW m \in 1 .. j, ~ (strategy = "layer" /\ trace[m].object = None)
          PROVE  m \in 1 .. i - 1
      BY <1>2, <1>7, <2>1, <3>2 DEF event
    <3> QED
      BY <1>1, <1>2, <1>4, <1>5, <3>1, <3>2 DEF Gathered, GroupKey
  <2>2. CASE ~skip
    <3>1. \E new : /\ groups' = new
                   /\ new \in Seq(Group)
                   /\ \A a, b \in DOMAIN new : new[a].key = new[b].key => a = b
                   /\ \A a \in DOMAIN new :
                         /\ new[a].objects \subseteq Accessed
                         /\ strategy = "layer" => None \notin new[a].objects
                   /\ \A a \in DOMAIN groups : /\ a \in DOMAIN new
                                               /\ new[a].key = groups[a].key
                                               /\ groups[a].objects \subseteq new[a].objects
                   /\ \E a \in DOMAIN new : new[a].key = key /\ event.object \in new[a].objects
      <4>1. CASE at = {}
        <5> DEFINE added == [key |-> key, objects |-> {event.object}]
                   new == Append(groups, added)
        <5>1. added \in Group /\ added.key = key /\ added.objects = {event.object}
          BY <1>3 DEF Group
        <5>2. groups' = new
          BY <1>1, <2>2, <4>1
        <5> HIDE DEF added
        <5>3. /\ new \in Seq(Group) /\ DOMAIN new = 1 .. Len(groups) + 1
              /\ \A a \in 1 .. Len(groups) : new[a] = groups[a]
              /\ new[Len(groups) + 1] = added
          BY <1>2, <1>6, <5>1
        <5> HIDE DEF new
        <5>4. \A a \in DOMAIN groups : groups[a].key # key
          BY <4>1
        <5> HIDE DEF key, at
        <5>5. \A a, b \in DOMAIN new : new[a].key = new[b].key => a = b
          <6>1. \A a, b \in DOMAIN groups : groups[a].key = groups[b].key => a = b
            BY <1>5 DEF Gathered
          <6> QED
            BY <1>6, <5>1, <5>3, <5>4, <6>1
        <5>6. \A a \in DOMAIN new :
                /\ new[a].objects \subseteq Accessed
                /\ strategy = "layer" => None \notin new[a].objects
          BY <1>3, <1>5, <1>6, <2>2, <5>1, <5>3 DEF Gathered
        <5>7. Len(groups) + 1 \in DOMAIN new /\ new[Len(groups) + 1].key = key
              /\ event.object \in new[Len(groups) + 1].objects
          BY <1>6, <5>1, <5>3
        <5> QED
          BY <1>6, <5>2, <5>3, <5>5, <5>6, <5>7
      <4>2. CASE at # {}
        <5> DEFINE new == [n \in DOMAIN groups |->
                             IF n \in at
                               THEN [groups[n] EXCEPT !.objects = groups[n].objects \cup {event.object}]
                               ELSE groups[n]]
        <5>1. groups' = new
          BY <1>1, <2>2, <4>2
        <5>2. DOMAIN new = DOMAIN groups
          OBVIOUS
        <5>3. ASSUME NEW a \in DOMAIN groups
              PROVE  /\ new[a] \in Group
                     /\ new[a].key = groups[a].key
                     /\ new[a].objects = IF a \in at THEN groups[a].objects \cup {event.object}
                                         ELSE groups[a].objects
          <6>1. groups[a] \in Group
            BY <1>6
          <6> QED
            BY <1>3, <6>1 DEF Group
        <5> HIDE DEF new
        <5>4. new \in Seq(Group)
          <6>1. new = [a \in 1 .. Len(groups) |-> new[a]]
            BY <1>6, <5>2, Zenon DEF new
          <6>2. \A a \in 1 .. Len(groups) : new[a] \in Group
            BY <1>6, <5>3
          <6> QED
            BY <1>6, <6>1, <6>2
        <5>5. PICK a \in DOMAIN groups : a \in at /\ groups[a].key = key
          BY <4>2
        <5> HIDE DEF at, key
        <5>6. ASSUME NEW b \in DOMAIN new
              PROVE  /\ new[b].objects \subseteq Accessed
                     /\ strategy = "layer" => None \notin new[b].objects
          <6>1. groups[b].objects \subseteq Accessed
                /\ (strategy = "layer" => None \notin groups[b].objects)
            BY <1>5, <5>2 DEF Gathered
          <6>2. new[b].objects \subseteq groups[b].objects \cup {event.object}
            BY <5>2, <5>3
          <6> QED
            BY <1>3, <2>2, <6>1, <6>2
        <5>7. \A b, c \in DOMAIN new : new[b].key = new[c].key => b = c
          BY <1>5, <5>2, <5>3 DEF Gathered
        <5>8. /\ a \in DOMAIN new /\ new[a].key = key
              /\ event.object \in new[a].objects
          BY <5>2, <5>3, <5>5
        <5>9. \A b \in DOMAIN groups : /\ b \in DOMAIN new
                                       /\ new[b].key = groups[b].key
                                       /\ groups[b].objects \subseteq new[b].objects
          BY <5>2, <5>3
        <5> QED
          BY <5>1, <5>4, <5>6, <5>7, <5>8, <5>9
      <4> QED
        BY <4>1, <4>2
    <3>2. ASSUME NEW m \in 1 .. j, ~ (strategy = "layer" /\ trace[m].object = None)
          PROVE  \E a \in DOMAIN groups' : /\ groups'[a].key = GroupKey(trace[m])
                                           /\ trace[m].object \in groups'[a].objects
      <4>1. CASE m = i
        BY <3>1, <4>1 DEF event
      <4>2. CASE m # i
        <5>1. m \in 1 .. i - 1
          BY <1>2, <1>7, <4>2
        <5>2. PICK a \in DOMAIN groups : /\ groups[a].key = GroupKey(trace[m])
                                         /\ trace[m].object \in groups[a].objects
          BY <1>5, <3>2, <5>1 DEF Gathered
        <5> QED
          BY <3>1, <5>2
      <4> QED
        BY <4>1, <4>2
    <3>3. \A m \in 1 .. j : m \in DOMAIN trace
      BY <1>1, <1>2, <1>7
    <3>4. /\ \A a, b \in DOMAIN groups' : groups'[a].key = groups'[b].key => a = b
          /\ \A a \in DOMAIN groups' :
                /\ groups'[a].objects \subseteq Accessed
                /\ strategy = "layer" => None \notin groups'[a].objects
      BY <3>1
    <3>5. trace' = trace /\ strategy' = strategy
      BY <1>1
    <3>6. groups' \in Seq(Group)
      BY <3>1
    <3> HIDE DEF skip, at, key
    <3> QED
      BY <1>4, <3>2, <3>3, <3>4, <3>5, <3>6 DEF Gathered, GroupKey
  <2> QED
    BY <2>1, <2>2
<1>8. GroupsOK'
  <2>1. PICK j \in Nat : j = i
    BY <1>2
  <2>2. Gathered(j)' /\ groups' \in Seq(Group)
    BY <1>7, <2>1
  <2>3. j = i' - 1 /\ i' <= Len(trace') + 1
    BY <1>1, <1>2, <2>1
  <2>4. Gathered(i - 1)'
    BY <2>2, <2>3 DEF Gathered
  <2> QED
    BY <1>1, <2>2, <2>3, <2>4 DEF GroupsOK
<1>9. ArgsOK'
  BY <1>1, <1>2, <1>4 DEF ArgsOK
<1>10. MergedOK' /\ BundlesOK'
  BY <1>1 DEF MergedOK, BundlesOK, PagesOK, Bundling, Linearized, Named
<1> QED
  BY <1>8, <1>9, <1>10

(* What reads only the arguments reads the same when they stay.            *)
LEMMA SameArgs ==
    ASSUME trace' = trace, strategy' = strategy
    PROVE  /\ Accessed' = Accessed /\ Named(trace)' = Named(trace) /\ Bundling' = Bundling
           /\ \A n : Used(n)' = Used(n)
  BY DEF Accessed, Named, Bundling, Used, GroupKey

(* The sets of the layers, in their order, are those of the groups; the    *)
(* co-access groups are merged first.                                      *)
LEMMA EndGroupingStep ==
    ASSUME LayoutInv, EndGrouping
    PROVE  LayoutInv'
<1> USE DEF LayoutInv
<1>1. /\ pc = "group" /\ i \notin DOMAIN trace /\ i' = 1
      /\ UNCHANGED <<trace, strategy, sizes, groups, bundles>>
      /\ strategy = "layer" => /\ merged' = [n \in DOMAIN groups |-> groups[InOrder(groups)[n]].objects]
                               /\ pc' = "place"
      /\ strategy # "layer" => pc' = "merge" /\ merged' = merged
  BY DEF EndGrouping
<1>2. /\ groups \in Seq(Group) /\ trace \in Seq(Event) /\ i \in Nat \ {0}
      /\ DOMAIN trace = 1 .. Len(trace) /\ Len(trace) \in Nat
      /\ i <= Len(trace) + 1 /\ Gathered(i - 1) /\ Bundling
      /\ bundles = <<>> /\ merged = <<>>
  BY <1>1 DEF ArgsOK, GroupsOK, MergedOK, BundlesOK
<1>3. Gathered(Len(trace))
  <2>1. i - 1 = Len(trace)
    BY <1>1, <1>2
  <2> QED
    BY <1>2, <2>1
<1>4. Accessed' = Accessed /\ Named(trace)' = Named(trace) /\ Bundling' = Bundling
      /\ \A n : Used(n)' = Used(n)
  BY <1>1, SameArgs
<1>5. ArgsOK'
  BY <1>1, <1>4 DEF ArgsOK, Bundling
<1>6. GroupsOK'
  BY <1>1, <1>2, <1>3 DEF GroupsOK, Gathered, Accessed, GroupKey
<1>7. BundlesOK'
  BY <1>1, <1>2, <1>4 DEF BundlesOK, PagesOK, Linearized
<1>8. MergedOK'
  <2>1. CASE strategy = "layer"
    <3> DEFINE p == InOrder(groups)
    <3>1. /\ DOMAIN groups = 1 .. Len(groups) /\ Len(groups) \in Nat
          /\ \A a \in DOMAIN groups : groups[a].objects \in SUBSET (Objects \cup {None})
      <4>1. \A a \in DOMAIN groups : groups[a] \in Group
        BY <1>2
      <4> QED
        BY <1>2, <4>1 DEF Group
    <3>2. /\ \A a \in DOMAIN groups : p[a] \in DOMAIN groups
          /\ \A b \in DOMAIN groups : \E a \in DOMAIN groups : p[a] = b
      <4>1. p \in Bijection(DOMAIN groups, DOMAIN groups)
        BY <1>2, <1>3, OrderOfGroups DEF Gathered
      <4> HIDE DEF p
      <4> QED
        BY <4>1 DEF Bijection, Injection, Surjection
    <3>3. merged' = [a \in DOMAIN groups |-> groups[p[a]].objects] /\ pc' = "place"
      BY <1>1, <2>1
    <3> HIDE DEF p
    <3>4. DOMAIN merged' = DOMAIN groups /\ \A a \in DOMAIN groups : merged'[a] = groups[p[a]].objects
      BY <3>3
    <3>5. merged' \in Seq(SUBSET (Objects \cup {None}))
      <4>1. \A a \in 1 .. Len(groups) : groups[p[a]].objects \in SUBSET (Objects \cup {None})
        BY <3>1, <3>2
      <4>2. merged' = [a \in 1 .. Len(groups) |-> groups[p[a]].objects]
        BY <3>1, <3>3, Zenon
      <4> QED
        BY <3>1, <4>1, <4>2
    <3>6. \A a \in DOMAIN merged' : merged'[a] \subseteq Accessed
      <4>1. \A a \in DOMAIN groups : groups[a].objects \subseteq Accessed
        BY <1>3 DEF Gathered
      <4> QED
        BY <3>2, <3>4, <4>1
    <3>7. ASSUME NEW n \in DOMAIN trace, Used(n) # {}
          PROVE  \E a \in DOMAIN merged' : Used(n) \subseteq merged'[a]
      <4>1. PICK b \in DOMAIN groups : Used(n) \subseteq groups[b].objects
        BY <1>3, <3>7, GroupsTogether
      <4>2. PICK a \in DOMAIN groups : p[a] = b
        BY <3>2
      <4> QED
        BY <3>4, <4>1, <4>2
    <3>8. Together(merged)'
      BY <1>1, <1>4, <3>7 DEF Together
    <3>9. i' <= Len(merged') + 1
      BY <1>1, <3>5
    <3> QED
      BY <1>4, <3>3, <3>5, <3>6, <3>8, <3>9 DEF MergedOK
  <2>2. CASE strategy # "layer"
    BY <1>1, <1>2, <2>2 DEF MergedOK
  <2> QED
    BY <2>1, <2>2
<1> QED
  BY <1>5, <1>6, <1>7, <1>8

(* Merging a group in leaves nothing out that was in before.               *)
LEMMA MergeKeeps ==
    ASSUME merged \in Seq(SUBSET (Objects \cup {None})),
           NEW group \in SUBSET (Objects \cup {None})
    PROVE  /\ Merge(group) \in Seq(SUBSET (Objects \cup {None}))
           /\ \A k \in DOMAIN merged : k \in DOMAIN Merge(group) /\ merged[k] \subseteq Merge(group)[k]
           /\ \E k \in DOMAIN Merge(group) : group \subseteq Merge(group)[k]
           /\ \A k \in DOMAIN Merge(group) :
                 Merge(group)[k] \subseteq group \cup UNION {merged[l] : l \in DOMAIN merged}
<1> DEFINE Sets == SUBSET (Objects \cup {None})
           all == UNION {merged[l] : l \in DOMAIN merged}
<1>1. DOMAIN merged = 1 .. Len(merged) /\ Len(merged) \in Nat
      /\ \A k \in DOMAIN merged : merged[k] \in Sets /\ merged[k] \subseteq all
  <2>1. \A k \in DOMAIN merged : merged[k] \in Sets
    <3> HIDE DEF Sets
    <3> QED
      BY DEF Sets
  <2> QED
    BY <2>1
<1>2. CASE Meets(group) = {}
  <2>1. Merge(group) = Append(merged, group)
    BY <1>2 DEF Merge
  <2> DEFINE new == Append(merged, group)
  <2>2. /\ new \in Seq(Sets) /\ DOMAIN new = 1 .. Len(merged) + 1
        /\ \A k \in 1 .. Len(merged) : new[k] = merged[k]
        /\ new[Len(merged) + 1] = group
    <3> HIDE DEF Sets
    <3> QED
      BY <1>1 DEF Sets
  <2> HIDE DEF new, Sets, all
  <2>3. \A k \in DOMAIN new : new[k] \subseteq group \cup all
    BY <1>1, <2>2
  <2>4. Len(merged) + 1 \in DOMAIN new /\ group \subseteq new[Len(merged) + 1]
    BY <1>1, <2>2
  <2>5. \A k \in DOMAIN merged : k \in DOMAIN new /\ merged[k] \subseteq new[k]
    BY <1>1, <2>2
  <2> QED
    BY <2>1, <2>2, <2>3, <2>4, <2>5 DEF new, all, Sets
<1>3. CASE Meets(group) # {}
  <2> DEFINE first == CHOOSE n \in Meets(group) : \A m \in Meets(group) : n <= m
             new == [merged EXCEPT ![first] = merged[first] \cup group]
  <2>1. Merge(group) = new
    BY <1>3 DEF Merge
  <2>2. first \in DOMAIN merged
    <3>1. Meets(group) \in SUBSET Nat
      BY <1>1 DEF Meets
    <3>2. \E n \in Meets(group) : \A m \in Meets(group) : n <= m
      BY <1>3, <3>1, MinIsLeast
    <3>3. first \in Meets(group)
      BY <3>2
    <3> QED
      BY <3>3 DEF Meets
  <2> HIDE DEF first
  <2>3. /\ DOMAIN new = DOMAIN merged
        /\ \A k \in DOMAIN merged : new[k] = IF k = first THEN merged[k] \cup group ELSE merged[k]
    BY <2>2
  <2> HIDE DEF all
  <2>4. \A k \in DOMAIN new : new[k] \in Sets /\ new[k] \subseteq group \cup all
    BY <1>1, <2>3
  <2>5. new \in Seq(Sets)
    <3>1. new = [k \in 1 .. Len(merged) |-> new[k]]
      BY <1>1, <2>3
    <3> HIDE DEF new, Sets
    <3> QED
      BY <1>1, <2>3, <2>4, <3>1
  <2>6. group \subseteq new[first] /\ first \in DOMAIN new
    BY <2>2, <2>3
  <2>7. \A k \in DOMAIN merged : k \in DOMAIN new /\ merged[k] \subseteq new[k]
    BY <2>3
  <2> QED
    BY <2>1, <2>4, <2>5, <2>6, <2>7 DEF all
<1> QED
  BY <1>2, <1>3

(* Once merged, a group is in one of the sets, and stays in it.            *)
LEMMA MergeGroupStep ==
    ASSUME LayoutInv, MergeGroup
    PROVE  LayoutInv'
<1> USE DEF LayoutInv
<1>1. /\ pc = "merge" /\ pc' = "merge" /\ i \in DOMAIN groups /\ i' = i + 1
      /\ merged' = Merge(groups[i].objects)
      /\ UNCHANGED <<trace, strategy, sizes, groups, bundles>>
  BY DEF MergeGroup
<1>2. /\ groups \in Seq(Group) /\ i \in Nat \ {0} /\ Gathered(Len(trace))
      /\ merged \in Seq(SUBSET (Objects \cup {None})) /\ bundles = <<>>
      /\ \A k \in DOMAIN merged : merged[k] \subseteq Accessed
      /\ \A a \in 1 .. i - 1 : \E k \in DOMAIN merged : groups[a].objects \subseteq merged[k]
  BY <1>1 DEF ArgsOK, GroupsOK, MergedOK, BundlesOK
<1>3. Accessed' = Accessed /\ Named(trace)' = Named(trace) /\ Bundling' = Bundling
      /\ \A n : Used(n)' = Used(n)
  BY <1>1, SameArgs
<1>4. DOMAIN groups = 1 .. Len(groups) /\ Len(groups) \in Nat
  BY <1>2
<1>5. groups[i].objects \in SUBSET (Objects \cup {None}) /\ groups[i].objects \subseteq Accessed
  <2>1. groups[i] \in Group
    BY <1>1, <1>2
  <2> QED
    BY <1>1, <1>2, <2>1 DEF Group, Gathered
<1>6. /\ merged' \in Seq(SUBSET (Objects \cup {None}))
      /\ \A k \in DOMAIN merged : k \in DOMAIN merged' /\ merged[k] \subseteq merged'[k]
      /\ \E k \in DOMAIN merged' : groups[i].objects \subseteq merged'[k]
      /\ \A k \in DOMAIN merged' :
            merged'[k] \subseteq groups[i].objects \cup UNION {merged[l] : l \in DOMAIN merged}
  BY <1>1, <1>2, <1>5, MergeKeeps
<1>7. \A k \in DOMAIN merged' : merged'[k] \subseteq Accessed
  <2>1. UNION {merged[l] : l \in DOMAIN merged} \subseteq Accessed
    BY <1>2
  <2> QED
    BY <1>5, <1>6, <2>1
<1>8. ASSUME NEW a \in 1 .. i
      PROVE  \E k \in DOMAIN merged' : groups[a].objects \subseteq merged'[k]
  <2>1. CASE a = i
    BY <1>6, <2>1
  <2>2. CASE a # i
    <3>1. a \in 1 .. i - 1
      BY <1>2, <2>2
    <3>2. PICK k \in DOMAIN merged : groups[a].objects \subseteq merged[k]
      BY <1>2, <3>1
    <3> QED
      BY <1>6, <3>2
  <2> QED
    BY <2>1, <2>2
<1>9. \A a \in 1 .. i' - 1 : \E k \in DOMAIN merged' : groups'[a].objects \subseteq merged'[k]
  <2>1. i' - 1 = i
    BY <1>1, <1>2
  <2> QED
    BY <1>1, <1>8, <2>1
<1>10. MergedOK'
  <2>1. i' <= Len(groups') + 1
    BY <1>1, <1>4
  <2> QED
    BY <1>1, <1>3, <1>6, <1>7, <1>9, <2>1 DEF MergedOK
<1>11. ArgsOK'
  BY <1>1, <1>2, <1>3 DEF ArgsOK
<1>12. GroupsOK'
  BY <1>1, <1>2 DEF GroupsOK, Gathered, Accessed, GroupKey
<1>13. BundlesOK'
  BY <1>1, <1>2, <1>3 DEF BundlesOK, PagesOK, Linearized
<1> QED
  BY <1>10, <1>11, <1>12, <1>13

(* When all groups are merged, what is used together is in one of the sets.*)
LEMMA EndMergingStep ==
    ASSUME LayoutInv, EndMerging
    PROVE  LayoutInv'
<1> USE DEF LayoutInv
<1>1. /\ pc = "merge" /\ pc' = "place" /\ i \notin DOMAIN groups /\ i' = 1
      /\ UNCHANGED <<trace, strategy, sizes, groups, merged, bundles>>
  BY DEF EndMerging
<1>2. /\ groups \in Seq(Group) /\ i \in Nat \ {0} /\ Gathered(Len(trace))
      /\ merged \in Seq(SUBSET (Objects \cup {None})) /\ bundles = <<>>
      /\ \A k \in DOMAIN merged : merged[k] \subseteq Accessed
      /\ \A a \in 1 .. i - 1 : \E k \in DOMAIN merged : groups[a].objects \subseteq merged[k]
      /\ i <= Len(groups) + 1 /\ Bundling
  BY <1>1 DEF ArgsOK, GroupsOK, MergedOK, BundlesOK
<1>3. Accessed' = Accessed /\ Named(trace)' = Named(trace) /\ Bundling' = Bundling
      /\ \A n : Used(n)' = Used(n)
  BY <1>1, SameArgs
<1>4. \A a \in DOMAIN groups : \E k \in DOMAIN merged : groups[a].objects \subseteq merged[k]
  <2>1. DOMAIN groups = 1 .. Len(groups) /\ Len(groups) \in Nat
    BY <1>2
  <2>2. i - 1 = Len(groups)
    BY <1>1, <1>2, <2>1
  <2> QED
    BY <1>2, <2>1, <2>2
<1>5. Together(merged)
  <2> SUFFICES ASSUME NEW n \in DOMAIN trace, Used(n) # {}
               PROVE  \E k \in DOMAIN merged : Used(n) \subseteq merged[k]
    BY DEF Together
  <2>1. PICK a \in DOMAIN groups : Used(n) \subseteq groups[a].objects
    BY <1>2, GroupsTogether
  <2>2. PICK k \in DOMAIN merged : groups[a].objects \subseteq merged[k]
    BY <1>4
  <2> QED
    BY <2>1, <2>2
<1>6. Together(merged)'
  BY <1>1, <1>3, <1>5 DEF Together
<1>7. MergedOK'
  <2>1. i' <= Len(merged') + 1
    BY <1>1, <1>2
  <2> QED
    BY <1>1, <1>2, <1>3, <1>6, <2>1 DEF MergedOK
<1>8. ArgsOK'
  BY <1>1, <1>2, <1>3 DEF ArgsOK
<1>9. GroupsOK'
  BY <1>1, <1>2 DEF GroupsOK
<1>10. BundlesOK'
  BY <1>1, <1>2, <1>3 DEF BundlesOK, PagesOK, Linearized
<1> QED
  BY <1>7, <1>8, <1>9, <1>10

(* A bundle is placed behind the others, on whole pages that hold its      *)
(* objects.                                                                *)
LEMMA PlaceStep ==
    ASSUME LayoutInv, Place
    PROVE  LayoutInv'
<1> USE DEF LayoutInv
<1> DEFINE added == [objects |-> merged[i], offset |-> Offset, size |-> PagesOf(merged[i])]
           n == Len(bundles)
<1>1. /\ pc = "place" /\ pc' = "place" /\ i \in DOMAIN merged /\ i' = i + 1
      /\ None \notin merged[i]
      /\ bundles' = Append(bundles, added)
      /\ UNCHANGED <<trace, strategy, sizes, groups, merged>>
  BY DEF Place
<1>2. /\ groups \in Seq(Group) /\ i \in Nat \ {0}
      /\ merged \in Seq(SUBSET (Objects \cup {None}))
      /\ \A k \in DOMAIN merged : merged[k] \subseteq Accessed
      /\ Together(merged) /\ i <= Len(merged) + 1 /\ Bundling
      /\ bundles \in Seq(Bundle) /\ n = i - 1 /\ n \in Nat /\ DOMAIN bundles = 1 .. n
      /\ \A k \in DOMAIN bundles : bundles[k].objects = merged[k]
      /\ PagesOK
  BY <1>1 DEF ArgsOK, GroupsOK, MergedOK, BundlesOK
<1>3. Accessed' = Accessed /\ Named(trace)' = Named(trace) /\ Bundling' = Bundling
      /\ \A m : Used(m)' = Used(m)
  BY <1>1, SameArgs
<1>4. merged[i] \subseteq Named(trace) /\ Named(trace) \subseteq Objects
  BY <1>1, <1>2, AccessedFinite, AccessedTyped
<1>5. /\ PagesOf(merged[i]) \in Nat
      /\ PagesOf(merged[i]) % PageAlignment = 0
      /\ SumFunctionOnSet(sizes, merged[i]) <= PagesOf(merged[i])
  BY <1>1, <1>2, <1>4, PagesHold
<1>6. /\ Offset \in Nat /\ Offset % PageAlignment = 0
      /\ Offset = IF n = 0 THEN 0 ELSE bundles[n].offset + bundles[n].size
  <2>1. CASE n = 0
    <3>1. bundles = <<>>
      BY <1>2, <2>1
    <3>2. 0 % PageAlignment = 0
      BY LayoutAssumption
    <3> QED
      BY <2>1, <3>1, <3>2 DEF Offset, EndOfBundles
  <2>2. CASE n # 0
    <3>1. n \in DOMAIN bundles /\ bundles # <<>>
      BY <1>2, <2>2
    <3>2. bundles[n] \in Bundle
      BY <1>2, <3>1
    <3>3. /\ bundles[n].offset \in Nat /\ bundles[n].size \in Nat
          /\ bundles[n].offset % PageAlignment = 0 /\ bundles[n].size % PageAlignment = 0
      BY <1>2, <3>1, <3>2 DEF PagesOK, Bundle
    <3>4. Offset = bundles[n].offset + bundles[n].size
      BY <3>1 DEF Offset, EndOfBundles, Last
    <3>5. (bundles[n].offset + bundles[n].size) % PageAlignment = 0
      BY <3>3, LayoutAssumption, WholePages
    <3> QED
      BY <2>2, <3>3, <3>4, <3>5
  <2> QED
    BY <2>1, <2>2
<1>7. /\ added \in Bundle /\ added.objects = merged[i]
      /\ added.offset = Offset /\ added.size = PagesOf(merged[i])
  BY <1>4, <1>5, <1>6 DEF Bundle
<1> HIDE DEF added
<1>8. /\ bundles' \in Seq(Bundle) /\ DOMAIN bundles' = 1 .. n + 1 /\ Len(bundles') = n + 1
      /\ \A k \in 1 .. n : bundles'[k] = bundles[k]
      /\ bundles'[n + 1] = added
  BY <1>1, <1>2, <1>7
<1> HIDE DEF n
<1>9. PagesOK'
  <2>1. ASSUME NEW k \in DOMAIN bundles'
        PROVE  /\ bundles'[k].offset =
                    IF k = 1 THEN 0 ELSE bundles'[k - 1].offset + bundles'[k - 1].size
               /\ bundles'[k].offset % PageAlignment = 0
               /\ bundles'[k].size % PageAlignment = 0
               /\ bundles'[k].objects \subseteq Named(trace)
               /\ SumFunctionOnSet(sizes, bundles'[k].objects) <= bundles'[k].size
    <3>1. CASE k = n + 1
      <4>1. bundles'[k].offset = IF k = 1 THEN 0 ELSE bundles'[k - 1].offset + bundles'[k - 1].size
        <5>1. CASE n = 0
          BY <1>2, <1>6, <1>7, <1>8, <3>1, <5>1
        <5>2. CASE n # 0
          <6>1. k - 1 = n /\ n \in 1 .. n /\ k # 1
            BY <1>2, <3>1, <5>2
          <6> QED
            BY <1>6, <1>7, <1>8, <3>1, <5>2, <6>1
        <5> QED
          BY <5>1, <5>2
      <4> QED
        BY <1>4, <1>5, <1>6, <1>7, <1>8, <3>1, <4>1
    <3>2. CASE k # n + 1
      <4>1. k \in 1 .. n /\ bundles'[k] = bundles[k] /\ k \in DOMAIN bundles
        BY <1>2, <1>8, <3>2
      <4>2. k # 1 => bundles'[k - 1] = bundles[k - 1]
        BY <1>2, <1>8, <4>1
      <4> QED
        BY <1>2, <4>1, <4>2 DEF PagesOK
    <3> QED
      BY <3>1, <3>2
  <2> QED
    BY <1>1, <1>3, <2>1 DEF PagesOK
<1>10. BundlesOK'
  <2>1. \A k \in DOMAIN bundles' : bundles'[k].objects = merged[k]
    BY <1>2, <1>7, <1>8
  <2>2. Len(bundles') = i' - 1
    BY <1>1, <1>2, <1>8
  <2>3. ~ Linearized' /\ Bundling'
    BY <1>1, <1>2, <1>3 DEF Linearized
  <2> QED
    BY <1>1, <1>8, <1>9, <2>1, <2>2, <2>3 DEF BundlesOK
<1>11. MergedOK'
  <2>1. i' <= Len(merged') + 1
    BY <1>1, <1>2
  <2>2. Together(merged)'
    BY <1>1, <1>2, <1>3 DEF Together
  <2> QED
    BY <1>1, <1>2, <1>3, <2>1, <2>2 DEF MergedOK
<1>12. ArgsOK'
  BY <1>1, <1>2, <1>3 DEF ArgsOK
<1>13. GroupsOK'
  BY <1>1, <1>2 DEF GroupsOK
<1> QED
  BY <1>9, <1>10, <1>11, <1>12, <1>13

(* All sets are placed: the bundles have what is used together.            *)
LEMMA EndPlacingStep ==
    ASSUME LayoutInv, EndPlacing
    PROVE  LayoutInv'
<1> USE DEF LayoutInv
<1>1. /\ pc = "place" /\ pc' = "pack" /\ i \notin DOMAIN merged
      /\ UNCHANGED <<i, trace, strategy, sizes, groups, merged, bundles>>
  BY DEF EndPlacing
<1>2. /\ groups \in Seq(Group) /\ i \in Nat \ {0}
      /\ merged \in Seq(SUBSET (Objects \cup {None}))
      /\ Together(merged) /\ i <= Len(merged) + 1 /\ Bundling
      /\ bundles \in Seq(Bundle) /\ Len(bundles) = i - 1
      /\ \A k \in DOMAIN bundles : bundles[k].objects = merged[k]
      /\ PagesOK
  BY <1>1 DEF ArgsOK, GroupsOK, MergedOK, BundlesOK
<1>3. Accessed' = Accessed /\ Named(trace)' = Named(trace) /\ Bundling' = Bundling
      /\ \A m : Used(m)' = Used(m)
  BY <1>1, SameArgs
<1> DEFINE sets == [k \in DOMAIN bundles |-> bundles[k].objects]
<1>4. \A k \in DOMAIN merged : k \in DOMAIN sets /\ merged[k] \subseteq sets[k]
  <2>1. DOMAIN merged = 1 .. Len(merged) /\ Len(merged) \in Nat /\ DOMAIN bundles = 1 .. Len(bundles)
    BY <1>2
  <2>2. DOMAIN merged = DOMAIN bundles
    BY <1>1, <1>2, <2>1
  <2> QED
    BY <1>2, <2>2
<1>5. Together(sets)
  BY <1>2, <1>4, TogetherIn
<1>6. Together([k \in DOMAIN bundles |-> bundles[k].objects])'
  BY <1>1, <1>3, <1>5 DEF Together
<1>7. PagesOK'
  BY <1>1, <1>2, <1>3 DEF PagesOK
<1>8. BundlesOK'
  <2>1. Bundling'
    BY <1>2, <1>3
  <2> QED
    BY <1>1, <1>2, <1>6, <1>7, <2>1 DEF BundlesOK
<1>9. ArgsOK' /\ GroupsOK' /\ MergedOK'
  BY <1>1, <1>2, <1>3 DEF ArgsOK, GroupsOK, MergedOK
<1> QED
  BY <1>8, <1>9

(* The other steps, the packer's and the analyzer's among them, leave all  *)
(* of this as it is.                                                       *)
LEMMA OtherStep ==
    ASSUME LayoutInv, UNCHANGED <<trace, strategy, sizes, groups, merged, bundles>>,
           i' \in Nat \ {0},
           \/ pc' = pc /\ i' = i
           \/ pc = "place" /\ pc' = "raised"
           \/ pc \in {"pack", "payload"} /\ pc' \in {"payload", "done"}
           \/ pc = "analyze" /\ pc' = "analyzed"
    PROVE  LayoutInv'
<1> USE DEF LayoutInv
<1>1. Accessed' = Accessed /\ Named(trace)' = Named(trace) /\ Bundling' = Bundling
      /\ \A m : Used(m)' = Used(m)
  BY SameArgs
<1>2. PagesOK => PagesOK'
  BY <1>1 DEF PagesOK
<1>3. Linearized' => Linearized
  BY DEF Linearized
<1>4. Together(merged) => Together(merged)'
  BY <1>1 DEF Together
<1>5. Together([n \in DOMAIN bundles |-> bundles[n].objects]) =>
         Together([n \in DOMAIN bundles |-> bundles[n].objects])'
  BY <1>1 DEF Together
<1>6. ArgsOK'
  <2>1. \/ pc' = pc /\ i' = i
        \/ pc # "size" /\ pc' \in {"raised", "payload", "done", "analyzed"}
    OBVIOUS
  <2>2. trace' = trace /\ sizes' = sizes /\ strategy' = strategy
    OBVIOUS
  <2>3. ArgsOK
    OBVIOUS
  <2>4. /\ pc' \in {"size", "group", "merge", "place", "pack", "payload", "done", "raised",
                  "analyze", "analyzed"}
        /\ pc' \in {"group", "merge", "place"} => Bundling
        /\ pc' = "size" => i' = 1
        /\ pc' = "merge" => strategy = "coaccess"
    BY <2>1, <2>3 DEF ArgsOK
  <2>5. Bundling' /\ pc' # "size" => sizes' \in [Named(trace)' -> Nat]
    <3>1. Bundling' /\ pc' # "size" => Bundling /\ pc # "size"
      BY <1>1, <2>1
    <3>2. Bundling /\ pc # "size" => sizes \in [Named(trace) -> Nat]
      BY <2>3 DEF ArgsOK
    <3>3. sizes \in [Named(trace) -> Nat] => sizes' \in [Named(trace)' -> Nat]
      BY <1>1, <2>2, Zenon
    <3> QED
      BY <3>1, <3>2, <3>3
  <2> QED
    BY <2>2, <2>3, <2>4, <2>5, Zenon DEF ArgsOK, Bundling
<1>7. GroupsOK'
  <2>1. \/ pc' = pc /\ i' = i
        \/ pc' \in {"raised", "payload", "done", "analyzed"}
    OBVIOUS
  <2>2. GroupsOK /\ groups' = groups /\ trace' = trace /\ strategy' = strategy
    OBVIOUS
  <2>3. CASE pc' = pc /\ i' = i
    BY <2>2, <2>3 DEF GroupsOK, Gathered, Accessed, GroupKey
  <2>4. CASE pc' \in {"raised", "payload", "done", "analyzed"}
    BY <2>2, <2>4 DEF GroupsOK
  <2> QED
    BY <2>1, <2>3, <2>4
<1>8. MergedOK'
  BY <1>1, <1>4 DEF MergedOK
<1>9. BundlesOK'
  BY <1>1, <1>2, <1>3, <1>5 DEF BundlesOK
<1> QED
  BY <1>6, <1>7, <1>8, <1>9

(* Every step of the tools keeps the invariant.                            *)
LEMMA LayoutStep == LayoutInv /\ [Next]_vars => LayoutInv'
<1> SUFFICES ASSUME LayoutInv, [Next]_vars PROVE LayoutInv'
  OBVIOUS
<1>0. i \in Nat \ {0}
  BY DEF LayoutInv, ArgsOK
<1>1. CASE PlaceRaises
  BY <1>0, <1>1, OtherStep DEF PlaceRaises
<1>2. CASE WriteTable
  BY <1>0, <1>2, OtherStep DEF WriteTable
<1>3. CASE WritePayload
  BY <1>0, <1>3, OtherStep DEF WritePayload
<1>4. CASE EndPacking
  BY <1>0, <1>4, OtherStep DEF EndPacking
<1>5. CASE Analyze
  BY <1>0, <1>5, OtherStep DEF Analyze
<1>6. CASE UNCHANGED vars
  BY <1>0, <1>6, OtherStep DEF vars
<1> QED
  BY <1>1, <1>2, <1>3, <1>4, <1>5, <1>6, MapSizesStep, GroupEventStep, EndGroupingStep,
     MergeGroupStep, EndMergingStep, PlaceStep, EndPlacingStep DEF Next

(* Whatever the trace, the strategy and the sizes: every object accessed   *)
(* is in a bundle, and every bundle has room for its objects.              *)
THEOREM NobodyIsLost == Spec => []EveryObjectPlaced
<1>1. LayoutInv => EveryObjectPlaced
  <2> SUFFICES ASSUME LayoutInv, Linearized PROVE EveryObjectPlaced
    BY DEF EveryObjectPlaced
  <2> DEFINE placed == UNION {bundles[n].objects : n \in DOMAIN bundles}
  <2>1. /\ ArgsOK /\ PagesOK
        /\ Together([n \in DOMAIN bundles |-> bundles[n].objects])
    BY DEF LayoutInv, BundlesOK, Linearized, Bundling
  <2>2. placed \subseteq Named(trace)
    BY <2>1 DEF PagesOK
  <2>3. ASSUME NEW o \in Named(trace) PROVE o \in placed
    <3>1. PICK n \in DOMAIN trace : trace[n].object = o /\ o # None
      BY DEF Named
    <3>2. o \in Used(n)
      BY <3>1 DEF Used
    <3>3. PICK k \in DOMAIN bundles : Used(n) \subseteq bundles[k].objects
      BY <2>1, <3>2 DEF Together
    <3> QED
      BY <3>2, <3>3
  <2>4. Named(trace) = placed
    BY <2>2, <2>3
  <2> QED
    BY <2>1, <2>4 DEF EveryObjectPlaced, PagesOK
<1> QED
  BY <1>1, LayoutInit, LayoutStep, PTL DEF Spec

(* The objects of one layer, or of one token and step, are in one bundle.  *)
THEOREM MatesStayTogether == Spec => []KeptTogether
<1>1. LayoutInv => KeptTogether
  <2> SUFFICES ASSUME LayoutInv, Linearized PROVE KeptTogether
    BY DEF KeptTogether
  <2>1. Together([n \in DOMAIN bundles |-> bundles[n].objects])
    BY DEF LayoutInv, BundlesOK
  <2> SUFFICES
        ASSUME NEW n \in DOMAIN trace
        PROVE  LET mates == {m \in DOMAIN trace :
                               IF strategy = "layer"
                                 THEN trace[m].layer = trace[n].layer
                                 ELSE trace[m].key = trace[n].key}
                   used  == {trace[m].object : m \in mates} \ {None}
               IN  used # {} => \E b \in DOMAIN bundles : used \subseteq bundles[b].objects
    BY DEF KeptTogether
  <2> DEFINE mates == {m \in DOMAIN trace :
                         IF strategy = "layer"
                           THEN trace[m].layer = trace[n].layer
                           ELSE trace[m].key = trace[n].key}
             used == {trace[m].object : m \in mates} \ {None}
  <2>2. used = Used(n)
    BY DEF Used, GroupKey
  <2> HIDE DEF used
  <2>3. used # {} => \E b \in DOMAIN bundles : used \subseteq bundles[b].objects
    BY <2>1, <2>2 DEF Together
  <2> QED
    BY <2>3 DEF used
<1> QED
  BY <1>1, LayoutInit, LayoutStep, PTL DEF Spec

-----------------------------------------------------------------------------
(* The packer *)

(* An offset in the file is a number, and so is where a payload begins.    *)
PositionOK == pos \in Nat /\ payloads \in Seq(Nat)

(* The offsets and sizes of the bundles, by the linearizer or from         *)
(* elsewhere, are numbers.                                                 *)
LEMMA BundleTyped ==
    ASSUME LayoutInv, NEW n \in DOMAIN bundles
    PROVE  bundles[n].offset \in Nat /\ bundles[n].size \in Nat
<1>1. bundles[n] \in Bundle
  BY DEF LayoutInv, BundlesOK
<1> QED
  BY <1>1 DEF Bundle

(* Every step keeps the position a number.                                 *)
LEMMA PositionStep == LayoutInv /\ PositionOK /\ [Next]_vars => PositionOK'
<1> SUFFICES ASSUME LayoutInv, PositionOK, [Next]_vars PROVE PositionOK'
  OBVIOUS
<1>1. CASE WriteTable
  <2>1. DeclaredHeader + RowSize * Len(bundles) \in Nat
    BY DEF LayoutInv, BundlesOK, DeclaredHeader, RowSize
  <2>2. AlignUp(DeclaredHeader + RowSize * Len(bundles), PackAlignment) \in Nat
    BY <2>1, LayoutAssumption, RoundedUp
  <2> QED
    BY <1>1, <2>2 DEF WriteTable, PositionOK
<1>2. CASE WritePayload
  <2>1. i \in DOMAIN bundles /\ payloads' = Append(payloads, Padded)
        /\ pos' = Padded + bundles[i].size
    BY <1>2 DEF WritePayload
  <2>2. Padded \in Nat /\ bundles[i].size \in Nat
    BY <2>1, BundleTyped DEF Padded, PositionOK
  <2> QED
    BY <2>1, <2>2 DEF PositionOK
<1> QED
  BY <1>1, <1>2 DEF PositionOK, Next, MapSizes, GroupEvent, EndGrouping, MergeGroup,
     EndMerging, Place, PlaceRaises, EndPlacing, EndPacking, Analyze, vars

(* The variables of the tools keep their types, and the bundles of the     *)
(* linearizer are whole pages.                                             *)
THEOREM ToolTypes == Spec => []TypeOK
<1>1. Init => PositionOK
  BY DEF Init, PositionOK
<1>2. LayoutInv /\ PositionOK => TypeOK
  <2> SUFFICES ASSUME LayoutInv, PositionOK PROVE TypeOK
    OBVIOUS
  <2>1. trace # <<>> =>
          \A n \in DOMAIN bundles :
             bundles[n].offset % PageAlignment = 0 /\ bundles[n].size % PageAlignment = 0
    <3>1. CASE Bundling
      BY <3>1 DEF LayoutInv, BundlesOK, PagesOK
    <3>2. CASE ~Bundling
      BY <3>2 DEF LayoutInv, BundlesOK
    <3> QED
      BY <3>1, <3>2
  <2> QED
    BY <2>1 DEF LayoutInv, ArgsOK, GroupsOK, MergedOK, BundlesOK, PositionOK, TypeOK, Group
<1> QED
  BY <1>1, <1>2, LayoutInit, LayoutStep, PositionStep, PTL DEF Spec

(* What makes PackedInOrder inductive: the file ends where the last of the *)
(* payloads does, or behind the table when there is none.                  *)
PackOK ==
    /\ pc \notin {"payload", "done"} => payloads = <<>>
    /\ pc = "payload" =>
          /\ i = Len(payloads) + 1
          /\ Len(payloads) <= Len(bundles)
          /\ TableEnd <= pos
          /\ \A n \in DOMAIN payloads : n = Len(payloads) => pos = payloads[n] + bundles[n].size
    /\ PackedInOrder

(* An alignment that is a multiple of a row leaves room for the twelve     *)
(* bytes that the header has and does not declare.                         *)
LEMMA TableFits ==
    ASSUME PackAlignment % RowSize = 0, NEW n \in Nat
    PROVE  WrittenHeader + RowSize * n <= AlignUp(DeclaredHeader + RowSize * n, PackAlignment)
<1> DEFINE declared == DeclaredHeader + RowSize * n
           start == AlignUp(declared, PackAlignment)
<1>1. declared = 56 + 256 * n /\ declared \in Nat
  BY DEF DeclaredHeader, RowSize
<1>2. start \in Nat /\ start >= declared /\ start % PackAlignment = 0
  BY <1>1, LayoutAssumption, RoundedUp
<1> HIDE DEF start, declared
<1>3. PICK k \in Nat : start = PackAlignment * k
  <2>1. start = PackAlignment * (start \div PackAlignment) /\ start \div PackAlignment \in Nat
    BY <1>2, LayoutAssumption
  <2> QED
    BY <2>1
<1>4. PICK j \in Nat : PackAlignment = 256 * j
  <2>1. PackAlignment = 256 * (PackAlignment \div 256) /\ PackAlignment \div 256 \in Nat
    BY LayoutAssumption DEF RowSize
  <2> QED
    BY <2>1
<1>5. start = 256 * (j * k) /\ j * k \in Nat
  BY <1>3, <1>4
<1>6. start >= 256 * (n + 1)
  <2> DEFINE rows == j * k
  <2>1. start = 256 * rows /\ rows \in Nat
    BY <1>5
  <2> HIDE DEF rows
  <2> QED
    BY <1>1, <1>2, <2>1
<1>7. start >= 68 + 256 * n
  <2>1. 256 * (n + 1) = 256 * n + 256 /\ 256 * n \in Nat
    OBVIOUS
  <2> QED
    BY <1>2, <1>6, <2>1
<1>8. WrittenHeader + RowSize * n = 68 + 256 * n
  BY DEF WrittenHeader, RowSize
<1>9. WrittenHeader + RowSize * n <= start
  <2>1. 256 * n \in Nat
    OBVIOUS
  <2> QED
    BY <1>2, <1>7, <1>8, <2>1
<1> QED
  BY <1>9 DEF start, declared

(* A payload is written where the file ends, or at the offset of its       *)
(* bundle if that is further on: never so for the linearizer's bundles.    *)
LEMMA PayloadStep ==
    ASSUME LayoutInv, PositionOK, PackOK, WritePayload
    PROVE  PackOK'
<1> DEFINE n == Len(payloads)
<1>1. /\ pc = "payload" /\ pc' = "payload" /\ i \in DOMAIN bundles /\ i' = i + 1
      /\ payloads' = Append(payloads, Padded) /\ pos' = Padded + bundles[i].size
      /\ UNCHANGED <<trace, strategy, bundles>>
  BY DEF WritePayload
<1>2. /\ i = n + 1 /\ n \in Nat /\ TableEnd <= pos /\ pos \in Nat /\ payloads \in Seq(Nat)
      /\ n > 0 => pos = payloads[n] + bundles[n].size
      /\ DOMAIN payloads = 1 .. n /\ DOMAIN bundles = 1 .. Len(bundles) /\ Len(bundles) \in Nat
  BY <1>1 DEF PackOK, PositionOK, LayoutInv, BundlesOK
<1>3. i \in DOMAIN bundles /\ i <= Len(bundles) /\ bundles[i].offset \in Nat /\ bundles[i].size \in Nat
  BY <1>1, <1>2, BundleTyped
<1>4. Padded \in Nat /\ pos <= Padded /\ bundles[i].offset <= Padded
  BY <1>2, <1>3 DEF Padded
<1>5. TableEnd \in Nat /\ TableEnd' = TableEnd
  BY <1>1, <1>2 DEF TableEnd, WrittenHeader, RowSize
<1> HIDE DEF n
<1>6. /\ payloads' \in Seq(Nat) /\ Len(payloads') = n + 1 /\ DOMAIN payloads' = 1 .. n + 1
      /\ \A k \in 1 .. n : payloads'[k] = payloads[k]
      /\ payloads'[n + 1] = Padded
  BY <1>1, <1>2, <1>4 DEF n
<1>7. Linearized' = Linearized
  BY <1>1 DEF Linearized
<1>8. ASSUME Linearized, n > 0 PROVE Padded = payloads[1] + bundles[i].offset
  <2>1. n \in DOMAIN bundles /\ n \in DOMAIN payloads /\ 1 \in DOMAIN payloads
        /\ i - 1 = n /\ i # 1
    BY <1>2, <1>3, <1>8
  <2>2. bundles[n].offset \in Nat /\ bundles[n].size \in Nat
    BY <2>1, BundleTyped
  <2>3. bundles[i].offset = bundles[n].offset + bundles[n].size
    BY <1>3, <1>8, <2>1 DEF LayoutInv, BundlesOK, PagesOK, Linearized, Bundling
  <2>4. payloads[n] = payloads[1] + bundles[n].offset /\ payloads[1] \in Nat
    BY <1>2, <1>8, <2>1 DEF PackOK, PackedInOrder
  <2>p. pos = payloads[n] + bundles[n].size
    BY <1>2, <1>8
  <2>5. pos = payloads[1] + bundles[i].offset
    BY <2>2, <2>3, <2>4, <2>p
  <2> QED
    BY <1>2, <1>3, <2>4, <2>5 DEF Padded
<1>9. Linearized => bundles[1].offset = 0
  <2>1. 1 \in DOMAIN bundles
    BY <1>2, <1>3
  <2> QED
    BY <2>1 DEF LayoutInv, BundlesOK, PagesOK, Linearized, Bundling
<1>10. ASSUME NEW k \in DOMAIN payloads'
       PROVE  /\ TableEnd <= payloads'[k]
              /\ bundles[k].offset <= payloads'[k]
              /\ k > 1 => payloads'[k - 1] + bundles[k - 1].size <= payloads'[k]
              /\ Linearized => payloads'[k] = payloads'[1] + bundles[k].offset
  <2>1. CASE k = n + 1
    <3>1. k = i /\ payloads'[k] = Padded
      BY <1>2, <1>6, <2>1
    <3>2. k > 1 => payloads'[k - 1] + bundles[k - 1].size <= payloads'[k]
      <4>1. ASSUME k > 1 PROVE n > 0 /\ k - 1 = n /\ payloads'[k - 1] = payloads[n]
        BY <1>2, <1>6, <2>1, <4>1
      <4> QED
        BY <1>2, <1>4, <3>1, <4>1
    <3>3. Linearized => payloads'[k] = payloads'[1] + bundles[k].offset
      <4>1. CASE n > 0
        <5>1. payloads'[1] = payloads[1]
          BY <1>2, <1>6, <4>1
        <5> QED
          BY <1>8, <3>1, <4>1, <5>1
      <4>2. CASE n = 0
        BY <1>4, <1>6, <1>9, <2>1, <3>1, <4>2
      <4> QED
        BY <1>2, <4>1, <4>2
    <3> QED
      BY <1>2, <1>4, <1>5, <3>1, <3>2, <3>3
  <2>2. CASE k # n + 1
    <3>1. k \in 1 .. n /\ k \in DOMAIN payloads /\ payloads'[k] = payloads[k]
          /\ payloads'[1] = payloads[1]
      BY <1>2, <1>6, <2>2
    <3>2. k > 1 => payloads'[k - 1] = payloads[k - 1]
      BY <1>2, <1>6, <3>1
    <3> QED
      BY <3>1, <3>2 DEF PackOK, PackedInOrder
  <2> QED
    BY <2>1, <2>2
<1>11. PackedInOrder'
  BY <1>1, <1>5, <1>7, <1>10 DEF PackedInOrder
<1>12. /\ i' = Len(payloads') + 1 /\ Len(payloads') <= Len(bundles')
       /\ TableEnd' <= pos'
       /\ \A k \in DOMAIN payloads' :
             k = Len(payloads') => pos' = payloads'[k] + bundles'[k].size
  BY <1>1, <1>2, <1>3, <1>4, <1>5, <1>6
<1> QED
  BY <1>1, <1>11, <1>12 DEF PackOK

(* Every other step leaves the payloads alone.                             *)
LEMMA PackStep ==
    ASSUME PackAlignment % RowSize = 0, LayoutInv, PositionOK, PackOK, [Next]_vars
    PROVE  PackOK'
<1>1. CASE WritePayload
  BY <1>1, PayloadStep
<1>2. CASE WriteTable
  <2>1. /\ pc = "pack" /\ pc' = "payload" /\ i' = 1 /\ payloads = <<>> /\ payloads' = <<>>
        /\ pos' = AlignUp(DeclaredHeader + RowSize * Len(bundles), PackAlignment)
        /\ bundles' = bundles /\ Len(bundles) \in Nat
    BY <1>2 DEF WriteTable, PackOK, LayoutInv, BundlesOK
  <2>2. TableEnd' <= pos'
    BY <2>1, TableFits DEF TableEnd
  <2> QED
    BY <2>1, <2>2 DEF PackOK, PackedInOrder
<1>3. ASSUME payloads' = payloads, pc \notin {"payload", "done"}, pc' \notin {"payload", "done"}
      PROVE  PackOK'
  BY <1>3 DEF PackOK, PackedInOrder
<1>4. ASSUME UNCHANGED <<payloads, bundles, strategy>>, pc' = "done", pc = "payload"
      PROVE  PackOK'
  BY <1>4 DEF PackOK, PackedInOrder, TableEnd, Linearized
<1>5. CASE EndPacking
  BY <1>4, <1>5 DEF EndPacking
<1>6. CASE UNCHANGED vars
  BY <1>6 DEF vars, PackOK, PackedInOrder, TableEnd, Linearized
<1>7. CASE MapSizes \/ GroupEvent \/ EndGrouping \/ MergeGroup \/ EndMerging
  BY <1>3, <1>7 DEF MapSizes, GroupEvent, EndGrouping, MergeGroup, EndMerging
<1>8. CASE Place \/ PlaceRaises \/ EndPlacing \/ Analyze
  BY <1>3, <1>8 DEF Place, PlaceRaises, EndPlacing, Analyze
<1> QED
  BY <1>1, <1>2, <1>5, <1>6, <1>7, <1>8 DEF Next

(* With an alignment of whole rows, as the default is: payloads follow the *)
(* table, in order and without overlap, none before the offset of its      *)
(* bundle, and all those of the linearizer are shifted by one distance.    *)
THEOREM PayloadsFollowTheTable ==
    ASSUME PackAlignment % RowSize = 0
    PROVE  Spec => []PackedInOrder
<1>1. Init => PositionOK /\ PackOK
  BY DEF Init, PositionOK, PackOK, PackedInOrder
<1>2. LayoutInv /\ PositionOK /\ PackOK /\ [Next]_vars => PackOK'
  BY PackStep
<1>3. PackOK => PackedInOrder
  BY DEF PackOK
<1> QED
  BY <1>1, <1>2, <1>3, LayoutInit, LayoutStep, PositionStep, PTL DEF Spec

-----------------------------------------------------------------------------
(* The analyzer *)

Report == [prev_ok : BOOLEAN, prev_block : Nat \cup {NoBlock},
           sequential_runs : Nat, raised : BOOLEAN]

\* The block that the n-th access of a trace is to.
BlockAt(t, n) == Block[t[n].object]

(* What the fold of analyze_trace computes for every set of events.        *)
Analyses(t, D, it) ==
    it = [s \in D |-> IF s = {} THEN Nothing
                      ELSE AnalyzeEvent(it[s \ {Max(s)}], t[Max(s)])]

(* The greatest number of a set of the first n + 1 is n + 1, if it has it. *)
LEMMA LastOfInterval ==
    ASSUME NEW n \in Nat, NEW s \in SUBSET (1 .. n + 1), s # {}
    PROVE  /\ Max(s) \in s
           /\ n + 1 \in s => Max(s) = n + 1
<1>1. s \in SUBSET Nat /\ n + 1 \in Nat /\ \A y \in s : y <= n + 1
  OBVIOUS
<1>2. Max(s) \in s /\ \A y \in s : y <= Max(s)
  BY <1>1, MaxIsGreatest
<1>3. ASSUME n + 1 \in s PROVE Max(s) = n + 1
  <2> DEFINE k == Max(s)
  <2>1. k \in Nat /\ k <= n + 1 /\ n + 1 <= k
    BY <1>1, <1>2, <1>3
  <2> HIDE DEF k
  <2>2. k = n + 1
    BY <2>1
  <2> QED
    BY <2>2 DEF k
<1> QED
  BY <1>2, <1>3

(* The function that the fold computes exists: it is built up over the     *)
(* sets of the first n events, for each n.                                 *)
LEMMA AnalysesExist ==
    ASSUME NEW t, NEW n \in Nat
    PROVE  \E it : Analyses(t, SUBSET (1 .. n), it)
<1> DEFINE G == {k \in Nat : \E it : Analyses(t, SUBSET (1 .. k), it)}
<1>1. 0 \in G
  <2>1. \A s \in SUBSET (1 .. 0) : s = {}
    OBVIOUS
  <2>2. Analyses(t, SUBSET (1 .. 0), [s \in SUBSET (1 .. 0) |-> Nothing])
    BY <2>1 DEF Analyses
  <2> QED
    BY <2>2
<1>2. ASSUME NEW k \in G PROVE k + 1 \in G
  <2>0. k \in Nat
    OBVIOUS
  <2>1. PICK a : Analyses(t, SUBSET (1 .. k), a)
    OBVIOUS
  <2> DEFINE D == SUBSET (1 .. k + 1)
             b == [s \in D |-> IF k + 1 \in s
                                 THEN AnalyzeEvent(a[s \ {k + 1}], t[k + 1])
                                 ELSE a[s]]
  <2>2. ASSUME NEW s \in D
        PROVE  b[s] = IF s = {} THEN Nothing
                      ELSE AnalyzeEvent(b[s \ {Max(s)}], t[Max(s)])
    <3>1. CASE k + 1 \in s
      <4>1. Max(s) = k + 1
        BY <2>0, <3>1, LastOfInterval
      <4>2. s \ {k + 1} \in D /\ k + 1 \notin s \ {k + 1} /\ s # {}
        BY <3>1
      <4>3. b[s \ {k + 1}] = a[s \ {k + 1}]
        BY <4>2
      <4>4. b[s] = AnalyzeEvent(a[s \ {k + 1}], t[k + 1])
        BY <3>1
      <4> HIDE DEF b
      <4>5. b[s] = AnalyzeEvent(b[s \ {k + 1}], t[k + 1])
        BY <4>3, <4>4, Zenon
      <4> QED
        BY <4>1, <4>2, <4>5, Zenon
    <3>2. CASE k + 1 \notin s
      <4>1. s \in SUBSET (1 .. k)
        BY <2>0, <3>2
      <4>2. b[s] = a[s]
        BY <3>2
      <4>3. a[s] = IF s = {} THEN Nothing
                   ELSE AnalyzeEvent(a[s \ {Max(s)}], t[Max(s)])
        BY <2>1, <4>1 DEF Analyses
      <4>4. s \ {Max(s)} \in D /\ k + 1 \notin s \ {Max(s)}
        BY <3>2
      <4>5. b[s \ {Max(s)}] = a[s \ {Max(s)}]
        BY <4>4
      <4> HIDE DEF b
      <4> QED
        BY <4>2, <4>3, <4>5, Zenon
    <3> QED
      BY <3>1, <3>2
  <2>3. b = [s \in D |-> b[s]]
    OBVIOUS
  <2> HIDE DEF b, D
  <2>4. b = [s \in D |-> IF s = {} THEN Nothing
                         ELSE AnalyzeEvent(b[s \ {Max(s)}], t[Max(s)])]
    <3>1. [s \in D |-> b[s]] = [s \in D |-> IF s = {} THEN Nothing
                         ELSE AnalyzeEvent(b[s \ {Max(s)}], t[Max(s)])]
      BY <2>2
    <3> QED
      BY <2>3, <3>1, Zenon
  <2>5. Analyses(t, SUBSET (1 .. k + 1), b)
    BY <2>4 DEF Analyses, D
  <2> QED
    BY <2>5
<1>3. G = Nat
  <2> HIDE DEF G
  <2>1. G \in SUBSET Nat
    BY DEF G
  <2> QED
    BY <1>1, <1>2, <2>1, EveryNatural
<1> QED
  BY <1>3

(* analyze_trace goes through the events one by one, in their order.       *)
LEMMA AnalyzeSteps ==
    ASSUME NEW t \in Seq(Event)
    PROVE  \E A : /\ A[0] = Nothing
                  /\ \A k \in 0 .. Len(t) - 1 : A[k + 1] = AnalyzeEvent(A[k], t[k + 1])
                  /\ analyze_trace(t) = A[Len(t)]
<1> DEFINE n == Len(t)
           it == CHOOSE f : f = [s \in SUBSET (DOMAIN t) |->
                                    IF s = {} THEN Nothing
                                    ELSE AnalyzeEvent(f[s \ {Max(s)}], t[Max(s)])]
           A == [k \in 0 .. n |-> it[1 .. k]]
<1>1. n \in Nat /\ DOMAIN t = 1 .. n
  OBVIOUS
<1> HIDE DEF n
<1>2. Analyses(t, SUBSET (1 .. n), it)
  <2>1. \E f : f = [s \in SUBSET (DOMAIN t) |->
                                    IF s = {} THEN Nothing
                                    ELSE AnalyzeEvent(f[s \ {Max(s)}], t[Max(s)])]
    <3>1. PICK f : Analyses(t, SUBSET (1 .. n), f)
      BY <1>1, AnalysesExist
    <3> QED
      BY <1>1, <3>1, Zenon DEF Analyses
  <2>2. it = [s \in SUBSET (DOMAIN t) |->
                                    IF s = {} THEN Nothing
                                    ELSE AnalyzeEvent(it[s \ {Max(s)}], t[Max(s)])]
    BY <2>1, Zenon
  <2> HIDE DEF it
  <2> QED
    BY <1>1, <2>2, Zenon DEF Analyses
<1>3. analyze_trace(t) = it[1 .. n]
  BY <1>1, Zenon DEF analyze_trace, FoldLeft, MapThenFoldSet
<1> HIDE DEF it
<1>4. A[0] = Nothing
  <2>1. it[1 .. 0] = Nothing
    <3>1. 1 .. 0 = {} /\ {} \in SUBSET (1 .. n)
      OBVIOUS
    <3>2. it[{}] = Nothing
      BY <1>2, <3>1 DEF Analyses
    <3> QED
      BY <3>1, <3>2, Zenon
  <2> QED
    BY <1>1, <2>1
<1>5. ASSUME NEW k \in 0 .. n - 1 PROVE A[k + 1] = AnalyzeEvent(A[k], t[k + 1])
  <2> DEFINE s == 1 .. k + 1
  <2>1. s \in SUBSET (1 .. n) /\ s # {} /\ k + 1 \in s /\ k \in Nat
    BY <1>1
  <2>2. Max(s) = k + 1
    BY <2>1, LastOfInterval
  <2>3. s \ {k + 1} = 1 .. k
    BY <2>1
  <2> HIDE DEF s
  <2>4. it[s] = AnalyzeEvent(it[s \ {Max(s)}], t[Max(s)])
    BY <1>2, <2>1 DEF Analyses
  <2>5. it[s] = AnalyzeEvent(it[1 .. k], t[k + 1])
    BY <2>2, <2>3, <2>4, Zenon
  <2>6. A[k + 1] = it[s] /\ A[k] = it[1 .. k]
    BY <1>1 DEF s
  <2> QED
    BY <2>5, <2>6, Zenon
<1>6. A[n] = it[1 .. n]
  BY <1>1
<1> QED
  BY <1>3, <1>4, <1>5, <1>6 DEF n

(* What an event makes of the report, in the words of its four fields.     *)
LEMMA AnalyzeFields ==
    ASSUME NEW r \in Report, NEW e \in Event
    PROVE  LET s == AnalyzeEvent(r, e)
               block == Block[e.object]
           IN  /\ s \in Report
               /\ r.raised => s.raised
               /\ ~r.raised /\ block = NoBlock =>
                     /\ ~s.raised /\ s.prev_ok /\ s.prev_block = r.prev_block
                     /\ s.sequential_runs = r.sequential_runs
               /\ ~r.raised /\ block # NoBlock /\ r.prev_ok /\ r.prev_block = NoBlock =>
                     s.raised
               /\ ~r.raised /\ block # NoBlock /\ ~ (r.prev_ok /\ r.prev_block = NoBlock) =>
                     /\ ~s.raised /\ s.prev_ok /\ s.prev_block = block
                     /\ s.sequential_runs =
                           r.sequential_runs
                             + (IF r.prev_ok /\ block = r.prev_block + 1 THEN 1 ELSE 0)
<1> DEFINE s == AnalyzeEvent(r, e)
           block == Block[e.object]
<1>1. block \in Nat \cup {NoBlock}
  BY BlockAssumption, LayoutAssumption DEF Event
<1> HIDE DEF block
<1>2. CASE r.raised
  BY <1>2 DEF AnalyzeEvent
<1>3. CASE ~r.raised /\ block = NoBlock
  BY <1>3 DEF AnalyzeEvent, Report, block
<1>4. CASE ~r.raised /\ block # NoBlock /\ r.prev_ok /\ r.prev_block = NoBlock
  BY <1>4 DEF AnalyzeEvent, Report, block
<1>5. CASE ~r.raised /\ block # NoBlock /\ ~ (r.prev_ok /\ r.prev_block = NoBlock)
  <2>1. CASE r.prev_ok /\ block = r.prev_block + 1
    <3>1. s = [[r EXCEPT !.prev_ok = TRUE, !.prev_block = block] EXCEPT !.sequential_runs = @ + 1]
      BY <1>5, <2>1 DEF AnalyzeEvent, IsNext, block
    <3> HIDE DEF s
    <3>2. /\ s \in Report /\ ~s.raised /\ s.prev_ok /\ s.prev_block = block
          /\ s.sequential_runs = r.sequential_runs + 1
      <4> DEFINE q == [r EXCEPT !.prev_ok = TRUE, !.prev_block = block]
      <4>1. /\ q \in Report /\ ~q.raised /\ q.prev_ok /\ q.prev_block = block
            /\ q.sequential_runs = r.sequential_runs
        BY <1>1, <1>5 DEF Report
      <4>2. s = [q EXCEPT !.sequential_runs = @ + 1]
        BY <3>1
      <4> HIDE DEF q
      <4> QED
        BY <4>1, <4>2 DEF Report
    <3>3. r.sequential_runs \in Nat
      BY DEF Report
    <3> QED
      BY <1>5, <2>1, <3>2, <3>3 DEF block, s
  <2>2. CASE ~ (r.prev_ok /\ block = r.prev_block + 1)
    <3>1. s = [r EXCEPT !.prev_ok = TRUE, !.prev_block = block]
      BY <1>5, <2>2 DEF AnalyzeEvent, IsNext, block
    <3> HIDE DEF s
    <3>2. /\ s \in Report /\ ~s.raised /\ s.prev_ok /\ s.prev_block = block
          /\ s.sequential_runs = r.sequential_runs
      BY <1>1, <1>5, <3>1 DEF Report
    <3>3. r.sequential_runs \in Nat
      BY DEF Report
    <3> QED
      BY <1>5, <2>2, <3>2, <3>3 DEF block, s
  <2> QED
    BY <2>1, <2>2
<1> QED
  BY <1>2, <1>3, <1>4, <1>5 DEF block

(* A block is named among the first k events, but not by the first of them.*)
NamedLate(t, k) ==
    \E n \in 2 .. k : /\ BlockAt(t, n) # NoBlock
                      /\ \A m \in 1 .. n - 1 : BlockAt(t, m) = NoBlock

(* The block that prev_block keeps: that of the last of the first k events *)
(* to name one.                                                            *)
Latest(t, k, block) ==
    \/ block = NoBlock /\ \A m \in 1 .. k : BlockAt(t, m) = NoBlock
    \/ /\ block # NoBlock
       /\ \E n \in 1 .. k : /\ block = BlockAt(t, n)
                            /\ \A m \in n + 1 .. k : BlockAt(t, m) = NoBlock

(* What the report says of the first k events.                             *)
Counted(t, k, r) ==
    /\ r \in Report
    /\ NamedLate(t, k) => r.raised
    /\ ~NamedLate(t, k) =>
          /\ ~r.raised
          /\ r.prev_ok <=> k > 0
          /\ Latest(t, k, r.prev_block)
          /\ r.sequential_runs = Cardinality(Transitions(t) \cap (1 .. k))

(* An access is a transition if it goes on from the block kept before it.  *)
LEMMA TransitionIsNext ==
    ASSUME NEW t \in Seq(Event), NEW k \in 0 .. Len(t) - 1,
           NEW block \in Nat \cup {NoBlock}, Latest(t, k, block)
    PROVE  k + 1 \in Transitions(t) <=>
              /\ block # NoBlock /\ BlockAt(t, k + 1) # NoBlock
              /\ BlockAt(t, k + 1) = block + 1
<1> DEFINE b == [n \in DOMAIN t |-> Block[t[n].object]]
<1>1. Len(t) \in Nat /\ DOMAIN t = 1 .. Len(t) /\ k \in Nat /\ k + 1 \in 1 .. Len(t)
  OBVIOUS
<1>2. \A n \in 1 .. Len(t) : b[n] = BlockAt(t, n)
  BY <1>1 DEF BlockAt
<1>3. Transitions(t) =
         {n \in DOMAIN t :
            \E m \in 1 .. n - 1 :
                /\ NoBlock \notin {b[m], b[n]}
                /\ \A between \in m + 1 .. n - 1 : b[between] = NoBlock
                /\ b[n] = b[m] + 1}
  BY DEF Transitions
<1> HIDE DEF b
<1>4. k + 1 - 1 = k
  BY <1>1
<1>5. k + 1 \in Transitions(t) <=>
         \E m \in 1 .. k :
            /\ BlockAt(t, m) # NoBlock /\ BlockAt(t, k + 1) # NoBlock
            /\ \A n \in m + 1 .. k : BlockAt(t, n) = NoBlock
            /\ BlockAt(t, k + 1) = BlockAt(t, m) + 1
  <2>1. \A m \in 1 .. k : b[m] = BlockAt(t, m)
    BY <1>1, <1>2
  <2>2. b[k + 1] = BlockAt(t, k + 1)
    BY <1>1, <1>2
  <2>3. k + 1 \in Transitions(t) <=>
           \E m \in 1 .. k : /\ NoBlock \notin {b[m], b[k + 1]}
                             /\ \A n \in m + 1 .. k : b[n] = NoBlock
                             /\ b[k + 1] = b[m] + 1
    BY <1>1, <1>3, <1>4
  <2> QED
    BY <1>1, <2>1, <2>2, <2>3
<1>6. CASE block = NoBlock
  BY <1>5, <1>6 DEF Latest
<1>7. CASE block # NoBlock
  <2>1. PICK n \in 1 .. k : /\ block = BlockAt(t, n)
                            /\ \A m \in n + 1 .. k : BlockAt(t, m) = NoBlock
    BY <1>7 DEF Latest
  <2>2. ASSUME NEW m \in 1 .. k, BlockAt(t, m) # NoBlock,
               \A a \in m + 1 .. k : BlockAt(t, a) = NoBlock
        PROVE  m = n
    <3>1. ~ (m < n) /\ ~ (n < m)
      BY <1>1, <1>7, <2>1, <2>2
    <3> QED
      BY <1>1, <3>1
  <2> QED
    BY <1>5, <1>7, <2>1, <2>2
<1> QED
  BY <1>6, <1>7

(* One more event.                                                         *)
LEMMA CountedStep ==
    ASSUME NEW t \in Seq(Event), NEW k \in 0 .. Len(t) - 1, NEW r, Counted(t, k, r)
    PROVE  Counted(t, k + 1, AnalyzeEvent(r, t[k + 1]))
<1> DEFINE s == AnalyzeEvent(r, t[k + 1])
           block == BlockAt(t, k + 1)
           T == Transitions(t) \cap (1 .. k)
           U == Transitions(t) \cap (1 .. k + 1)
<1>1. /\ k \in Nat /\ k + 1 \in 1 .. Len(t) /\ t[k + 1] \in Event
      /\ r \in Report
  <2>1. t[k + 1] \in Event
    OBVIOUS
  <2> QED
    BY <2>1 DEF Counted
<1>2. block \in Nat \cup {NoBlock}
  <2>1. t[k + 1].object \in Objects \cup {None}
    BY <1>1 DEF Event
  <2> QED
    BY <2>1, BlockAssumption, LayoutAssumption DEF BlockAt
<1>3. /\ s \in Report
      /\ r.raised => s.raised
      /\ ~r.raised /\ block = NoBlock =>
            /\ ~s.raised /\ s.prev_ok /\ s.prev_block = r.prev_block
            /\ s.sequential_runs = r.sequential_runs
      /\ ~r.raised /\ block # NoBlock /\ r.prev_ok /\ r.prev_block = NoBlock => s.raised
      /\ ~r.raised /\ block # NoBlock /\ ~ (r.prev_ok /\ r.prev_block = NoBlock) =>
            /\ ~s.raised /\ s.prev_ok /\ s.prev_block = block
            /\ s.sequential_runs =
                  r.sequential_runs
                    + (IF r.prev_ok /\ block = r.prev_block + 1 THEN 1 ELSE 0)
  BY <1>1, AnalyzeFields DEF BlockAt
<1>4. /\ IsFiniteSet(T) /\ Cardinality(T) \in Nat
      /\ U = IF k + 1 \in Transitions(t) THEN T \cup {k + 1} ELSE T
      /\ k + 1 \notin T
  <2>1. IsFiniteSet(1 .. k)
    BY <1>1, FS_Interval
  <2>2. T \subseteq 1 .. k
    OBVIOUS
  <2>3. IsFiniteSet(T) /\ Cardinality(T) \in Nat
    <3> HIDE DEF T
    <3> QED
      BY <2>1, <2>2, FS_Subset, FS_CardinalityType
  <2>4. 1 .. k + 1 = (1 .. k) \cup {k + 1} /\ k + 1 \notin 1 .. k
    BY <1>1
  <2> QED
    BY <2>3, <2>4
<1>5. Cardinality(U) = Cardinality(T) + (IF k + 1 \in Transitions(t) THEN 1 ELSE 0)
  <2> HIDE DEF T, U
  <2>1. CASE k + 1 \in Transitions(t)
    <3>1. Cardinality(T \cup {k + 1}) = Cardinality(T) + 1
      BY <1>4, FS_AddElement
    <3>2. U = T \cup {k + 1}
      BY <1>4, <2>1
    <3>3. Cardinality(U) = Cardinality(T) + 1
      BY <3>1, <3>2, Zenon
    <3> QED
      BY <2>1, <3>3
  <2>2. CASE k + 1 \notin Transitions(t)
    <3>1. U = T
      BY <1>4, <2>2
    <3>2. Cardinality(U) = Cardinality(T)
      BY <3>1, Zenon
    <3> QED
      BY <1>4, <2>2, <3>2
  <2> QED
    BY <2>1, <2>2
<1>6. NamedLate(t, k + 1) <=>
         NamedLate(t, k) \/ (k > 0 /\ block # NoBlock /\ \A m \in 1 .. k : BlockAt(t, m) = NoBlock)
  <2>1. 2 .. k + 1 = (2 .. k) \cup (IF k > 0 THEN {k + 1} ELSE {}) /\ k + 1 - 1 = k
    BY <1>1
  <2> QED
    BY <2>1 DEF NamedLate
<1> HIDE DEF s, block, U, T
<1>7. CASE NamedLate(t, k)
  BY <1>3, <1>6, <1>7 DEF Counted, s
<1>8. CASE ~NamedLate(t, k)
  <2>1. /\ ~r.raised /\ (r.prev_ok <=> k > 0) /\ Latest(t, k, r.prev_block)
        /\ r.sequential_runs = Cardinality(T)
    BY <1>8 DEF Counted, T
  <2>2. r.prev_block \in Nat \cup {NoBlock} /\ r.sequential_runs \in Nat
    BY <1>1 DEF Report
  <2>3. k + 1 \in Transitions(t) <=>
           r.prev_block # NoBlock /\ block # NoBlock /\ block = r.prev_block + 1
    BY <2>1, <2>2, TransitionIsNext DEF block
  <2>4. r.prev_block = NoBlock <=> \A m \in 1 .. k : BlockAt(t, m) = NoBlock
    BY <2>1 DEF Latest
  <2>5. CASE block = NoBlock
    <3>1. ~NamedLate(t, k + 1)
      BY <1>6, <1>8, <2>5
    <3>2. Latest(t, k + 1, r.prev_block)
      BY <1>1, <2>1, <2>5 DEF Latest, block
    <3>3. s.sequential_runs = Cardinality(U)
      BY <1>3, <1>4, <1>5, <2>1, <2>3, <2>5
    <3>4. k + 1 > 0
      BY <1>1
    <3>5. Counted(t, k + 1, s)
      BY <1>3, <2>1, <2>5, <3>1, <3>2, <3>3, <3>4 DEF Counted, U
    <3> QED
      BY <3>5 DEF s
  <2>6. CASE block # NoBlock /\ k > 0 /\ r.prev_block = NoBlock
    BY <1>3, <1>6, <2>1, <2>4, <2>6 DEF Counted, s
  <2>7. CASE block # NoBlock /\ ~ (k > 0 /\ r.prev_block = NoBlock)
    <3>1. ~NamedLate(t, k + 1)
      BY <1>6, <1>8, <2>4, <2>7
    <3>2. Latest(t, k + 1, block)
      <4>1. k + 1 \in 1 .. k + 1 /\ \A m \in (k + 1) + 1 .. k + 1 : BlockAt(t, m) = NoBlock
        BY <1>1
      <4> QED
        BY <2>7, <4>1 DEF Latest, block
    <3>3. s.sequential_runs = Cardinality(U)
      <4>1. k = 0 => r.prev_block = NoBlock
        BY <2>4
      <4>2. r.prev_ok /\ block = r.prev_block + 1 <=> k + 1 \in Transitions(t)
        BY <1>1, <2>1, <2>3, <2>7, <4>1
      <4> QED
        BY <1>3, <1>4, <1>5, <2>1, <2>7, <4>2
    <3>4. k + 1 > 0
      BY <1>1
    <3>5. Counted(t, k + 1, s)
      BY <1>3, <2>1, <2>7, <3>1, <3>2, <3>3, <3>4 DEF Counted, U
    <3> QED
      BY <3>5 DEF s
  <2> QED
    BY <2>5, <2>6, <2>7
<1> QED
  BY <1>7, <1>8

(* What analyze_trace returns for any trace.                               *)
LEMMA AnalysisCounts ==
    ASSUME NEW t \in Seq(Event)
    PROVE  Counted(t, Len(t), analyze_trace(t))
<1>1. PICK A : /\ A[0] = Nothing
               /\ \A k \in 0 .. Len(t) - 1 : A[k + 1] = AnalyzeEvent(A[k], t[k + 1])
               /\ analyze_trace(t) = A[Len(t)]
  BY AnalyzeSteps
<1> DEFINE G == {k \in Nat : k <= Len(t) => Counted(t, k, A[k])}
<1>2. 0 \in G
  <2>1. Nothing \in Report
    BY DEF Nothing, Report
  <2>2. 1 .. 0 = {} /\ 2 .. 0 = {}
    OBVIOUS
  <2>3. ~NamedLate(t, 0)
    BY <2>2 DEF NamedLate
  <2>4. Transitions(t) \cap (1 .. 0) = {}
    BY <2>2
  <2>5. Cardinality(Transitions(t) \cap (1 .. 0)) = 0
    BY <2>4, FS_EmptySet, Zenon
  <2>6. Latest(t, 0, NoBlock)
    BY <2>2 DEF Latest
  <2>7. Counted(t, 0, Nothing)
    BY <2>1, <2>3, <2>5, <2>6 DEF Counted, Nothing
  <2> QED
    BY <1>1, <2>7
<1>3. ASSUME NEW k \in G PROVE k + 1 \in G
  <2>1. k \in Nat /\ k + 1 \in Nat /\ Len(t) \in Nat
    OBVIOUS
  <2>2. ASSUME k + 1 <= Len(t) PROVE Counted(t, k + 1, A[k + 1])
    <3>1. k \in 0 .. Len(t) - 1 /\ k <= Len(t)
      BY <2>1, <2>2
    <3>2. Counted(t, k, A[k])
      BY <3>1
    <3>3. Counted(t, k + 1, AnalyzeEvent(A[k], t[k + 1]))
      BY <3>1, <3>2, CountedStep
    <3>4. A[k + 1] = AnalyzeEvent(A[k], t[k + 1])
      BY <1>1, <3>1
    <3> QED
      BY <3>3, <3>4, Zenon
  <2> QED
    BY <2>1, <2>2
<1>4. G = Nat
  <2> HIDE DEF G
  <2>1. G \in SUBSET Nat
    BY DEF G
  <2> QED
    BY <1>2, <1>3, <2>1, EveryNatural
<1>5. Len(t) \in G
  BY <1>4
<1>6. Counted(t, Len(t), A[Len(t)])
  BY <1>5
<1> QED
  BY <1>1, <1>6, Zenon

(* What makes TransitionsCounted inductive: the report is the answer for   *)
(* the trace that was given.                                               *)
ReportOK == pc = "analyzed" => report = analyze_trace(trace)

(* analyze_trace counts the accesses that go on to the next block, for any *)
(* trace, or raises if a block is named, but not by the first event.       *)
THEOREM TransitionsAreCounted == Spec => []TransitionsCounted
<1>1. Init => ReportOK
  BY DEF Init, ReportOK
<1>2. ReportOK /\ [Next]_vars => ReportOK'
  BY DEF ReportOK, Next, MapSizes, GroupEvent, EndGrouping, MergeGroup, EndMerging, Place,
     PlaceRaises, EndPlacing, WriteTable, WritePayload, EndPacking, Analyze, vars
<1>3. LayoutInv /\ ReportOK => TransitionsCounted
  <2> SUFFICES ASSUME LayoutInv, ReportOK, pc = "analyzed" PROVE TransitionsCounted
    BY DEF TransitionsCounted
  <2>1. trace \in Seq(Event) /\ report = analyze_trace(trace)
    BY DEF LayoutInv, ArgsOK, ReportOK
  <2>2. Counted(trace, Len(trace), analyze_trace(trace))
    BY <2>1, AnalysisCounts
  <2>3. Transitions(trace) \cap (1 .. Len(trace)) = Transitions(trace)
    <3>1. Transitions(trace) \subseteq DOMAIN trace
      BY Zenon DEF Transitions
    <3>2. DOMAIN trace = 1 .. Len(trace)
      BY <2>1
    <3> QED
      BY <3>1, <3>2, Zenon
  <2>4. Cardinality(Transitions(trace) \cap (1 .. Len(trace))) = Cardinality(Transitions(trace))
    BY <2>3, Zenon
  <2>5. Counted(trace, Len(trace), report)
    BY <2>1, <2>2, Zenon
  <2> QED
    BY <2>4, <2>5 DEF Counted, NamedLate, BlockAt, TransitionsCounted
<1> QED
  BY <1>1, <1>2, <1>3, LayoutInit, LayoutStep, PTL DEF Spec
============================================================================
