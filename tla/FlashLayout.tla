---------------------------- MODULE FlashLayout ----------------------------
(***************************************************************************)
(* The offline tools of tools/: linearize_trace.py groups the objects of a *)
(* trace into bundles at aligned offsets, and pack_flash_layout.py writes  *)
(* a list of bundles into a pack file.  The list may come from the         *)
(* linearizer or from any other JSON file.  One step per turn of a loop.   *)
(* analyze_read_pattern.py reads the same traces and is one step, being a  *)
(* pure function (ReadPattern).                                            *)
(*                                                                         *)
(* A bundle is kept as a set: the order of the objects in it is recorded   *)
(* nowhere but in the list itself.  None is the empty object id.           *)
(***************************************************************************)
EXTENDS ReadPattern

CONSTANTS
    Objects,          \* object ids
    None,             \* the id of an event that names no object
    Traces,           \* sequences of events
    Strategies,       \* the values of bundle_strategy to consider
    Files,            \* lists of bundles made by something else
    PageAlignment,    \* linearize's page_alignment
    PackAlignment     \* pack's alignment

Event == [object : Objects \cup {None}, layer : Nat, key : Nat, size : Nat]
Bundle == [objects : SUBSET Objects, offset : Nat, size : Nat]

ASSUME LayoutAssumption ==
    /\ None \notin Objects
    /\ Traces \subseteq Seq(Event)
    /\ Files \subseteq Seq(Bundle)
    /\ Objects \cup {None} \subseteq DOMAIN Block
    /\ PageAlignment \in Nat \ {0}
    /\ PackAlignment \in Nat \ {0}

VARIABLES
    pc,          \* the loop under way
    i,           \* its index, from 1
    trace, strategy,    \* linearize's arguments
    sizes,       \* object_size_map
    groups,      \* groups or coaccess: a dict, in the order of its keys
    merged,      \* the sets of objects that become bundles, in order
    bundles,     \* what linearize returns and pack is given
    pos,         \* f.tell()
    payloads,    \* where in the file the payloads begin
    report       \* what analyze_trace returns

vars == <<pc, i, trace, strategy, sizes, groups, merged, bundles, pos, payloads, report>>

AlignUp(n, alignment) == ((n + alignment - 1) \div alignment) * alignment

Init ==
    /\ \/ /\ pc = "size"
          /\ trace \in Traces
          /\ strategy \in Strategies
          /\ bundles = <<>>
       \/ /\ pc = "pack"
          /\ trace = <<>>
          /\ strategy = "none"
          /\ bundles \in Files
       \/ /\ pc = "analyze"
          /\ trace \in Traces
          /\ strategy = "none"
          /\ bundles = <<>>
    /\ i = 1
    /\ sizes = <<>>
    /\ groups = <<>>
    /\ merged = <<>>
    /\ pos = 0
    /\ payloads = <<>>
    /\ report = Nothing

-----------------------------------------------------------------------------
(* linearize()                                                             *)

Named(t) == {t[n].object : n \in DOMAIN t} \ {None}

\* The last event of an object decides its size.
LastSize(o) ==
    LET n == CHOOSE n \in DOMAIN trace :
                 /\ trace[n].object = o
                 /\ \A m \in DOMAIN trace : trace[m].object = o => m <= n
    IN  trace[n].size

\* An unknown strategy returns the empty list.
MapSizes ==
    /\ pc = "size"
    /\ sizes' = [o \in Named(trace) |-> LastSize(o)]
    /\ pc' = IF strategy \in {"layer", "coaccess"} THEN "group" ELSE "pack"
    /\ UNCHANGED <<i, trace, strategy, groups, merged, bundles, pos, payloads, report>>

\* A bug the runs must catch: accesses of one step are not told from others.
GroupKeyLayer(event) == event.layer

\* The bundle id of the layer, or the token and step of the access.
GroupKey(event) == IF strategy = "layer" THEN event.layer ELSE event.key

\* Events without an object are skipped by the layer strategy only.
GroupEvent ==
    LET event == trace[i]
        key   == GroupKey(event)
        at    == {n \in DOMAIN groups : groups[n].key = key}
    IN  /\ pc = "group"
        /\ i \in DOMAIN trace
        /\ groups' =
             IF strategy = "layer" /\ event.object = None THEN groups
             ELSE IF at = {} THEN Append(groups, [key |-> key, objects |-> {event.object}])
             ELSE [n \in DOMAIN groups |->
                     IF n \in at
                       THEN [groups[n] EXCEPT !.objects = @ \cup {event.object}]
                       ELSE groups[n]]
        /\ i' = i + 1
        /\ UNCHANGED <<pc, trace, strategy, sizes, merged, bundles, pos, payloads, report>>

\* The places of the groups in the order of their keys.  The bundle ids sort as
\* text, with three digits for the layer; that is the order of the layers up to
\* 999, and beyond them a layer stands for the place of its id in that order.
InOrder(gs) ==
    CHOOSE p \in Bijection(DOMAIN gs, DOMAIN gs) :
        \A m, n \in DOMAIN gs : m < n => gs[p[m]].key < gs[p[n]].key

\* The layers are sorted by their id; co-access groups are merged first.
EndGrouping ==
    /\ pc = "group"
    /\ i \notin DOMAIN trace
    /\ i' = 1
    /\ IF strategy = "layer"
         THEN /\ merged' = [n \in DOMAIN groups |-> groups[InOrder(groups)[n]].objects]
              /\ pc' = "place"
         ELSE pc' = "merge" /\ UNCHANGED merged
    /\ UNCHANGED <<trace, strategy, sizes, groups, bundles, pos, payloads, report>>

\* The sets that a group shares an object with.
Meets(group) == {n \in DOMAIN merged : group \cap merged[n] # {}}

\* A bug the runs must catch: a group that meets a set is taken as part of it.
MergeFound(group) ==
    IF Meets(group) = {} THEN Append(merged, group) ELSE merged

\* Only the first set that shares an object takes the group in: the others
\* stay apart, though they now share an object with it.
Merge(group) ==
    IF Meets(group) = {} THEN Append(merged, group)
    ELSE LET first == CHOOSE n \in Meets(group) : \A m \in Meets(group) : n <= m
         IN  [merged EXCEPT ![first] = @ \cup group]

MergeGroup ==
    /\ pc = "merge"
    /\ i \in DOMAIN groups
    /\ merged' = Merge(groups[i].objects)
    /\ i' = i + 1
    /\ UNCHANGED <<pc, trace, strategy, sizes, groups, bundles, pos, payloads, report>>

EndMerging ==
    /\ pc = "merge"
    /\ i \notin DOMAIN groups
    /\ i' = 1
    /\ pc' = "place"
    /\ UNCHANGED <<trace, strategy, sizes, groups, merged, bundles, pos, payloads, report>>

\* The running offset, and a bug the runs must catch: it does not run.
EndOfBundles ==
    IF bundles = <<>> THEN 0 ELSE Last(bundles).offset + Last(bundles).size
AtZero == 0
Offset == EndOfBundles

\* A bug the runs must catch: a size that is not rounded up.
BytesOf(objects) == SumFunctionOnSet(sizes, objects)
PagesOf(objects) == AlignUp(BytesOf(objects), PageAlignment)

Place ==
    /\ pc = "place"
    /\ i \in DOMAIN merged
    /\ None \notin merged[i]
    /\ bundles' = Append(bundles,
          [objects |-> merged[i], offset |-> Offset, size |-> PagesOf(merged[i])])
    /\ i' = i + 1
    /\ UNCHANGED <<pc, trace, strategy, sizes, groups, merged, pos, payloads, report>>

\* The empty id has no size: object_size_map raises KeyError.
PlaceRaises ==
    /\ pc = "place"
    /\ i \in DOMAIN merged
    /\ None \in merged[i]
    /\ pc' = "raised"
    /\ UNCHANGED <<i, trace, strategy, sizes, groups, merged, bundles, pos, payloads, report>>

EndPlacing ==
    /\ pc = "place"
    /\ i \notin DOMAIN merged
    /\ pc' = "pack"
    /\ UNCHANGED <<i, trace, strategy, sizes, groups, merged, bundles, pos, payloads, report>>

-----------------------------------------------------------------------------
(* pack()                                                                  *)

DeclaredHeader == 56    \* header_size
WrittenHeader == 68     \* what the seven writes of the header add up to
RowSize == 256          \* a row of the metadata table

TableEnd == WrittenHeader + RowSize * Len(bundles)

\* The table follows what was written; the payloads follow what was declared.
WriteTable ==
    /\ pc = "pack"
    /\ pos' = AlignUp(DeclaredHeader + RowSize * Len(bundles), PackAlignment)
    /\ i' = 1
    /\ pc' = "payload"
    /\ UNCHANGED <<trace, strategy, sizes, groups, merged, bundles, payloads, report>>

\* Zeros up to the bundle's offset, when the file has not got there yet.
Padded == IF pos < bundles[i].offset THEN bundles[i].offset ELSE pos

WritePayload ==
    /\ pc = "payload"
    /\ i \in DOMAIN bundles
    /\ payloads' = Append(payloads, Padded)
    /\ pos' = Padded + bundles[i].size
    /\ i' = i + 1
    /\ UNCHANGED <<pc, trace, strategy, sizes, groups, merged, bundles, report>>

EndPacking ==
    /\ pc = "payload"
    /\ i \notin DOMAIN bundles
    /\ pc' = "done"
    /\ UNCHANGED <<i, trace, strategy, sizes, groups, merged, bundles, pos, payloads, report>>

-----------------------------------------------------------------------------
(* analyze_trace()                                                         *)

Analyze ==
    /\ pc = "analyze"
    /\ report' = analyze_trace(trace)
    /\ pc' = "analyzed"
    /\ UNCHANGED <<i, trace, strategy, sizes, groups, merged, bundles, pos, payloads>>

Next ==
    \/ MapSizes \/ GroupEvent \/ EndGrouping \/ MergeGroup \/ EndMerging
    \/ Place \/ PlaceRaises \/ EndPlacing
    \/ WriteTable \/ WritePayload \/ EndPacking
    \/ Analyze

Spec == Init /\ [][Next]_vars

-----------------------------------------------------------------------------
(* Type invariant: the tools' variables have their types, and the bundles  *)
(* of the linearizer are whole pages.                                      *)
TypeOK ==
    /\ pc \in {"size", "group", "merge", "place", "pack", "payload", "done", "raised",
              "analyze", "analyzed"}
    /\ i \in Nat \ {0}
    /\ DOMAIN sizes \subseteq Objects
    /\ groups \in Seq([key : Nat, objects : SUBSET (Objects \cup {None})])
    /\ merged \in Seq(SUBSET (Objects \cup {None}))
    /\ bundles \in Seq(Bundle)
    /\ trace # <<>> =>
          \A n \in DOMAIN bundles :
              bundles[n].offset % PageAlignment = 0 /\ bundles[n].size % PageAlignment = 0
    /\ pos \in Nat
    /\ payloads \in Seq(Nat)

\* linearize() returned, after one of its two strategies.
Linearized == pc \in {"pack", "payload", "done"} /\ strategy \in {"layer", "coaccess"}

(* Every object of the trace is in a bundle, and every bundle has room for *)
(* its objects at the sizes the trace last gave them: merging co-access    *)
(* groups loses nobody, whatever the order in which they meet.             *)
EveryObjectPlaced ==
    Linearized =>
        /\ Named(trace) = UNION {bundles[n].objects : n \in DOMAIN bundles}
        /\ \A n \in DOMAIN bundles :
              SumFunctionOnSet(sizes, bundles[n].objects) <= bundles[n].size

(* What is used together stays together: the objects of one layer, or of   *)
(* one token and step, are all in one bundle.                              *)
KeptTogether ==
    Linearized =>
        \A n \in DOMAIN trace :
            LET mates == {m \in DOMAIN trace :
                             IF strategy = "layer"
                               THEN trace[m].layer = trace[n].layer
                               ELSE trace[m].key = trace[n].key}
                used  == {trace[m].object : m \in mates} \ {None}
            IN  used # {} => \E b \in DOMAIN bundles : used \subseteq bundles[b].objects

(* Payloads come after the metadata table, in order, without overlap and   *)
(* never before the offset of their bundle; those of the linearizer are    *)
(* all shifted by the same distance from the offsets it gave them.         *)
PackedInOrder ==
    \A n \in DOMAIN payloads :
          /\ TableEnd <= payloads[n]
          /\ bundles[n].offset <= payloads[n]
          /\ n > 1 => payloads[n - 1] + bundles[n - 1].size <= payloads[n]
          /\ Linearized => payloads[n] = payloads[1] + bundles[n].offset

(* What analyze_trace counts is the accesses that go on to the next block, *)
(* whatever stands between them; it gives no answer for a trace that names *)
(* a block, but not in its first event.                                    *)
TransitionsCounted ==
    pc = "analyzed" =>
        IF \E n \in 2 .. Len(trace) :
              /\ Block[trace[n].object] # NoBlock
              /\ \A m \in 1 .. n - 1 : Block[trace[m].object] = NoBlock
          THEN report.raised
          ELSE /\ ~report.raised
               /\ report.sequential_runs = Cardinality(Transitions(trace))

(* What the release notes say of the tool: it reads a trace and counts its *)
(* sequential block transitions.  The code raises TypeError instead, when  *)
(* the trace begins with an object that is not a block.                    *)
AnalysisAnswers == pc = "analyzed" => ~report.raised

============================================================================
