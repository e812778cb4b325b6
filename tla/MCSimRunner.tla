---------------------------- MODULE MCSimRunner ----------------------------
(* Instances of SimRunner for TLC: all the traces over a few objects, and  *)
(* those of the workload generators with few tokens, layers and objects.   *)
EXTENDS SimRunner, Workloads

\* Neighbours in two layers, and an expert of the first layer.
Mixed == {Object("KV_BLOCK", 0, 0), Object("KV_BLOCK", 1, 1), Object("EXPERT_PAGE", 0, 2)}

\* Two neighbouring blocks of one layer, and one far from both.
Blocks == {Object("KV_BLOCK", 0, n) : n \in {0, 1, 5}}

\* All the traces of a length over some objects.
Over(objects, length) ==
    {Numbered([i \in 1 .. length |-> Access(f[i], i # length)], 0) :
        f \in [1 .. length -> objects]}

\* The same, with the events of two layers in one step.
InPairs(traces) ==
    {[i \in DOMAIN t |-> [t[i] EXCEPT !.step = @ \div 2]] : t \in traces}

Generated ==
    {LongContextKv(3, 2, 1, 2), RandomOldContext(9, 1, 64), ColdFanout(5, 1, 256, 29),
     WeightLayer(2, 2, 2)}
    \union MoeLowEntropy(2, 2, 2, 1) \union MoeHighEntropy(2, 1, 3, 2)
    \union RagStaging(2, 1, 2, 1)

\* Fewer chunks than prefill steps: the steps have a gap, and the last events
\* are past the end of every window.
WithGap == RagStaging(2, 1, 2, 4)

ObjectsOf(traces) == UNION {{t[i].object : i \in DOMAIN t} : t \in traces}
AllObjects == Mixed \union Blocks \union ObjectsOf(Generated \union WithGap)

\* Sizes 1, 2 and 3: the last fits DRAM, never SRAM.
ByNumber == [o \in Objects |-> 1 + (o.num % 3)]
OneEach == [o \in Objects |-> 1]

Runs(traces, modes, policies) == [trace : traces, mode : modes, policy : policies]

Small == Over(Mixed, 5)
AllStreams == Small \union Generated
TwoRuns ==
    <<Runs(Small, AllModes, Policies)
        \union Runs(Generated \union WithGap, AllModes, {"heuristic", "oracle"}),
      Runs(Over(Blocks, 3), {"stream_to_scratchpad"}, {"fixed_window"})
        \union Runs(InPairs(Over(Blocks, 3)), {"hybrid"}, {"oracle"})>>

OneStream == <<Runs(Over(Blocks, 5), {"stream_to_scratchpad"}, {"oracle"})>>
============================================================================
