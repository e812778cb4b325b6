----------------------------- MODULE Workloads ------------------------------
(***************************************************************************)
(* The trace generators (simulator/workloads.py).  A generator is two or   *)
(* three nested loops that append the accesses of a token and a layer, one *)
(* step each: here a sequence of accesses, numbered afterwards.  An object *)
(* is the record of the numbers in its id.  Token ids and deadlines, which *)
(* run_trace only reports on, are left out.                                *)
(*                                                                         *)
(* rng.sample may return any distinct numbers, and raises when there are   *)
(* too few: a generator that samples is the set of the traces it may       *)
(* return, which is empty when it raises.                                  *)
(***************************************************************************)
EXTENDS Integers, Sequences, SequencesExt

Object(kind, layer, num) == [kind |-> kind, layer |-> layer, num |-> num]
Access(object, critical) == [object |-> object, critical |-> critical]

\* Every access has a step of its own.
Numbered(accesses, first) ==
    [i \in DOMAIN accesses |-> [step     |-> first + i - 1,
                                object   |-> accesses[i].object,
                                critical |-> accesses[i].critical]]

AtLeast(a, b) == IF a > b THEN a ELSE b

\* for i in range(n): what the turns of the loop append.
ForEach(n, appended) == FlattenSeq([i \in 1 .. n |-> appended[i - 1]])

\* The accesses of one token and layer to a list of ids.
AllOf(kind, layer, ids) ==
    [i \in DOMAIN ids |-> Access(Object(kind, layer, ids[i]), TRUE)]

\* The objects of one kind, token by token and layer by layer.
Layered(kind, tokens, layers, ids) ==
    LET token(t) == ForEach(layers, [l \in 0 .. layers - 1 |-> AllOf(kind, l, ids[t, l])])
    IN  Numbered(ForEach(tokens, [t \in 0 .. tokens - 1 |-> token(t)]), 0)

TokenLayers(tokens, layers) == (0 .. tokens - 1) \X (0 .. layers - 1)

-----------------------------------------------------------------------------

LongContextKv(tokens, layers, localWindow, coldBlockEvery) ==
    LET current(t) == t \div 2
        local(t)   == AtLeast(0, current(t) - (t % AtLeast(1, localWindow)))
        cold(t, l) == t > localWindow /\ t % coldBlockEvery = 0 /\ l % 3 = 0
    IN  Layered("KV_BLOCK", tokens, layers, [<<t, l>> \in TokenLayers(tokens, layers) |->
            <<local(t)>> \o
            IF cold(t, l) THEN <<AtLeast(0, current(t) - localWindow - 8)>> ELSE <<>>])

RandomOldContext(tokens, layers, span) ==
    LET current(t)      == t \div 2
        primary(t, l)   == (t * 17 + l * 13) % AtLeast(span, current(t) + 1)
        secondary(t, l) == (primary(t, l) + 19 + l) % AtLeast(span, current(t) + 17)
    IN  Layered("KV_BLOCK", tokens, layers, [<<t, l>> \in TokenLayers(tokens, layers) |->
            IF t < 8 THEN <<current(t)>> ELSE <<primary(t, l), secondary(t, l)>>])

ColdFanout(tokens, layers, span, stride) ==
    LET current(t)    == t \div 2
        primary(t, l) == (t * stride + l * (stride + 8) + (t % 5) * 37)
                             % AtLeast(span, current(t) + 32)
    IN  Layered("KV_BLOCK", tokens, layers, [<<t, l>> \in TokenLayers(tokens, layers) |->
            IF t < 4 THEN <<current(t)>>
            ELSE <<primary(t, l),
                   (primary(t, l) + 41) % AtLeast(span, current(t) + 64),
                   (primary(t, l) + 97 + l) % AtLeast(span, current(t) + 96)>>])

WeightLayer(tokens, layers, tiles) ==
    Layered("WEIGHT_TILE", tokens, layers,
        [<<t, l>> \in TokenLayers(tokens, layers) |-> [i \in 1 .. tiles |-> i - 1]])

-----------------------------------------------------------------------------

\* rng.sample(range(n), k)
Samples(n, k) == {s \in [1 .. k -> 0 .. n - 1] : IsInjective(s)}

\* entropy < 0.3: every token draws 2 * top_k experts anew, and uses the first
\* top_k of them in all its layers.
MoeLowEntropy(tokens, layers, experts, topK) ==
    {Layered("EXPERT_PAGE", tokens, layers,
         [<<t, l>> \in TokenLayers(tokens, layers) |-> SubSeq(draw[t], 1, topK)]) :
        draw \in [0 .. tokens - 1 -> Samples(experts, 2 * topK)]}

\* entropy >= 0.3: every layer of every token draws its own.
MoeHighEntropy(tokens, layers, experts, topK) ==
    {Layered("EXPERT_PAGE", tokens, layers,
         [<<t, l>> \in TokenLayers(tokens, layers) |-> draw[t, l]]) :
        draw \in [TokenLayers(tokens, layers) ->
                    Samples(experts, IF topK < experts THEN topK ELSE experts)]}

\* The retrieval chunks once, uncritical; a gap in the steps up to prefill_steps;
\* then for each token a few chunks again and its KV block in each layer.
RagStaging(tokens, layers, chunks, prefillSteps) ==
    LET chunk(c, critical) == Access(Object("RETRIEVAL_CHUNK", 0, c), critical)
        token(t, sample) ==
            [i \in DOMAIN sample |-> chunk(sample[i], TRUE)] \o
            [i \in 1 .. layers |-> Access(Object("KV_BLOCK", i - 1, t \div 2), TRUE)]
    IN  {Numbered([i \in 1 .. chunks |-> chunk(i - 1, FALSE)], 0) \o
         Numbered(ForEach(tokens, [t \in 0 .. tokens - 1 |-> token(t, draw[t])]),
                  AtLeast(chunks, prefillSteps)) :
            draw \in [0 .. tokens - 1 -> Samples(chunks, AtLeast(1, chunks \div 8))]}
=============================================================================
