--------------------------- MODULE PrefetchPolicy ---------------------------
(***************************************************************************)
(* Which objects of the coming window a policy proposes: the five classes  *)
(* of simulator/policies/ and the heuristic runner.py falls back on when   *)
(* run_trace gets no policy.  An object is the record of the numbers the   *)
(* code parses out of its id, [kind, layer, num].                          *)
(***************************************************************************)
EXTENDS Integers, Sequences, Functions

CONSTANT Locality     \* locality_block_threshold and locality_threshold

ASSUME LocalityAssumption == Locality \in Nat

Kinds == {"KV_BLOCK", "WEIGHT_TILE", "EXPERT_PAGE", "RETRIEVAL_CHUNK"}
Policies ==
    {"heuristic", "no_prefetch", "lru", "fixed_window", "predictive", "oracle"}

\* abs(p.num - o.num) <= threshold
Near(o, p) == p.num - o.num \in -Locality .. Locality

\* _can_predictably_prefetch: tiles and experts have to share their layer,
\* KV blocks and chunks do not.
Predictable(o, p) ==
    /\ o.kind = p.kind
    /\ o.kind \in {"WEIGHT_TILE", "EXPERT_PAGE"} => o.layer = p.layer
    /\ Near(o, p)

NoPrefetchPlan == {}

\* FixedWindowPrefetchPolicy reads block ids only.
FixedWindowPlan(o, window) ==
    {p \in window : o.kind = "KV_BLOCK" /\ p.kind = "KV_BLOCK" /\ Near(o, p)}

LRUPlan(window, history) == window \intersect Range(history)

OraclePlan(window) == window

\* The score 1 / max(1, steps ahead) is above zero for every object, and the
\* order it sorts them in is lost when run_trace makes a set of the plan.
PredictivePlan(window) == window

\* The plan of run_trace without a policy.
HeuristicPlan(o, window) == {p \in window : Predictable(o, p)}

Plan(policy, o, window, history) ==
    CASE policy = "heuristic"    -> HeuristicPlan(o, window)
      [] policy = "no_prefetch"  -> NoPrefetchPlan
      [] policy = "lru"          -> LRUPlan(window, history)
      [] policy = "fixed_window" -> FixedWindowPlan(o, window)
      [] policy = "predictive"   -> PredictivePlan(window)
      [] policy = "oracle"       -> OraclePlan(window)
=============================================================================
