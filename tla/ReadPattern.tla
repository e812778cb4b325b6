---------------------------- MODULE ReadPattern ----------------------------
(***************************************************************************)
(* analyze_trace of tools/analyze_read_pattern.py: how often an access to  *)
(* a block of a KV cache is followed by one to the next block.  A pure     *)
(* function of the trace, folded over its events.  The counts of events,   *)
(* types, bytes, objects and steps are sums and set sizes, left out.       *)
(***************************************************************************)
EXTENDS Integers, SequencesExt

CONSTANTS
    Block,        \* object id -> the number after ".block_", or NoBlock
    NoBlock

ASSUME BlockAssumption == \A o \in DOMAIN Block : Block[o] \in Nat \cup {NoBlock}

\* The variables of the loop; prev_block is NoBlock where the code has None.
\* "raised": None + 1 was evaluated.
Nothing == [prev_ok |-> FALSE, prev_block |-> NoBlock, sequential_runs |-> 0, raised |-> FALSE]

\* A bug the runs must catch: reading a block again counts as going on.
IsNextOrSame(block, prev) == block \in {prev, prev + 1}
IsNext(block, prev) == block = prev + 1

\* prev_ok says that there was an event before, not that it named a block.
AnalyzeEvent(report, event) ==
    LET block == Block[event.object]
        noted == [report EXCEPT !.prev_ok = TRUE, !.prev_block = block]
    IN  IF report.raised THEN report
        ELSE IF block = NoBlock THEN [report EXCEPT !.prev_ok = TRUE]
        ELSE IF report.prev_ok /\ report.prev_block = NoBlock
          THEN [report EXCEPT !.raised = TRUE]
        ELSE IF report.prev_ok /\ IsNext(block, report.prev_block)
          THEN [noted EXCEPT !.sequential_runs = @ + 1]
        ELSE noted

analyze_trace(events) == FoldLeft(AnalyzeEvent, Nothing, events)

\* What is to be counted: the accesses to a block whose nearest earlier access
\* to any block was to the one before it.
Transitions(events) ==
    LET block == [n \in DOMAIN events |-> Block[events[n].object]]
    IN  {n \in DOMAIN events :
            \E m \in 1 .. n - 1 :
                /\ NoBlock \notin {block[m], block[n]}
                /\ \A between \in m + 1 .. n - 1 : block[between] = NoBlock
                /\ block[n] = block[m] + 1}
============================================================================
