--------------------------- MODULE MCTraceReplay ---------------------------
(* Instances of TraceReplay for TLC: all the traces of a given length.     *)
EXTENDS TraceReplay

Traces3 == [1 .. 3 -> Objects]
============================================================================
