--------------------------- MODULE MCLlamaBridge ---------------------------
(* An instance of LlamaBridge for TLC: both objects hash to one buffer. *)
EXTENDS LlamaBridge, TLC

CONSTANTS o1, o2

SharedBuffer == o1 :> 1 @@ o2 :> 1
============================================================================
