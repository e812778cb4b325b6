--------------------------- MODULE MCFlashReader ---------------------------
(* Instances of FlashReader for TLC: values of hash(object_id) %           *)
(* fixed_buffer_count for two objects.                                     *)
EXTENDS FlashReader, TLC

CONSTANTS o1, o2

\* Each object has a buffer of its own.
OwnBuffers == o1 :> 0 @@ o2 :> 1

\* Both objects hash to the same buffer.
SharedBuffer == o1 :> 1 @@ o2 :> 1

ThreadSymmetry == Permutations(Threads)
============================================================================
