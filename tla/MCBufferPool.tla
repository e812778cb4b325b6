---- MODULE MCBufferPool ----
(* What BufferPool.cfg gives TLC: objects are interchangeable. *)
EXTENDS BufferPool, TLC

Symmetry == Permutations(Objects)
====
