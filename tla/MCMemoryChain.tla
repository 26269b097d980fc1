--------------------------- MODULE MCMemoryChain ----------------------------
(* Finite instances of MemoryChain for TLC. *)
EXTENDS MemoryChain, TLC

CONSTANTS a, b

\* A session of one block, and a session of two.
MCBatch == {<<a>>, <<b, a>>}

Symmetry == Permutations(Inst)

=============================================================================
