------------------------------- MODULE MCTlb --------------------------------
(* Tlb for TLC. *)
EXTENDS Tlb, TLC
Interchangeable == Permutations(CPU) \cup Permutations(Env) \cup Permutations(Frame)
=============================================================================
