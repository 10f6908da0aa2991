----------------------------- MODULE MCBufCache -----------------------------
(* An instance of BufCache for TLC. *)
EXTENDS BufCache, TLC

Symmetry == Permutations(BufUses) \cup Permutations(Blocks)
=============================================================================
