---------------------------- MODULE MCClientCache ----------------------------
(* ClientCache on a small instance. *)
EXTENDS ClientCache, TLC

\* Tasks of a kind differ in nothing but their names.
Symmetry == Permutations(Caller) \cup Permutations(Invalidator) \cup Permutations(Clearer)
=============================================================================
