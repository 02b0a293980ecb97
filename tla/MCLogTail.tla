------------------------------- MODULE MCLogTail -------------------------------
(* LogTail on a small instance. *)
EXTENDS LogTail

\* Targets and readers differ in nothing but their names.
Symmetry == Permutations(Target) \cup Permutations(Reader)
=============================================================================
