-------------------------- MODULE MCWorktreeStore --------------------------
(***************************************************************************)
(* Two o7d instances over one state root, and the identical processes are  *)
(* interchangeable.                                                        *)
(***************************************************************************)
EXTENDS WorktreeStore, TLC

Symmetry == Permutations(Procs) \cup Permutations(Runs)
=============================================================================
