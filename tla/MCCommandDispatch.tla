------------------------- MODULE MCCommandDispatch --------------------------
(***************************************************************************)
(* Model checking CommandDispatch.  Keys, minted run ids and handlers are  *)
(* interchangeable, so safety is checked up to their permutations; the     *)
(* liveness configuration does not use Permuted.                           *)
(***************************************************************************)
EXTENDS CommandDispatch, TLC

Permuted == Permutations(Commands) \cup Permutations(Runs \ {Root})
              \cup Permutations(Requests)
=============================================================================
