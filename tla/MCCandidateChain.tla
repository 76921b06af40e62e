-------------------------- MODULE MCCandidateChain --------------------------
(* Two runs over a file and a submodule: both commits hold the same          *)
(* submodule, and the file differs between them.                             *)
EXTENDS CandidateChain, TLC

CONSTANTS file, sub, old, new, l0, l1, c0, c1

MCTreeOf == (c0 :> (file :> old @@ sub :> l0)) @@ (c1 :> (file :> new @@ sub :> l0))
=============================================================================
