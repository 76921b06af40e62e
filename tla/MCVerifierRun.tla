--------------------------- MODULE MCVerifierRun ---------------------------
(* A verifier and three commands: one of them bound to a weaker boundary and *)
(* to a wider exit policy, one ill-formed.                                   *)
EXTENDS VerifierRun

MCCommands ==
    {[id |-> 1, req |-> "RequireFullyEnforced", success |-> {0}, valid |-> TRUE, budget |-> 1],
     [id |-> 1, req |-> "AllowUnconfined", success |-> {0, 1}, valid |-> TRUE, budget |-> 1],
     [id |-> 2, req |-> "AllowUnconfined", success |-> {}, valid |-> FALSE, budget |-> 1]}
=============================================================================
