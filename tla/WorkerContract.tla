-------------------------- MODULE WorkerContract --------------------------
(***************************************************************************)
(* What a caller of o7-worker may rely on: a worker that is started may be *)
(* launched, may be asked to stop, may lose its observation sink, and ends *)
(* once, with one result.  WorkerSupervisor implements it and VerifierRun  *)
(* is written against it.                                                  *)
(***************************************************************************)

VARIABLES
    status,     \* "created", "running", "ended"
    asked,      \* a cancellation was requested
    exits,      \* the process has exited, of a boundary that reports its exit
    sink,       \* every observation so far was accepted
    outcome     \* the WorkerResult, "none" before the end

contractVars == <<status, asked, exits, sink, outcome>>

CleanOutcomes == {"Exited", "CancelledGracefully", "CancelledForcefully"}

Outcomes == CleanOutcomes \cup
    {"FailedToStart", "BoundaryFailure", "ObservationFailure",
     "OutputFailure", "CleanupFailure"}

ContractInit ==
    status = "created" /\ asked = FALSE /\ exits = FALSE /\ sink = TRUE /\ outcome = "none"

Launches ==
    /\ status = "created"
    /\ status' = "running"
    /\ sink' \in {sink, FALSE}
    /\ UNCHANGED <<asked, exits, outcome>>

Asks ==
    /\ ~asked
    /\ asked' = TRUE
    /\ UNCHANGED <<status, exits, sink, outcome>>

ProcessExits ==
    /\ ~exits
    /\ exits' = TRUE
    /\ UNCHANGED <<status, asked, sink, outcome>>

LosesSink ==
    /\ status # "ended"
    /\ sink /\ sink' = FALSE
    /\ UNCHANGED <<status, asked, exits, outcome>>

\* A clean result is told to a live sink; a cancelled one was asked for; only a
\* worker that was launched exits, loses output or is stopped by force.
Ends(r) ==
    /\ status # "ended"
    /\ status' = "ended"
    /\ outcome' = r
    /\ sink' \in {sink, FALSE}
    /\ r \in CleanOutcomes => sink'
    /\ r \in {"CancelledGracefully", "CancelledForcefully"} => asked
    /\ r \in {"Exited", "CancelledForcefully", "OutputFailure"} => status = "running"
    /\ UNCHANGED <<asked, exits>>

ContractNext == Launches \/ Asks \/ ProcessExits \/ LosesSink \/ \E r \in Outcomes : Ends(r)

\* Nothing is owed to a worker that runs on and that nobody cancels.
EventuallyEnds == WF_contractVars((asked \/ exits) /\ \E r \in Outcomes : Ends(r))

ContractSpec == ContractInit /\ [][ContractNext]_contractVars /\ EventuallyEnds
============================================================================
