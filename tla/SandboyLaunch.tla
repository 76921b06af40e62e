--------------------------- MODULE SandboyLaunch --------------------------
(***************************************************************************)
(* ProcessBoundary::spawn: the host boundary's plain spawn and the Sandboy *)
(* boundary's confined launch (sandboy_boundary.rs, sealed.rs).            *)
(*                                                                         *)
(* The confined launch stages the target, starts the backend as the leader *)
(* of a new group, exchanges one request for one report over the control   *)
(* socket, checks every binding of the report and only then sends GO. The  *)
(* future may be dropped at any of its awaits; a write of GO goes on, on   *)
(* its own thread, when that happens.                                      *)
(***************************************************************************)
EXTENDS ProcessGroup

CONSTANTS NoReport, NoTarget

VARIABLES
    kind,       \* which ProcessBoundary the worker was given
    lpc,        \* where the spawn future is
    lerr,       \* the BoundaryError it is to return
    report,     \* the report frame read from the backend
    go,         \* the GO byte: "no", "writing", "sent"
    armed,      \* SpawnGroupGuard::armed
    target,     \* the process the backend started after GO
    late,       \* the deadline of the wait under way has passed
    evidence    \* BoundaryLaunch::evidence

launchVars == <<kind, lpc, lerr, report, go, armed, target, late, evidence>>

\* "other" is a trait object of which only the trait's contract is known.
Kind == {"host", "sandboy", "other"}

\* The bindings of a report: who confined, what, under which policy, and for
\* which launch.
Binding == {"backend", "backend_digest", "policy_digest", "launch_nonce",
            "launch_spec_digest"}

\* What a backend reports on one by one; anything short of Enforced is a
\* downgrade.
SandboxDimension == {"Filesystem", "Network", "Env", "ProcessTree", "Timeout"}

\* A report, as the set of what is not as expected in it: a binding that differs
\* or a dimension that is not Enforced.
Report == {{}} \cup {{b} : b \in Binding \cup SandboxDimension}

\* SandboxReport::is_fully_enforced
is_fully_enforced(r) == \A d \in SandboxDimension : d \notin r

\* "Weaker": a report that is not full, or of another implementation.
Evidence == {"none", "Unconfined", "Weaker", "Full"}

LaunchError == {"none", "TargetAcquisition", "Spawn", "Evidence", "Cleanup"}

LaunchTypeOK ==
    /\ kind \in Kind
    /\ lpc \in {"idle", "start", "staging", "handshake", "go", "reapLeader",
                "reapGroup", "returned", "failed", "dropped"}
    /\ lerr \in LaunchError
    /\ report \in {NoReport} \cup Report
    /\ go \in {"no", "writing", "sent"}
    /\ armed \in BOOLEAN
    /\ target \in {NoTarget} \cup Kids
    /\ late \in BOOLEAN
    /\ evidence \in Evidence

LaunchInit ==
    /\ kind \in Kind
    /\ lpc = "idle" /\ lerr = "none" /\ report = NoReport /\ go = "no"
    /\ armed = FALSE /\ target = NoTarget /\ late = FALSE
    /\ evidence = "none"

\* attestation(): what the boundary claims of itself before any launch.
attestation == IF kind = "host" THEN "None" ELSE "Full"

LaunchFails(e) == lpc' = "failed" /\ lerr' = e

(***************************************************************************)
(* The host boundary, and any other boundary: one step that starts the     *)
(* leader or fails. The host's evidence is always Unconfined.              *)
(***************************************************************************)

HostSpawn ==
    /\ lpc = "start" /\ kind # "sandboy"
    /\ \/ /\ LaunchFails("Spawn")
          /\ UNCHANGED <<proc, evidence>>
       \/ /\ lpc' = "returned"
          /\ proc' = [proc EXCEPT ![Leader] = "live"]
          /\ evidence' \in IF kind = "host" THEN {"Unconfined"}
                           ELSE {"Weaker", "Full"}
          /\ UNCHANGED lerr
    /\ UNCHANGED <<signalled, scan, forked, kind, report, go, armed, target,
                   late>>

(***************************************************************************)
(* The Sandboy launch.                                                     *)
(***************************************************************************)

\* The policy does not let this path be executed.
PolicyRefuses ==
    /\ lpc = "start" /\ kind = "sandboy"
    /\ LaunchFails("Spawn")
    /\ UNCHANGED <<groupVars, kind, report, go, armed, target, late, evidence>>

\* The nonce is minted before anything runs; a failing RNG fails the launch.
MintNonce ==
    /\ lpc = "start" /\ kind = "sandboy"
    /\ \/ lpc' = "staging" /\ UNCHANGED lerr
       \/ LaunchFails("Spawn")
    /\ UNCHANGED <<groupVars, kind, report, go, armed, target, late, evidence>>

\* A source rejection is the target's fault, a staging failure is ours: the
\* phase decides, not the error variant (classify_target_stage_error).
classify_target_stage_error(phase) ==
    IF phase = "SourceRejected" THEN "TargetAcquisition" ELSE "Spawn"

StageRefused ==
    /\ lpc = "staging"
    /\ \E phase \in {"SourceRejected", "StagingFailed"} :
          LaunchFails(classify_target_stage_error(phase))
    /\ UNCHANGED <<groupVars, kind, report, go, armed, target, late, evidence>>

\* The target asks for a variable the policy does not list, or the request does
\* not fit its frame.
RequestRefused ==
    /\ lpc = "staging"
    /\ LaunchFails("Evidence")
    /\ UNCHANGED <<groupVars, kind, report, go, armed, target, late, evidence>>

\* No socket pair, or the backend does not start.
BackendNotStarted ==
    /\ lpc = "staging"
    /\ LaunchFails("Spawn")
    /\ UNCHANGED <<groupVars, kind, report, go, armed, target, late, evidence>>

\* kill_and_reap begins with killpg, before its first await.
KillAndReap(e) ==
    /\ signal_group
    /\ lpc' = "reapLeader" /\ lerr' = e

\* The backend runs. The group guard is armed once its live identity has
\* been read; when it cannot be, the launch is torn down.
StartBackend ==
    /\ lpc = "staging"
    /\ proc' = [proc EXCEPT ![Leader] = "live"]
    /\ \/ /\ lpc' = "handshake" /\ armed' = TRUE
          /\ UNCHANGED <<lerr, signalled>>
       \/ /\ lpc' = "reapLeader" /\ lerr' = "Spawn"
          /\ signalled' = signalled \cup {Leader}
          /\ UNCHANGED armed
    /\ UNCHANGED <<scan, forked, kind, report, go, target, late, evidence>>

\* External: the backend answers the request with a report.
BackendReports ==
    /\ lpc = "handshake" /\ report = NoReport
    /\ Leader \in Members \ signalled
    /\ report' \in Report
    /\ UNCHANGED <<groupVars, kind, lpc, lerr, go, armed, target, late, evidence>>

\* verify_report: every binding is the expected one and nothing is downgraded.
verify_report == (\A b \in Binding : b \notin report) /\ is_fully_enforced(report)

\* One well-formed frame, end of message proved, every binding checked.
ReadReport ==
    /\ lpc = "handshake" /\ report # NoReport
    /\ IF verify_report
       THEN /\ lpc' = "go" /\ go' = "writing"
            /\ UNCHANGED <<lerr, signalled>>
       ELSE KillAndReap("Evidence") /\ UNCHANGED go
    /\ UNCHANGED <<proc, scan, forked, kind, report, armed, target, late, evidence>>

\* The frame is short, oversized or followed by more, the backend exited, or
\* ten seconds passed.
HandshakeFails ==
    /\ lpc = "handshake"
    /\ KillAndReap("Evidence")
    /\ UNCHANGED <<proc, scan, forked, kind, report, go, armed, target, late, evidence>>

\* The thread that writes GO; it outlives a dropped future.
WriteGo ==
    /\ go = "writing"
    /\ go' = "sent"
    /\ UNCHANGED <<groupVars, kind, lpc, lerr, report, armed, target, late, evidence>>

GoFails ==
    /\ lpc = "go" /\ go = "writing"
    /\ go' = "no"
    /\ KillAndReap("Evidence")
    /\ UNCHANGED <<proc, scan, forked, kind, report, armed, target, late, evidence>>

\* Ownership passes to the returned launch.
LaunchReturns ==
    /\ lpc = "go" /\ go = "sent"
    /\ lpc' = "returned" /\ armed' = FALSE /\ evidence' = "Full"
    /\ UNCHANGED <<groupVars, kind, lerr, report, go, target, late>>

\* External: the backend holds the target until it has read GO.
BackendStartsTarget(k) ==
    /\ go = "sent" /\ target = NoTarget
    /\ Leader \in Members \ signalled
    /\ Fork(k)
    /\ target' = k
    /\ UNCHANGED <<kind, lpc, lerr, report, go, armed, late, evidence>>

\* kill_and_reap: the leader's exit within two seconds, ...
ReapBackend ==
    /\ lpc = "reapLeader"
    /\ \/ /\ proc[Leader] = "zombie"
          /\ proc' = [proc EXCEPT ![Leader] = "reaped"]
          /\ lpc' = "reapGroup" /\ late' = FALSE
          /\ UNCHANGED lerr
       \/ LaunchFails("Cleanup") /\ UNCHANGED <<proc, late>>
    /\ UNCHANGED <<signalled, scan, forked, kind, report, go, armed, target, evidence>>

\* ... then the group's membership until it is empty, or three seconds.
ReapGroup ==
    /\ lpc = "reapGroup"
    /\ \/ ListPids /\ UNCHANGED launchVars
       \/ /\ scan # NoScan
          /\ \/ MayReportNone /\ lpc' = "failed" /\ UNCHANGED <<lerr, signalled>>
             \/ MayReportSome /\ late /\ LaunchFails("Cleanup") /\ UNCHANGED signalled
             \/ MayReportSome /\ ~late /\ signal_group /\ UNCHANGED <<lpc, lerr>>
             \/ LaunchFails("Cleanup") /\ UNCHANGED signalled
          /\ ScanDone
          /\ UNCHANGED <<proc, kind, report, go, armed, target, late, evidence>>

LaunchStep ==
    \/ HostSpawn \/ PolicyRefuses \/ MintNonce \/ StageRefused \/ RequestRefused
    \/ BackendNotStarted \/ StartBackend \/ ReadReport \/ HandshakeFails \/ GoFails \/ LaunchReturns \/ ReapBackend \/ ReapGroup

BackendStep ==
    \/ BackendReports
    \/ WriteGo
    \/ \E k \in Kids : BackendStartsTarget(k)

(***************************************************************************)
(* Dropping the future: SpawnGroupGuard::drop kills the whole group; an    *)
(* unarmed one leaves the Child's kill_on_drop, which signals the leader.  *)
(***************************************************************************)

\* Mutant: only the Child's own kill_on_drop.
DropSpawn_bug ==
    /\ lpc \notin {"idle", "returned", "failed", "dropped"}
    /\ lpc' = "dropped" /\ scan' = NoScan /\ armed' = FALSE
    /\ signalled' = signalled \cup ({Leader} \cap Members)
    /\ UNCHANGED <<proc, forked, kind, lerr, report, go, target, late, evidence>>

DropSpawn ==
    /\ lpc \notin {"idle", "returned", "failed", "dropped"}
    /\ lpc' = "dropped"
    /\ scan' = NoScan
    /\ armed' = FALSE
    /\ signalled' = signalled \cup
                       (IF armed THEN Members ELSE {Leader} \cap Members)
    /\ UNCHANGED <<proc, forked, kind, lerr, report, go, target, late, evidence>>

===========================================================================
