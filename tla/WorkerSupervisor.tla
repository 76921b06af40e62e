-------------------------- MODULE WorkerSupervisor ------------------------
(***************************************************************************)
(* o7-worker's supervisor task (supervisor.rs): one worker from the spawn  *)
(* request to its single terminal result, over the boundary of             *)
(* SandboyLaunch and the process group of ProcessGroup.                    *)
(*                                                                         *)
(* Each value of pc is an await at which the rest of the world may move:   *)
(* the processes, the readers of their pipes, the caller that cancels. A   *)
(* bounded operation may succeed, fail or run out of time; which of them   *)
(* happens is not decided here, and an operation that ran out of time may  *)
(* have taken effect. late is the one clock: it turns true at some moment  *)
(* of every wait that has a deadline.                                      *)
(***************************************************************************)
EXTENDS SandboyLaunch

CONSTANTS
    Streams,    \* the pipes that are read: stdout, stderr
    Capacity    \* OutputPolicy::channel_capacity

ASSUME CapacityPositive == Capacity \in Nat \ {0}

VARIABLES
    cfg,        \* the WorkerSpec: its boundary requirement, its validity
    pc,         \* the await the supervisor is at
    state,      \* WorkerState
    cancel,     \* the request watch
    alive,      \* Publisher::alive
    obs,        \* the kinds of lifecycle observation the sink has accepted
    term,       \* Termination: why the run phase ended, and Some(exit) reaped
    faults,     \* a teardown fault has been accumulated
    waiting,    \* SandboyMonitorProcess::wait is polling the killed group
    exited,     \* the exit status the supervisor holds: wait() answered Ok
    chan,       \* the readers' channel
    reader,     \* each reader task
    open,       \* output_open
    drain,      \* the fault that ended the drain, or "none"
    result,     \* the WorkerResult
    survivors   \* history: wait() found members alive after the monitor

outVars == <<chan, reader, open, drain>>
runVars == <<cfg, state, cancel, alive, obs, term, faults, waiting, exited,
             result, survivors>>
vars == <<groupVars, launchVars, outVars, runVars, pc>>

Cfg == [requirement : {"AllowUnconfined", "RequireFullyEnforced"},
        valid : BOOLEAN]

Result == {"none", "Exited", "CancelledGracefully", "CancelledForcefully",
           "FailedToStart", "BoundaryFailure", "ObservationFailure",
           "OutputFailure", "CleanupFailure"}

is_failure(r) == r \notin {"Exited", "CancelledGracefully", "CancelledForcefully"}

TermKind == {"none", "Natural", "Graceful", "Forceful", "Sink", "Output",
             "Boundary", "Evidence", "Abandoned"}

Observation == {"BoundaryAttested", "SpawnRequested", "LaunchEvidence",
                "Spawned", "CancellationRequested", "GracefulStopSent",
                "ForceStopSent", "DescendantsRemaining", "Exited",
                "CleanupCompleted", "SupervisorFailed"}

WorkerTypeOK ==
    /\ GroupTypeOK /\ LaunchTypeOK
    /\ cfg \in Cfg
    /\ pc \in {"attest", "check", "cancelEarly", "request", "spawning",
               "evidence", "announce", "abandonForce", "abandonReap",
               "abandoned", "loop", "cancel", "graceful", "graceWait",
               "gracePoll", "escalate", "escalateReap", "faultForce",
               "faultReap", "cleanQuery", "cleanForce", "cleanPoll", "drain",
               "shutdown", "cleaned", "finish", "done"}
    /\ state \in {"Created", "Starting", "Running", "Cancelling", "Exited",
                  "FailedToStart"}
    /\ {cancel, alive, faults, waiting, exited, open, survivors}
          \subseteq BOOLEAN
    /\ obs \subseteq Observation
    /\ term \in [kind : TermKind, reaped : BOOLEAN]
    /\ chan \in Seq({"chunk", "err"}) /\ Len(chan) =< Capacity
    /\ reader \in [Streams -> {"none", "reading", "ended", "aborted"}]
    /\ drain \in {"none", "idle", "deadline", "cap", "read"}
    /\ result \in Result

Init ==
    /\ GroupInit /\ LaunchInit
    /\ cfg \in Cfg
    /\ pc = "attest" /\ state = "Created" /\ cancel = FALSE /\ alive = TRUE
    /\ obs = {} /\ term = [kind |-> "none", reaped |-> FALSE] /\ faults = FALSE
    /\ waiting = FALSE /\ exited = FALSE
    /\ chan = <<>> /\ reader = [s \in Streams |-> "none"]
    /\ open = TRUE /\ drain = "none" /\ result = "none"
    /\ survivors = FALSE

(***************************************************************************)
(* Helpers.                                                                *)
(***************************************************************************)

\* Publisher::emit. A sink that errs or is too slow is dead from then on.
emit(o) ==
    \/ alive /\ alive' = TRUE /\ obs' = obs \cup {o}
    \/ alive' = FALSE /\ UNCHANGED obs

\* Chunks and heartbeats are not kept in obs.
emit_quiet == alive' \in {alive, FALSE} /\ UNCHANGED obs

can_transition_to ==
    {<<"Created", "Starting">>, <<"Starting", "Running">>,
     <<"Starting", "FailedToStart">>, <<"Starting", "Cancelling">>,
     <<"Running", "Cancelling">>, <<"Running", "Exited">>,
     <<"Cancelling", "Exited">>}

\* advance, for the callers that go on when the transition is refused.
advance(to) == state' = IF <<state, to>> \in can_transition_to THEN to ELSE state

\* BoundaryRequirement::is_satisfied_by and BoundaryEvidence::satisfies.
is_satisfied_by ==
    cfg.requirement = "RequireFullyEnforced" => attestation = "Full"

satisfies == cfg.requirement = "RequireFullyEnforced" => evidence = "Full"

Ends(r) == pc' = "done" /\ result' = r

Fault(bad) == faults' = (faults \/ bad)

Terminates(k, reaped, next) ==
    /\ term' = [kind |-> k, reaped |-> reaped]
    /\ pc' = next

\* BoundaryProcess::wait. A Sandboy monitor's exit counts only when it left
\* no member behind; otherwise its wait kills the group and fails. A wait
\* that is given up leaves everything as it is.
wait(ok) ==
    /\ \/ /\ ok
          /\ proc[Leader] \in {"zombie", "reaped"}
          /\ kind = "sandboy" => Members = {}
          /\ proc' = [proc EXCEPT ![Leader] = "reaped"]
          /\ exited' = TRUE
          /\ UNCHANGED <<signalled, survivors>>
       \/ /\ ~ok
          /\ UNCHANGED <<proc, signalled, exited, survivors>>
       \/ /\ ~ok
          /\ kind = "sandboy" /\ proc[Leader] \in {"zombie", "reaped"}
          /\ Members # {}
          /\ proc' = [proc EXCEPT ![Leader] = "reaped"]
          /\ signal_group
          /\ survivors' = TRUE
          /\ UNCHANGED exited

(***************************************************************************)
(* run_inner: everything before a process is owned.                        *)
(***************************************************************************)

Attest ==
    /\ pc = "attest"
    /\ emit("BoundaryAttested")
    /\ IF alive' THEN pc' = "check" /\ UNCHANGED result
       ELSE Ends("ObservationFailure")
    /\ UNCHANGED <<groupVars, launchVars, outVars, cfg, state, cancel, term,
                   faults, waiting, exited, survivors>>

Check ==
    /\ pc = "check"
    /\ IF ~is_satisfied_by \/ ~cfg.valid
       THEN state' = "FailedToStart" /\ Ends("FailedToStart")
       ELSE /\ state' = "Starting"
            /\ pc' = IF cancel THEN "cancelEarly" ELSE "request"
            /\ UNCHANGED result
    /\ UNCHANGED <<groupVars, launchVars, outVars, cfg, cancel, alive, obs,
                   term, faults, waiting, exited, survivors>>

\* A cancel before or during the spawn: nothing is owned.
CancelledBeforeRunning ==
    /\ pc = "cancelEarly"
    /\ emit("CancellationRequested")
    /\ IF alive' THEN state' = "Exited" /\ Ends("CancelledGracefully")
       ELSE Ends("ObservationFailure") /\ UNCHANGED state
    /\ UNCHANGED <<groupVars, launchVars, outVars, cfg, cancel, term, faults,
                   waiting, exited, survivors>>

RequestSpawn ==
    /\ pc = "request"
    /\ emit("SpawnRequested")
    /\ IF alive' THEN pc' = "spawning" /\ lpc' = "start" /\ UNCHANGED result
       ELSE Ends("ObservationFailure") /\ UNCHANGED lpc
    /\ UNCHANGED <<groupVars, kind, lerr, report, go, armed, target, late,
                   evidence, outVars, cfg, state, cancel, term, faults,
                   waiting, exited, survivors>>

\* The select over the spawn future and the cancel watch.
SpawnEnds ==
    /\ pc = "spawning"
    /\ \/ lpc = "returned" /\ pc' = "evidence" /\ UNCHANGED <<state, result>>
       \/ lpc = "failed" /\ advance("FailedToStart") /\ Ends("FailedToStart")
    /\ UNCHANGED <<groupVars, launchVars, outVars, cfg, cancel, alive, obs,
                   term, faults, waiting, exited, survivors>>

\* Mutant: the cancel is looked at only before the spawn has begun.
SpawnCancelled_bug ==
    /\ pc = "spawning" /\ cancel /\ lpc = "start"
    /\ DropSpawn
    /\ pc' = "cancelEarly"
    /\ UNCHANGED <<outVars, runVars>>

SpawnCancelled ==
    /\ pc = "spawning" /\ cancel
    /\ DropSpawn
    /\ pc' = "cancelEarly"
    /\ UNCHANGED <<outVars, runVars>>

(***************************************************************************)
(* A live process is owned: evidence, announcement, or abandon_and_verify. *)
(***************************************************************************)

CheckEvidence ==
    /\ pc = "evidence"
    /\ IF ~satisfies
       THEN Terminates("Evidence", FALSE, "abandonForce")
            /\ UNCHANGED <<alive, obs, state>>
       ELSE /\ emit("LaunchEvidence")
            /\ IF alive' THEN pc' = "announce" /\ advance("Running") /\ UNCHANGED term
               ELSE Terminates("Abandoned", FALSE, "abandonForce") /\ UNCHANGED state
    /\ UNCHANGED <<groupVars, launchVars, outVars, cfg, cancel, faults,
                   waiting, exited, result, survivors>>

\* The readers of manage() start when Spawned has been accepted.
Announce ==
    /\ pc = "announce"
    /\ emit("Spawned")
    /\ IF alive' THEN /\ pc' = "loop"
                      /\ reader' = [s \in Streams |-> "reading"]
                      /\ UNCHANGED term
       ELSE Terminates("Abandoned", FALSE, "abandonForce") /\ UNCHANGED reader
    /\ UNCHANGED <<groupVars, launchVars, chan, open, drain,
                   cfg, state, cancel, faults, waiting, exited, result, survivors>>

AbandonForce ==
    /\ pc = "abandonForce"
    /\ \E ok \in BOOLEAN : force_stop(ok) /\ Fault(~ok)
    /\ pc' = "abandonReap"
    /\ UNCHANGED <<proc, scan, forked, launchVars, outVars, cfg, state, cancel,
                   alive, obs, term, waiting, exited, result, survivors>>

AbandonReap ==
    /\ pc = "abandonReap"
    /\ \E ok \in BOOLEAN : wait(ok) /\ Fault(~ok)
    /\ pc' = "cleanQuery"
    /\ UNCHANGED <<scan, forked, launchVars, outVars, cfg, state, cancel,
                   alive, obs, term, waiting, result>>

AbandonEnds ==
    /\ pc = "abandoned"
    /\ \/ faults /\ Ends("CleanupFailure") /\ UNCHANGED state
       \/ /\ ~faults /\ term.kind = "Evidence"
          /\ advance("FailedToStart") /\ Ends("FailedToStart")
       \/ /\ ~faults /\ term.kind = "Abandoned"
          /\ Ends("ObservationFailure") /\ UNCHANGED state
    /\ UNCHANGED <<groupVars, launchVars, outVars, cfg, cancel, alive, obs,
                   term, faults, waiting, exited, survivors>>

(***************************************************************************)
(* manage: the select loop. Whichever branch is taken, the pending wait    *)
(* future is dropped and called again in the next round.                   *)
(***************************************************************************)

LoopExit ==
    /\ pc = "loop" /\ ~waiting
    /\ wait(TRUE)
    /\ Terminates("Natural", TRUE, "cleanQuery")
    /\ UNCHANGED <<scan, forked, launchVars, outVars, cfg, state, cancel, alive,
                   obs, faults, waiting, result>>

\* The wait itself fails (the poll of a killed group always does).
LoopWaitFails ==
    /\ pc = "loop"
    /\ Terminates("Boundary", FALSE, "faultForce")
    /\ waiting' = FALSE
    /\ UNCHANGED <<groupVars, launchVars, outVars, cfg, state, cancel, alive,
                   obs, faults, exited, result, survivors>>

\* SandboyMonitorProcess::wait after the monitor's exit: members are alive,
\* so it kills them and polls for the group to drain.
LoopMonitorGone ==
    /\ pc = "loop" /\ ~waiting
    /\ kind = "sandboy" /\ proc[Leader] \in {"zombie", "reaped"}
    /\ Members # {}
    /\ proc' = [proc EXCEPT ![Leader] = "reaped"]
    /\ signal_group
    /\ waiting' = TRUE /\ survivors' = TRUE
    /\ UNCHANGED <<scan, forked, launchVars, outVars, pc, cfg, state, cancel,
                   alive, obs, term, faults, exited, result>>

LoopOutput ==
    /\ pc = "loop" /\ open /\ chan # <<>>
    /\ chan' = Tail(chan)
    /\ waiting' = FALSE
    /\ IF Head(chan) = "chunk"
       THEN /\ emit_quiet
            /\ IF alive' THEN UNCHANGED <<pc, term>>
               ELSE Terminates("Sink", FALSE, "faultForce")
       ELSE Terminates("Output", FALSE, "faultForce") /\ UNCHANGED <<alive, obs>>
    /\ UNCHANGED <<groupVars, launchVars, reader, open,
                   drain, cfg, state, cancel, faults, exited, result, survivors>>

AllEnded == \A s \in Streams : reader[s] = "ended"

LoopOutputEnds ==
    /\ pc = "loop" /\ open /\ chan = <<>> /\ AllEnded
    /\ open' = FALSE /\ waiting' = FALSE
    /\ UNCHANGED <<groupVars, launchVars, chan, reader,
                   drain, pc, cfg, state, cancel, alive, obs, term, faults,
                   exited, result, survivors>>

LoopHeartbeat ==
    /\ pc = "loop"
    /\ waiting' = FALSE
    /\ emit_quiet
    /\ IF alive' THEN UNCHANGED <<pc, term>>
       ELSE Terminates("Sink", FALSE, "faultForce")
    /\ UNCHANGED <<groupVars, launchVars, outVars, cfg, state, cancel, faults,
                   exited, result, survivors>>

LoopCancel ==
    /\ pc = "loop" /\ cancel
    /\ waiting' = FALSE
    /\ advance("Cancelling")
    /\ pc' = "cancel"
    /\ UNCHANGED <<groupVars, launchVars, outVars, cfg, cancel, alive, obs,
                   term, faults, exited, result, survivors>>

(***************************************************************************)
(* run_cancellation and force_after_grace.                                 *)
(***************************************************************************)

\* The graceful stop: accepted, refused, or not answered in time.
RequestGracefulStop ==
    /\ pc = "cancel"
    /\ emit("CancellationRequested")
    /\ \/ pc' = "graceful" /\ UNCHANGED term
       \/ Terminates("Boundary", FALSE, "faultForce")
       \/ pc' = "escalate" /\ UNCHANGED term
    /\ late' = FALSE
    /\ UNCHANGED <<groupVars, kind, lpc, lerr, report, go, armed, target,
                   evidence, outVars, cfg, state, cancel, faults, waiting,
                   exited, result, survivors>>

GracefulStopSent ==
    /\ pc = "graceful"
    /\ emit("GracefulStopSent")
    /\ pc' = "graceWait"
    /\ UNCHANGED <<groupVars, launchVars, outVars, cfg, state, cancel, term,
                   faults, waiting, exited, result, survivors>>

\* The leader within the grace: its exit, a failed wait, or the deadline.
AwaitLeader ==
    /\ pc = "graceWait"
    /\ \/ wait(TRUE) /\ pc' = "gracePoll" /\ UNCHANGED term
       \/ wait(FALSE) /\ Terminates("Boundary", FALSE, "faultForce")
       \/ wait(FALSE) /\ pc' = "escalate" /\ UNCHANGED term
    /\ UNCHANGED <<scan, forked, launchVars, outVars, cfg, state, cancel, alive,
                   obs, faults, waiting, result>>

\* The rest of the group within what is left of the grace. A query that
\* fails keeps the exit already observed.
AwaitGroup ==
    /\ pc = "gracePoll"
    /\ \/ ListPids /\ UNCHANGED <<pc, term>>
       \/ /\ MayReportNone /\ ScanDone
          /\ Terminates("Graceful", TRUE, "cleanQuery")
          /\ UNCHANGED <<proc, signalled>>
       \/ /\ MayReportSome /\ ScanDone
          /\ pc' = IF late THEN "escalate" ELSE pc
          /\ UNCHANGED <<proc, signalled, term>>
       \/ /\ scan # NoScan /\ ScanDone
          /\ Terminates("Boundary", exited, "faultForce")
          /\ UNCHANGED <<proc, signalled>>
    /\ UNCHANGED <<launchVars, outVars, cfg, state, cancel, alive, obs, faults,
                   waiting, exited, result, survivors>>

ForceAfterGrace ==
    /\ pc = "escalate"
    /\ emit("ForceStopSent")
    /\ \E ok \in BOOLEAN :
          /\ force_stop(ok)
          /\ \/ ~ok /\ Terminates("Boundary", exited, "faultForce")
             \/ ok /\ exited /\ Terminates("Forceful", TRUE, "cleanQuery")
             \/ ok /\ ~exited /\ pc' = "escalateReap" /\ UNCHANGED term
    /\ UNCHANGED <<proc, scan, forked, launchVars, outVars, cfg, state, cancel,
                   faults, waiting, exited, result, survivors>>

ReapAfterForce ==
    /\ pc = "escalateReap"
    /\ \/ wait(TRUE) /\ Terminates("Forceful", TRUE, "cleanQuery")
       \/ wait(FALSE) /\ Terminates("Boundary", FALSE, "faultForce")
    /\ UNCHANGED <<scan, forked, launchVars, outVars, cfg, state, cancel, alive,
                   obs, faults, waiting, result>>

(***************************************************************************)
(* Emergency teardown of a run that ended on a fault.                      *)
(***************************************************************************)

FaultForce ==
    /\ pc = "faultForce"
    /\ emit("ForceStopSent")
    /\ \E ok \in BOOLEAN : force_stop(ok) /\ Fault(~ok)
    /\ pc' = IF term.reaped THEN "cleanQuery" ELSE "faultReap"
    /\ UNCHANGED <<proc, scan, forked, launchVars, outVars, cfg, state, cancel,
                   term, waiting, exited, result, survivors>>

FaultReap ==
    /\ pc = "faultReap"
    /\ \E ok \in BOOLEAN : wait(ok) /\ Fault(~ok)
    /\ pc' = "cleanQuery"
    /\ UNCHANGED <<scan, forked, launchVars, outVars, cfg, state, cancel, alive,
                   obs, term, waiting, result>>

(***************************************************************************)
(* cleanup_group: prove the group gone, killing what remains.              *)
(***************************************************************************)

\* Mutant: what cleanup_group reports is not accumulated.
AfterCleanup_bug(bad) ==
    /\ UNCHANGED faults
    /\ pc' = IF term.kind \in {"Evidence", "Abandoned"} THEN "abandoned"
             ELSE IF ~faults' /\ alive THEN "drain" ELSE "shutdown"
    /\ late' = FALSE

\* Where the proof, or its failure, is used.
AfterCleanup(bad) ==
    /\ Fault(bad)
    /\ pc' = IF term.kind \in {"Evidence", "Abandoned"} THEN "abandoned"
             ELSE IF ~faults' /\ alive THEN "drain" ELSE "shutdown"
    /\ late' = FALSE

QueryMembers ==
    /\ pc = "cleanQuery"
    /\ \/ /\ ListPids
          /\ UNCHANGED <<pc, faults, alive, obs, late>>
       \/ /\ MayReportNone /\ ScanDone /\ AfterCleanup(FALSE)
          /\ UNCHANGED <<proc, signalled, alive, obs>>
       \/ /\ MayReportSome /\ ScanDone
          /\ emit("DescendantsRemaining")
          /\ pc' = "cleanForce"
          /\ UNCHANGED <<proc, signalled, faults, late>>
       \/ /\ scan # NoScan /\ ScanDone /\ AfterCleanup(TRUE)
          /\ UNCHANGED <<proc, signalled, alive, obs>>
    /\ UNCHANGED <<kind, lpc, lerr, report, go, armed, target, evidence,
                   outVars, cfg, state, cancel, term, waiting, exited, result, survivors>>

ForceSurvivors ==
    /\ pc = "cleanForce"
    /\ \/ /\ force_stop(TRUE) /\ pc' = "cleanPoll" /\ late' = FALSE
          /\ UNCHANGED faults
       \/ force_stop(FALSE) /\ AfterCleanup(TRUE)
    /\ UNCHANGED <<proc, scan, forked, kind, lpc, lerr, report, go, armed,
                   target, evidence, outVars, cfg, state, cancel, alive, obs,
                   term, waiting, exited, result, survivors>>

PollSurvivors ==
    /\ pc = "cleanPoll"
    /\ \/ /\ ListPids
          /\ UNCHANGED <<pc, faults, late>>
       \/ /\ MayReportNone /\ ScanDone /\ AfterCleanup(FALSE)
          /\ UNCHANGED <<proc, signalled>>
       \/ /\ MayReportSome /\ late /\ ScanDone /\ AfterCleanup(TRUE)
          /\ UNCHANGED <<proc, signalled>>
       \/ /\ MayReportSome /\ ~late /\ ScanDone
          /\ UNCHANGED <<proc, signalled, pc, faults, late>>
       \/ /\ scan # NoScan /\ ScanDone /\ AfterCleanup(TRUE)
          /\ UNCHANGED <<proc, signalled>>
    /\ UNCHANGED <<kind, lpc, lerr, report, go, armed, target, evidence,
                   outVars, cfg, state, cancel, alive, obs, term, waiting,
                   exited, result, survivors>>

(***************************************************************************)
(* The drain of trailing output, and the terminal.                         *)
(***************************************************************************)

\* Mutant: a pipe that stays idle is taken for a pipe that was closed.
DrainEnds_bug(f) ==
    drain' = (IF f = "idle" THEN "none" ELSE f) /\ pc' = "shutdown"

DrainEnds(f) == drain' = f /\ pc' = "shutdown"

Drain ==
    /\ pc = "drain"
    /\ \/ /\ ~late /\ chan = <<>> /\ AllEnded
          /\ DrainEnds("none")
          /\ UNCHANGED <<chan, alive, obs>>
       \/ /\ ~late /\ chan = <<>> /\ ~AllEnded
          /\ DrainEnds("idle")
          /\ UNCHANGED <<chan, alive, obs>>
       \/ /\ late
          /\ DrainEnds("deadline")
          /\ UNCHANGED <<chan, alive, obs>>
       \/ /\ ~late /\ chan # <<>>
          /\ chan' = Tail(chan)
          /\ \/ /\ Head(chan) = "err"
                /\ DrainEnds("read") /\ UNCHANGED <<alive, obs>>
             \/ /\ Head(chan) = "chunk"     \* over max_trailing_bytes
                /\ DrainEnds("cap") /\ UNCHANGED <<alive, obs>>
             \/ /\ Head(chan) = "chunk"
                /\ emit_quiet
                /\ pc' = IF alive' THEN pc ELSE "shutdown"
                /\ UNCHANGED drain
    /\ UNCHANGED <<groupVars, launchVars, reader, open, cfg, state,
                   cancel, term, faults, waiting, exited, result, survivors>>

\* readers.shutdown(), Exited, and the exit if one was observed.
Shutdown ==
    /\ pc = "shutdown"
    /\ reader' = [s \in Streams |->
                     IF reader[s] = "ended" THEN "ended" ELSE "aborted"]
    /\ advance("Exited")
    /\ IF term.reaped THEN emit("Exited") ELSE UNCHANGED <<alive, obs>>
    /\ pc' = "cleaned"
    /\ UNCHANGED <<groupVars, launchVars, chan, open, drain,
                   cfg, cancel, term, faults, waiting, exited, result, survivors>>

CleanupCompleted ==
    /\ pc = "cleaned"
    /\ IF faults THEN UNCHANGED <<alive, obs>> ELSE emit("CleanupCompleted")
    /\ pc' = "finish"
    /\ UNCHANGED <<groupVars, launchVars, outVars, cfg, state, cancel, term,
                   faults, waiting, exited, result, survivors>>

base ==
    CASE term.kind = "Natural"  -> "Exited"
      [] term.kind = "Graceful" -> "CancelledGracefully"
      [] term.kind = "Forceful" -> "CancelledForcefully"
      [] term.kind = "Sink"     -> "ObservationFailure"
      [] term.kind = "Output"   -> "OutputFailure"
      [] OTHER                  -> "BoundaryFailure"

\* A fault of the drain overrides a clean outcome, never another fault.
effective == IF ~is_failure(base) /\ drain # "none" THEN "OutputFailure" ELSE base

\* Mutant: the sink's loss on the last observations is not looked at.
finalize_bug(sinkAlive) == IF faults THEN "CleanupFailure" ELSE effective

\* CleanupFailure > ObservationFailure > the run's own outcome.
finalize(sinkAlive) ==
    IF faults THEN "CleanupFailure"
    ELSE IF ~sinkAlive THEN "ObservationFailure" ELSE effective

Finish ==
    /\ pc = "finish"
    /\ IF alive /\ is_failure(finalize(alive)) THEN emit("SupervisorFailed")
       ELSE UNCHANGED <<alive, obs>>
    /\ Ends(finalize(alive'))
    /\ UNCHANGED <<groupVars, launchVars, outVars, cfg, state, cancel, term,
                   faults, waiting, exited, survivors>>

(***************************************************************************)
(* Everyone else: the caller, the readers, time.                           *)
(***************************************************************************)

\* WorkerHandle::cancel, or the handle dropped.
Cancel ==
    /\ ~cancel
    /\ cancel' = TRUE
    /\ UNCHANGED <<groupVars, launchVars, outVars, pc, cfg, state, alive, obs,
                   term, faults, waiting, exited, result, survivors>>

\* read_stream: a chunk (of a process that holds the pipe, or left in it by
\* one that did), the end of the pipe, or an error that ends the reader.
read_stream(s) ==
    /\ reader[s] = "reading"
    /\ \/ /\ Len(chan) < Capacity
          /\ chan' = Append(chan, "chunk")
          /\ UNCHANGED reader
       \/ /\ Len(chan) < Capacity
          /\ chan' = Append(chan, "err")
          /\ reader' = [reader EXCEPT ![s] = "ended"]
       \/ /\ PipeHolders = {}
          /\ reader' = [reader EXCEPT ![s] = "ended"]
          /\ UNCHANGED chan

Output ==
    /\ \E s \in Streams : read_stream(s)
    /\ UNCHANGED <<groupVars, launchVars, open, drain, runVars, pc>>

TimePasses ==
    /\ ~late
    /\ pc \in {"gracePoll", "cleanPoll", "drain"} \/ lpc = "reapGroup"
    /\ late' = TRUE
    /\ UNCHANGED <<groupVars, kind, lpc, lerr, report, go, armed, target,
                   evidence, outVars, runVars, pc>>

Processes == ProcessesRun /\ UNCHANGED <<launchVars, outVars, runVars, pc>>

Launch == LaunchStep /\ UNCHANGED <<outVars, runVars, pc>>

Backend == BackendStep /\ UNCHANGED <<outVars, runVars, pc>>

Loop ==
    \/ LoopExit \/ LoopWaitFails \/ LoopMonitorGone \/ LoopOutput
    \/ LoopOutputEnds \/ LoopHeartbeat \/ LoopCancel

\* Every await outside the select loop and the spawn is bounded.
Bounded ==
    \/ Attest \/ Check \/ CancelledBeforeRunning \/ RequestSpawn \/ SpawnEnds
    \/ CheckEvidence \/ Announce \/ AbandonForce \/ AbandonReap \/ AbandonEnds
    \/ RequestGracefulStop \/ GracefulStopSent \/ AwaitLeader \/ AwaitGroup
    \/ ForceAfterGrace \/ ReapAfterForce \/ FaultForce \/ FaultReap
    \/ QueryMembers \/ ForceSurvivors \/ PollSurvivors
    \/ Drain \/ Shutdown \/ CleanupCompleted \/ Finish

Next ==
    \/ Bounded \/ Loop \/ SpawnCancelled \/ Launch \/ Backend
    \/ Cancel \/ Output \/ TimePasses \/ Processes

\* The runtime polls the task while it can move, the select is random and so
\* fair to each ready branch, tokio's child wait reports an exit, and time
\* passes. Nothing is assumed of the processes, the readers, the sink or the
\* spawn.
Fairness ==
    /\ WF_vars(Bounded) /\ WF_vars(LoopCancel) /\ WF_vars(SpawnCancelled)
    /\ WF_vars(LoopExit) /\ WF_vars(TimePasses)

Spec == Init /\ [][Next]_vars /\ Fairness

(***************************************************************************)
(* Properties.                                                             *)
(***************************************************************************)

\* A terminal other than CleanupFailure means the owned group is gone: no
\* path through a fault, a timeout or a cancel reports anything else over a
\* live member. Excepted are a launch that already failed on its own
\* cleanup, a dropped launch whose group has its SIGKILL pending, and a
\* member born behind the back of the last /proc scan.
GroupGone ==
    pc = "done" =>
        \/ Members = {}
        \/ result = "CleanupFailure"
        \/ lpc = "failed" /\ lerr = "Cleanup"
        \/ lpc = "dropped" /\ Members \subseteq signalled
        \/ forked

\* A clean result of a worker that ran means every chunk that was ever read
\* was published and every pipe was read to its end.
OutputComplete ==
    (pc = "done" /\ ~is_failure(result) /\ lpc = "returned") =>
        chan = <<>> /\ AllEnded

\* A clean result is told to a live sink in full, and the worker is in its
\* terminal state: no sink lost on the last observations is papered over.
CleanResultReported ==
    (pc = "done" /\ ~is_failure(result)) =>
        /\ alive /\ state = "Exited"
        /\ "SupervisorFailed" \notin obs
        /\ lpc = "returned" => {"Spawned", "Exited", "CleanupCompleted"} \subseteq obs

\* The target runs only on a report whose every binding was verified, even
\* when GO is written after the launch was abandoned (verify_report).
TargetAuthorised == target # NoTarget => report = {}

\* A launch that failed, or was dropped by a cancel at any of its awaits,
\* leaves no process that is not dead or dying.
AbandonedLaunchIsDead ==
    /\ lpc = "dropped" => Members \subseteq signalled
    /\ (lpc = "failed" /\ lerr # "Cleanup") => (Members = {} \/ forked)

\* No launch of the sandboy boundary, abandoned at whatever point, lets an
\* unverified target run or leaves a process of it behind.
LaunchIsSafe == WorkerTypeOK /\ TargetAuthorised /\ AbandonedLaunchIsDead

\* The refinement mapping: a caller sees whether the worker was launched and has
\* ended, its own request, the leader's exit, the sink and the result.
Contract == INSTANCE WorkerContract WITH
    status  <- IF pc = "done" THEN "ended"
               ELSE IF lpc = "returned" THEN "running" ELSE "created",
    asked   <- cancel,
    exits   <- proc[Leader] \in {"zombie", "reaped"} /\ kind # "sandboy",
    sink    <- alive,
    outcome <- result

\* The supervisor implements WorkerContract, what its callers rely on: one
\* terminal result, clean only over a live sink, cancelled only when asked,
\* exited only after a launch.  And a terminal result always follows a cancel,
\* whatever hangs (the spawn, the boundary's operations, the sink, the pipes or
\* the processes), and the leader's exit, of a boundary whose wait reports it.
ImplementsContract == Contract!ContractSpec

\* What the module documentation of sandboy_boundary.rs promises: a monitor
\* that exits leaving a live owned target fails closed even on a clean code.
MonitorLossFailsClosed == (pc = "done" /\ survivors) => result # "Exited"

===========================================================================
