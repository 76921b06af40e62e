----------------------- MODULE WorkerSupervisorProofs -----------------------
(***************************************************************************)
(* The properties of WorkerSupervisor for every number of processes, every *)
(* set of pipes and every capacity of the output channel, and the safety   *)
(* half of the refinement of WorkerContract.                               *)
(*                                                                         *)
(* The terminal result is decided several awaits after what it stands for  *)
(* happened, while the processes go on.  The invariant carries the facts   *)
(* along: where the spawn future may be for each await (Place), why the    *)
(* run ended (TermInv), what the sink was told (ObsInv), that the last     *)
(* scan of the group found it empty (GroupInv) and that the drain read     *)
(* everything (OutputInv).  What the processes do on their own is one      *)
(* relation, Wild, that every part of the invariant is closed under.       *)
(***************************************************************************)
EXTENDS WorkerSupervisor, SequenceTheorems, TLAPS

-----------------------------------------------------------------------------
(* The invariant *)

\* The awaits of run_cancellation and force_after_grace, ...
Cancelling == {"cancel", "graceful", "graceWait", "gracePoll", "escalate",
               "escalateReap"}

\* ... of the emergency teardown, ...
Faulted == {"faultForce", "faultReap"}

\* ... of cleanup_group, ...
Cleaning == {"cleanQuery", "cleanForce", "cleanPoll"}

\* ... of the drain and the terminal observations, ...
Ending == {"drain", "shutdown", "cleaned", "finish"}

\* ... and of abandon_and_verify.
Abandoning == {"abandonForce", "abandonReap", "abandoned"}

\* The awaits at which the supervisor owns a launched process.
Owned == {"evidence", "announce", "loop"} \cup Cancelling \cup Faulted
            \cup Cleaning \cup Ending \cup Abandoning

\* The spawn future and the supervisor are at places that go together.
Place ==
    /\ pc \in {"attest", "check", "request"} => lpc = "idle"
    /\ pc = "cancelEarly" => lpc \in {"idle", "dropped"}
    /\ pc = "spawning" => lpc \notin {"idle", "dropped"}
    /\ pc \in Owned => lpc = "returned"
    /\ pc = "done" => lpc \in {"idle", "failed", "dropped", "returned"}

\* Where the spawn future is before any process exists.
NotBegun == {"idle", "start", "staging"}

\* Nothing runs before the leader is started; GO and the target come after a
\* verified report; the guard covers the handshake; a launch that is being torn
\* down has every member killed; what the scan under way does not list was
\* forked behind its back.
LaunchInv ==
    /\ lpc \in NotBegun => scan = NoScan /\ \A p \in Procs : proc[p] = "unborn"
    /\ lpc \in NotBegun \cup {"handshake"} => go = "no" /\ target = NoTarget
    /\ go # "no" => report = {}
    /\ TargetAuthorised
    /\ lpc \in {"handshake", "go"} => armed
    /\ lpc \in {"reapLeader", "reapGroup"} => Members \subseteq signalled
    /\ scan # NoScan => Members \subseteq scan \/ forked
    /\ AbandonedLaunchIsDead

\* A run that ended in manage, not in abandon_and_verify.
Managed == term.kind \notin {"Evidence", "Abandoned"}

\* The terminations that a clean result reports.
Clean == {"Natural", "Graceful", "Forceful"}

\* The WorkerState at each await: the final advance to Exited is never refused.
StateInv ==
    /\ pc \in {"request", "spawning", "evidence"} => state = "Starting"
    /\ pc \in {"announce", "loop"} => state = "Running"
    /\ pc \in Cancelling => state = "Cancelling"
    /\ pc \in Faulted \cup Cleaning \cup {"drain", "shutdown"} /\ Managed =>
          state \in {"Running", "Cancelling"}
    /\ pc \in {"cleaned", "finish"} => state = "Exited"

\* A cancellation was asked for, a clean termination reaped the leader, and
\* abandon_and_verify is entered by no run that was announced.
TermInv ==
    /\ pc \in Cancelling \cup {"cancelEarly"} => cancel
    /\ term.kind \in {"Graceful", "Forceful"} => cancel
    /\ term.kind \in Clean => term.reaped
    /\ pc \in Ending => Managed
    /\ pc \in Abandoning => ~Managed

\* What a sink that is still alive has been told at each await.
ObsInv ==
    /\ pc # "done" => "SupervisorFailed" \notin obs
    /\ pc \in {"loop", "cleaned", "finish"} \cup Cancelling => "Spawned" \in obs
    /\ pc \in Faulted \cup Cleaning \cup Ending /\ Managed => "Spawned" \in obs
    /\ pc \in {"cleaned", "finish"} /\ alive /\ term.reaped => "Exited" \in obs
    /\ pc = "finish" /\ alive /\ ~faults => "CleanupCompleted" \in obs

\* Past cleanup_group the group is gone, or a fault says it may not be.
GroupInv ==
    pc \in Ending \cup {"abandoned"} => faults \/ Members = {} \/ forked

\* Past the drain everything was read, or something says it was not.
OutputInv ==
    pc \in {"shutdown", "cleaned", "finish"} =>
        faults \/ ~alive \/ drain # "none" \/ (chan = <<>> /\ AllEnded)

\* The types of what the supervisor keeps, apart from the group and the output.
PcTypes ==
    /\ cfg \in Cfg
    /\ pc \in {"attest", "check", "cancelEarly", "request", "spawning", "done"} \cup Owned
    /\ state \in {"Created", "Starting", "Running", "Cancelling", "Exited",
                  "FailedToStart"}
    /\ result \in Result

\* ... its flags, ...
FlagTypes ==
    /\ cancel \in BOOLEAN /\ alive \in BOOLEAN /\ faults \in BOOLEAN
    /\ waiting \in BOOLEAN /\ exited \in BOOLEAN /\ survivors \in BOOLEAN

\* ... what the sink has accepted, ...
ObsTypes == obs \subseteq Observation

\* ... and the termination.
TermTypes == term \in [kind : TermKind, reaped : BOOLEAN]

\* All of them.
RunTypes == PcTypes /\ FlagTypes /\ ObsTypes /\ TermTypes

\* The types of the output's path.
OutTypes ==
    /\ chan \in Seq({"chunk", "err"}) /\ Len(chan) =< Capacity
    /\ reader \in [Streams -> {"none", "reading", "ended", "aborted"}]
    /\ open \in BOOLEAN /\ drain \in {"none", "idle", "deadline", "cap", "read"}

\* The inductive invariant.
Inv ==
    /\ GroupTypeOK /\ LaunchTypeOK /\ RunTypes /\ OutTypes
    /\ Place /\ LaunchInv
    /\ StateInv /\ TermInv /\ ObsInv /\ CleanResultReported
    /\ GroupInv /\ GroupGone
    /\ OutputInv /\ OutputComplete

\* The supervisor waits for a launch, owns one, or has none.
LEMMA PlaceStep ==
    ASSUME Place, Bounded \/ Loop
    PROVE  Place'
<1> USE DEF Place, Owned, Cancelling, Faulted, Cleaning, Ending, Abandoning,
        launchVars, Ends, Terminates, AfterCleanup, DrainEnds
<1>1. CASE Attest
  BY <1>1 DEF Attest
<1>2. CASE Check
  BY <1>2 DEF Check
<1>3. CASE CancelledBeforeRunning
  BY <1>3 DEF CancelledBeforeRunning
<1>4. CASE RequestSpawn
  BY <1>4 DEF RequestSpawn
<1>5. CASE SpawnEnds
  BY <1>5 DEF SpawnEnds
<1>6. CASE CheckEvidence
  BY <1>6 DEF CheckEvidence
<1>7. CASE Announce
  BY <1>7 DEF Announce
<1>8. CASE AbandonForce
  BY <1>8 DEF AbandonForce
<1>9. CASE AbandonReap
  BY <1>9 DEF AbandonReap
<1>10. CASE AbandonEnds
  BY <1>10 DEF AbandonEnds
<1>11. CASE RequestGracefulStop
  BY <1>11 DEF RequestGracefulStop
<1>12. CASE GracefulStopSent
  BY <1>12 DEF GracefulStopSent
<1>13. CASE AwaitLeader
  BY <1>13 DEF AwaitLeader
<1>14. CASE AwaitGroup
  BY <1>14 DEF AwaitGroup
<1>15. CASE ForceAfterGrace
  BY <1>15 DEF ForceAfterGrace
<1>16. CASE ReapAfterForce
  BY <1>16 DEF ReapAfterForce
<1>17. CASE FaultForce
  BY <1>17 DEF FaultForce
<1>18. CASE FaultReap
  BY <1>18 DEF FaultReap
<1>19. CASE QueryMembers
  BY <1>19 DEF QueryMembers
<1>20. CASE ForceSurvivors
  BY <1>20 DEF ForceSurvivors
<1>21. CASE PollSurvivors
  BY <1>21 DEF PollSurvivors
<1>22. CASE Drain
  BY <1>22 DEF Drain
<1>23. CASE Shutdown
  BY <1>23 DEF Shutdown
<1>24. CASE CleanupCompleted
  BY <1>24 DEF CleanupCompleted
<1>25. CASE Finish
  BY <1>25 DEF Finish
<1>26. CASE LoopExit
  BY <1>26 DEF LoopExit
<1>27. CASE LoopWaitFails
  BY <1>27 DEF LoopWaitFails
<1>28. CASE LoopMonitorGone
  BY <1>28 DEF LoopMonitorGone
<1>29. CASE LoopOutput
  BY <1>29 DEF LoopOutput
<1>30. CASE LoopOutputEnds
  BY <1>30 DEF LoopOutputEnds
<1>31. CASE LoopHeartbeat
  BY <1>31 DEF LoopHeartbeat
<1>32. CASE LoopCancel
  BY <1>32 DEF LoopCancel
<1> QED
  BY <1>1, <1>2, <1>3, <1>4, <1>5, <1>6, <1>7, <1>8, <1>9, <1>10, <1>11, <1>12,
     <1>13, <1>14, <1>15, <1>16, <1>17, <1>18, <1>19, <1>20, <1>21, <1>22, <1>23,
     <1>24, <1>25, <1>26, <1>27, <1>28, <1>29, <1>30, <1>31, <1>32 DEF Bounded, Loop

\* advance is never refused on the way to Exited.
LEMMA StateStep ==
    ASSUME RunTypes, StateInv, TermInv, Bounded \/ Loop
    PROVE  StateInv'
<1> USE DEF StateInv, TermInv, Managed, Owned, Cancelling, Faulted, Cleaning,
        Ending, Abandoning, Ends, Terminates, AfterCleanup, DrainEnds, advance,
        can_transition_to
<1>1. CASE Attest
  BY <1>1 DEF Attest
<1>2. CASE Check
  BY <1>2 DEF Check
<1>3. CASE CancelledBeforeRunning
  BY <1>3 DEF CancelledBeforeRunning
<1>4. CASE RequestSpawn
  BY <1>4 DEF RequestSpawn
<1>5. CASE SpawnEnds
  BY <1>5 DEF SpawnEnds
<1>6. CASE CheckEvidence
  BY <1>6 DEF CheckEvidence
<1>7. CASE Announce
  BY <1>7 DEF Announce
<1>8. CASE AbandonForce
  BY <1>8 DEF AbandonForce
<1>9. CASE AbandonReap
  BY <1>9 DEF AbandonReap
<1>10. CASE AbandonEnds
  BY <1>10 DEF AbandonEnds
<1>11. CASE RequestGracefulStop
  BY <1>11 DEF RequestGracefulStop
<1>12. CASE GracefulStopSent
  BY <1>12 DEF GracefulStopSent
<1>13. CASE AwaitLeader
  BY <1>13 DEF AwaitLeader
<1>14. CASE AwaitGroup
  BY <1>14 DEF AwaitGroup
<1>15. CASE ForceAfterGrace
  BY <1>15 DEF ForceAfterGrace
<1>16. CASE ReapAfterForce
  BY <1>16 DEF ReapAfterForce
<1>17. CASE FaultForce
  BY <1>17 DEF FaultForce
<1>18. CASE FaultReap
  BY <1>18 DEF FaultReap
<1>19. CASE QueryMembers
  BY <1>19 DEF QueryMembers
<1>20. CASE ForceSurvivors
  BY <1>20 DEF ForceSurvivors
<1>21. CASE PollSurvivors
  BY <1>21 DEF PollSurvivors
<1>22. CASE Drain
  BY <1>22 DEF Drain
<1>23. CASE Shutdown
  BY <1>23 DEF Shutdown
<1>24. CASE CleanupCompleted
  BY <1>24 DEF CleanupCompleted
<1>25. CASE Finish
  BY <1>25 DEF Finish
<1>26. CASE LoopExit
  BY <1>26 DEF LoopExit
<1>27. CASE LoopWaitFails
  BY <1>27 DEF LoopWaitFails
<1>28. CASE LoopMonitorGone
  BY <1>28 DEF LoopMonitorGone
<1>29. CASE LoopOutput
  BY <1>29 DEF LoopOutput
<1>30. CASE LoopOutputEnds
  BY <1>30 DEF LoopOutputEnds
<1>31. CASE LoopHeartbeat
  BY <1>31 DEF LoopHeartbeat
<1>32. CASE LoopCancel
  BY <1>32 DEF LoopCancel
<1> QED
  BY <1>1, <1>2, <1>3, <1>4, <1>5, <1>6, <1>7, <1>8, <1>9, <1>10, <1>11, <1>12,
     <1>13, <1>14, <1>15, <1>16, <1>17, <1>18, <1>19, <1>20, <1>21, <1>22, <1>23,
     <1>24, <1>25, <1>26, <1>27, <1>28, <1>29, <1>30, <1>31, <1>32 DEF Bounded, Loop

\* Only a cancelled run ends cancelled, and a clean end has its exit.
LEMMA TermStep ==
    ASSUME TermInv, Bounded \/ Loop
    PROVE  TermInv'
<1> USE DEF TermInv, Managed, Clean, Owned, Cancelling, Faulted, Cleaning, Ending,
        Abandoning, Ends, Terminates, AfterCleanup, DrainEnds, wait
<1>1. CASE Attest
  BY <1>1 DEF Attest
<1>2. CASE Check
  BY <1>2 DEF Check
<1>3. CASE CancelledBeforeRunning
  BY <1>3 DEF CancelledBeforeRunning
<1>4. CASE RequestSpawn
  BY <1>4 DEF RequestSpawn
<1>5. CASE SpawnEnds
  BY <1>5 DEF SpawnEnds
<1>6. CASE CheckEvidence
  BY <1>6 DEF CheckEvidence
<1>7. CASE Announce
  BY <1>7 DEF Announce
<1>8. CASE AbandonForce
  BY <1>8 DEF AbandonForce
<1>9. CASE AbandonReap
  BY <1>9 DEF AbandonReap
<1>10. CASE AbandonEnds
  BY <1>10 DEF AbandonEnds
<1>11. CASE RequestGracefulStop
  BY <1>11 DEF RequestGracefulStop
<1>12. CASE GracefulStopSent
  BY <1>12 DEF GracefulStopSent
<1>13. CASE AwaitLeader
  BY <1>13 DEF AwaitLeader
<1>14. CASE AwaitGroup
  BY <1>14 DEF AwaitGroup
<1>15. CASE ForceAfterGrace
  BY <1>15 DEF ForceAfterGrace
<1>16. CASE ReapAfterForce
  BY <1>16 DEF ReapAfterForce
<1>17. CASE FaultForce
  BY <1>17 DEF FaultForce
<1>18. CASE FaultReap
  BY <1>18 DEF FaultReap
<1>19. CASE QueryMembers
  BY <1>19 DEF QueryMembers
<1>20. CASE ForceSurvivors
  BY <1>20 DEF ForceSurvivors
<1>21. CASE PollSurvivors
  BY <1>21 DEF PollSurvivors
<1>22. CASE Drain
  BY <1>22 DEF Drain
<1>23. CASE Shutdown
  BY <1>23 DEF Shutdown
<1>24. CASE CleanupCompleted
  BY <1>24 DEF CleanupCompleted
<1>25. CASE Finish
  BY <1>25 DEF Finish
<1>26. CASE LoopExit
  BY <1>26 DEF LoopExit
<1>27. CASE LoopWaitFails
  BY <1>27 DEF LoopWaitFails
<1>28. CASE LoopMonitorGone
  BY <1>28 DEF LoopMonitorGone
<1>29. CASE LoopOutput
  BY <1>29 DEF LoopOutput
<1>30. CASE LoopOutputEnds
  BY <1>30 DEF LoopOutputEnds
<1>31. CASE LoopHeartbeat
  BY <1>31 DEF LoopHeartbeat
<1>32. CASE LoopCancel
  BY <1>32 DEF LoopCancel
<1> QED
  BY <1>1, <1>2, <1>3, <1>4, <1>5, <1>6, <1>7, <1>8, <1>9, <1>10, <1>11, <1>12,
     <1>13, <1>14, <1>15, <1>16, <1>17, <1>18, <1>19, <1>20, <1>21, <1>22, <1>23,
     <1>24, <1>25, <1>26, <1>27, <1>28, <1>29, <1>30, <1>31, <1>32 DEF Bounded, Loop

\* What a live sink has been told.
LEMMA ObsStep ==
    ASSUME ObsInv, TermInv, Bounded \/ Loop
    PROVE  ObsInv'
<1> USE DEF ObsInv, TermInv, Managed, Owned, Cancelling, Faulted, Cleaning, Ending,
        Abandoning, Ends, Terminates, AfterCleanup, DrainEnds, emit, emit_quiet,
        Fault
<1>1. CASE Attest
  BY <1>1 DEF Attest
<1>2. CASE Check
  BY <1>2 DEF Check
<1>3. CASE CancelledBeforeRunning
  BY <1>3 DEF CancelledBeforeRunning
<1>4. CASE RequestSpawn
  BY <1>4 DEF RequestSpawn
<1>5. CASE SpawnEnds
  BY <1>5 DEF SpawnEnds
<1>6. CASE CheckEvidence
  BY <1>6 DEF CheckEvidence
<1>7. CASE Announce
  BY <1>7 DEF Announce
<1>8. CASE AbandonForce
  BY <1>8 DEF AbandonForce
<1>9. CASE AbandonReap
  BY <1>9 DEF AbandonReap
<1>10. CASE AbandonEnds
  BY <1>10 DEF AbandonEnds
<1>11. CASE RequestGracefulStop
  BY <1>11 DEF RequestGracefulStop
<1>12. CASE GracefulStopSent
  BY <1>12 DEF GracefulStopSent
<1>13. CASE AwaitLeader
  BY <1>13 DEF AwaitLeader
<1>14. CASE AwaitGroup
  BY <1>14 DEF AwaitGroup
<1>15. CASE ForceAfterGrace
  BY <1>15 DEF ForceAfterGrace
<1>16. CASE ReapAfterForce
  BY <1>16 DEF ReapAfterForce
<1>17. CASE FaultForce
  BY <1>17 DEF FaultForce
<1>18. CASE FaultReap
  BY <1>18 DEF FaultReap
<1>19. CASE QueryMembers
  BY <1>19 DEF QueryMembers
<1>20. CASE ForceSurvivors
  BY <1>20 DEF ForceSurvivors
<1>21. CASE PollSurvivors
  BY <1>21 DEF PollSurvivors
<1>22. CASE Drain
  BY <1>22 DEF Drain
<1>23. CASE Shutdown
  BY <1>23 DEF Shutdown
<1>24. CASE CleanupCompleted
  BY <1>24 DEF CleanupCompleted
<1>25. CASE Finish
  BY <1>25 DEF Finish
<1>26. CASE LoopExit
  BY <1>26 DEF LoopExit
<1>27. CASE LoopWaitFails
  BY <1>27 DEF LoopWaitFails
<1>28. CASE LoopMonitorGone
  BY <1>28 DEF LoopMonitorGone
<1>29. CASE LoopOutput
  BY <1>29 DEF LoopOutput
<1>30. CASE LoopOutputEnds
  BY <1>30 DEF LoopOutputEnds
<1>31. CASE LoopHeartbeat
  BY <1>31 DEF LoopHeartbeat
<1>32. CASE LoopCancel
  BY <1>32 DEF LoopCancel
<1> QED
  BY <1>1, <1>2, <1>3, <1>4, <1>5, <1>6, <1>7, <1>8, <1>9, <1>10, <1>11, <1>12,
     <1>13, <1>14, <1>15, <1>16, <1>17, <1>18, <1>19, <1>20, <1>21, <1>22, <1>23,
     <1>24, <1>25, <1>26, <1>27, <1>28, <1>29, <1>30, <1>31, <1>32 DEF Bounded, Loop

\* The types of the supervisor's place, state and result.
LEMMA PcTypesStep ==
    ASSUME PcTypes, Bounded \/ Loop
    PROVE  PcTypes'
<1> USE DEF PcTypes, Owned, Cancelling, Faulted, Cleaning, Ending, Abandoning,
        Result, advance, can_transition_to, Ends, Terminates, AfterCleanup,
        DrainEnds, finalize, effective, base
<1>1. CASE Attest
  BY <1>1 DEF Attest
<1>2. CASE Check
  BY <1>2 DEF Check
<1>3. CASE CancelledBeforeRunning
  BY <1>3 DEF CancelledBeforeRunning
<1>4. CASE RequestSpawn
  BY <1>4 DEF RequestSpawn
<1>5. CASE SpawnEnds
  BY <1>5 DEF SpawnEnds
<1>6. CASE CheckEvidence
  BY <1>6 DEF CheckEvidence
<1>7. CASE Announce
  BY <1>7 DEF Announce
<1>8. CASE AbandonForce
  BY <1>8 DEF AbandonForce
<1>9. CASE AbandonReap
  BY <1>9 DEF AbandonReap
<1>10. CASE AbandonEnds
  BY <1>10 DEF AbandonEnds
<1>11. CASE RequestGracefulStop
  BY <1>11 DEF RequestGracefulStop
<1>12. CASE GracefulStopSent
  BY <1>12 DEF GracefulStopSent
<1>13. CASE AwaitLeader
  BY <1>13 DEF AwaitLeader
<1>14. CASE AwaitGroup
  BY <1>14 DEF AwaitGroup
<1>15. CASE ForceAfterGrace
  BY <1>15 DEF ForceAfterGrace
<1>16. CASE ReapAfterForce
  BY <1>16 DEF ReapAfterForce
<1>17. CASE FaultForce
  BY <1>17 DEF FaultForce
<1>18. CASE FaultReap
  BY <1>18 DEF FaultReap
<1>19. CASE QueryMembers
  BY <1>19 DEF QueryMembers
<1>20. CASE ForceSurvivors
  BY <1>20 DEF ForceSurvivors
<1>21. CASE PollSurvivors
  BY <1>21 DEF PollSurvivors
<1>22. CASE Drain
  BY <1>22 DEF Drain
<1>23. CASE Shutdown
  BY <1>23 DEF Shutdown
<1>24. CASE CleanupCompleted
  BY <1>24 DEF CleanupCompleted
<1>25. CASE Finish
  BY <1>25 DEF Finish
<1>26. CASE LoopExit
  BY <1>26 DEF LoopExit
<1>27. CASE LoopWaitFails
  BY <1>27 DEF LoopWaitFails
<1>28. CASE LoopMonitorGone
  BY <1>28 DEF LoopMonitorGone
<1>29. CASE LoopOutput
  BY <1>29 DEF LoopOutput
<1>30. CASE LoopOutputEnds
  BY <1>30 DEF LoopOutputEnds
<1>31. CASE LoopHeartbeat
  BY <1>31 DEF LoopHeartbeat
<1>32. CASE LoopCancel
  BY <1>32 DEF LoopCancel
<1> QED
  BY <1>1, <1>2, <1>3, <1>4, <1>5, <1>6, <1>7, <1>8, <1>9, <1>10, <1>11, <1>12,
     <1>13, <1>14, <1>15, <1>16, <1>17, <1>18, <1>19, <1>20, <1>21, <1>22, <1>23,
     <1>24, <1>25, <1>26, <1>27, <1>28, <1>29, <1>30, <1>31, <1>32 DEF Bounded, Loop

\* The types of its flags.
LEMMA FlagTypesStep ==
    ASSUME FlagTypes, Bounded \/ Loop
    PROVE  FlagTypes'
<1> USE DEF FlagTypes, emit, emit_quiet, Fault, AfterCleanup, wait, Ends,
        Terminates, DrainEnds
<1>1. CASE Attest
  BY <1>1 DEF Attest
<1>2. CASE Check
  BY <1>2 DEF Check
<1>3. CASE CancelledBeforeRunning
  BY <1>3 DEF CancelledBeforeRunning
<1>4. CASE RequestSpawn
  BY <1>4 DEF RequestSpawn
<1>5. CASE SpawnEnds
  BY <1>5 DEF SpawnEnds
<1>6. CASE CheckEvidence
  BY <1>6 DEF CheckEvidence
<1>7. CASE Announce
  BY <1>7 DEF Announce
<1>8. CASE AbandonForce
  BY <1>8 DEF AbandonForce
<1>9. CASE AbandonReap
  BY <1>9 DEF AbandonReap
<1>10. CASE AbandonEnds
  BY <1>10 DEF AbandonEnds
<1>11. CASE RequestGracefulStop
  BY <1>11 DEF RequestGracefulStop
<1>12. CASE GracefulStopSent
  BY <1>12 DEF GracefulStopSent
<1>13. CASE AwaitLeader
  BY <1>13 DEF AwaitLeader
<1>14. CASE AwaitGroup
  BY <1>14 DEF AwaitGroup
<1>15. CASE ForceAfterGrace
  BY <1>15 DEF ForceAfterGrace
<1>16. CASE ReapAfterForce
  BY <1>16 DEF ReapAfterForce
<1>17. CASE FaultForce
  BY <1>17 DEF FaultForce
<1>18. CASE FaultReap
  BY <1>18 DEF FaultReap
<1>19. CASE QueryMembers
  BY <1>19 DEF QueryMembers
<1>20. CASE ForceSurvivors
  BY <1>20 DEF ForceSurvivors
<1>21. CASE PollSurvivors
  BY <1>21 DEF PollSurvivors
<1>22. CASE Drain
  BY <1>22 DEF Drain
<1>23. CASE Shutdown
  BY <1>23 DEF Shutdown
<1>24. CASE CleanupCompleted
  BY <1>24 DEF CleanupCompleted
<1>25. CASE Finish
  BY <1>25 DEF Finish
<1>26. CASE LoopExit
  BY <1>26 DEF LoopExit
<1>27. CASE LoopWaitFails
  BY <1>27 DEF LoopWaitFails
<1>28. CASE LoopMonitorGone
  BY <1>28 DEF LoopMonitorGone
<1>29. CASE LoopOutput
  BY <1>29 DEF LoopOutput
<1>30. CASE LoopOutputEnds
  BY <1>30 DEF LoopOutputEnds
<1>31. CASE LoopHeartbeat
  BY <1>31 DEF LoopHeartbeat
<1>32. CASE LoopCancel
  BY <1>32 DEF LoopCancel
<1> QED
  BY <1>1, <1>2, <1>3, <1>4, <1>5, <1>6, <1>7, <1>8, <1>9, <1>10, <1>11, <1>12,
     <1>13, <1>14, <1>15, <1>16, <1>17, <1>18, <1>19, <1>20, <1>21, <1>22, <1>23,
     <1>24, <1>25, <1>26, <1>27, <1>28, <1>29, <1>30, <1>31, <1>32 DEF Bounded, Loop

\* The type of what the sink has accepted.
LEMMA ObsTypesStep ==
    ASSUME ObsTypes, Bounded \/ Loop
    PROVE  ObsTypes'
<1> USE DEF ObsTypes, Observation, emit, emit_quiet
<1>1. CASE Attest
  BY <1>1 DEF Attest
<1>2. CASE Check
  BY <1>2 DEF Check
<1>3. CASE CancelledBeforeRunning
  BY <1>3 DEF CancelledBeforeRunning
<1>4. CASE RequestSpawn
  BY <1>4 DEF RequestSpawn
<1>5. CASE SpawnEnds
  BY <1>5 DEF SpawnEnds
<1>6. CASE CheckEvidence
  BY <1>6 DEF CheckEvidence
<1>7. CASE Announce
  BY <1>7 DEF Announce
<1>8. CASE AbandonForce
  BY <1>8 DEF AbandonForce
<1>9. CASE AbandonReap
  BY <1>9 DEF AbandonReap
<1>10. CASE AbandonEnds
  BY <1>10 DEF AbandonEnds
<1>11. CASE RequestGracefulStop
  BY <1>11 DEF RequestGracefulStop
<1>12. CASE GracefulStopSent
  BY <1>12 DEF GracefulStopSent
<1>13. CASE AwaitLeader
  BY <1>13 DEF AwaitLeader
<1>14. CASE AwaitGroup
  BY <1>14 DEF AwaitGroup
<1>15. CASE ForceAfterGrace
  BY <1>15 DEF ForceAfterGrace
<1>16. CASE ReapAfterForce
  BY <1>16 DEF ReapAfterForce
<1>17. CASE FaultForce
  BY <1>17 DEF FaultForce
<1>18. CASE FaultReap
  BY <1>18 DEF FaultReap
<1>19. CASE QueryMembers
  BY <1>19 DEF QueryMembers
<1>20. CASE ForceSurvivors
  BY <1>20 DEF ForceSurvivors
<1>21. CASE PollSurvivors
  BY <1>21 DEF PollSurvivors
<1>22. CASE Drain
  BY <1>22 DEF Drain
<1>23. CASE Shutdown
  BY <1>23 DEF Shutdown
<1>24. CASE CleanupCompleted
  BY <1>24 DEF CleanupCompleted
<1>25. CASE Finish
  BY <1>25 DEF Finish
<1>26. CASE LoopExit
  BY <1>26 DEF LoopExit
<1>27. CASE LoopWaitFails
  BY <1>27 DEF LoopWaitFails
<1>28. CASE LoopMonitorGone
  BY <1>28 DEF LoopMonitorGone
<1>29. CASE LoopOutput
  BY <1>29 DEF LoopOutput
<1>30. CASE LoopOutputEnds
  BY <1>30 DEF LoopOutputEnds
<1>31. CASE LoopHeartbeat
  BY <1>31 DEF LoopHeartbeat
<1>32. CASE LoopCancel
  BY <1>32 DEF LoopCancel
<1> QED
  BY <1>1, <1>2, <1>3, <1>4, <1>5, <1>6, <1>7, <1>8, <1>9, <1>10, <1>11, <1>12,
     <1>13, <1>14, <1>15, <1>16, <1>17, <1>18, <1>19, <1>20, <1>21, <1>22, <1>23,
     <1>24, <1>25, <1>26, <1>27, <1>28, <1>29, <1>30, <1>31, <1>32 DEF Bounded, Loop

\* A termination is well typed.
LEMMA TerminatesType ==
    ASSUME NEW k \in TermKind, NEW b \in BOOLEAN, NEW n, Terminates(k, b, n)
    PROVE  TermTypes'
BY DEF Terminates, TermTypes

\* The type of the termination.
LEMMA TermTypesStep ==
    ASSUME FlagTypes, TermTypes, Bounded \/ Loop
    PROVE  TermTypes'
<1> USE DEF TermTypes, TermKind, FlagTypes
<1>1. CASE Attest
  BY <1>1, TerminatesType DEF Attest
<1>2. CASE Check
  BY <1>2, TerminatesType DEF Check
<1>3. CASE CancelledBeforeRunning
  BY <1>3, TerminatesType DEF CancelledBeforeRunning
<1>4. CASE RequestSpawn
  BY <1>4, TerminatesType DEF RequestSpawn
<1>5. CASE SpawnEnds
  BY <1>5, TerminatesType DEF SpawnEnds
<1>6. CASE CheckEvidence
  BY <1>6, TerminatesType DEF CheckEvidence
<1>7. CASE Announce
  BY <1>7, TerminatesType DEF Announce
<1>8. CASE AbandonForce
  BY <1>8, TerminatesType DEF AbandonForce
<1>9. CASE AbandonReap
  BY <1>9, TerminatesType DEF AbandonReap
<1>10. CASE AbandonEnds
  BY <1>10, TerminatesType DEF AbandonEnds
<1>11. CASE RequestGracefulStop
  BY <1>11, TerminatesType DEF RequestGracefulStop
<1>12. CASE GracefulStopSent
  BY <1>12, TerminatesType DEF GracefulStopSent
<1>13. CASE AwaitLeader
  BY <1>13, TerminatesType DEF AwaitLeader
<1>14. CASE AwaitGroup
  BY <1>14, TerminatesType DEF AwaitGroup
<1>15. CASE ForceAfterGrace
  BY <1>15, TerminatesType DEF ForceAfterGrace
<1>16. CASE ReapAfterForce
  BY <1>16, TerminatesType DEF ReapAfterForce
<1>17. CASE FaultForce
  BY <1>17, TerminatesType DEF FaultForce
<1>18. CASE FaultReap
  BY <1>18, TerminatesType DEF FaultReap
<1>19. CASE QueryMembers
  BY <1>19, TerminatesType DEF QueryMembers
<1>20. CASE ForceSurvivors
  BY <1>20, TerminatesType DEF ForceSurvivors
<1>21. CASE PollSurvivors
  BY <1>21, TerminatesType DEF PollSurvivors
<1>22. CASE Drain
  BY <1>22, TerminatesType DEF Drain
<1>23. CASE Shutdown
  BY <1>23, TerminatesType DEF Shutdown
<1>24. CASE CleanupCompleted
  BY <1>24, TerminatesType DEF CleanupCompleted
<1>25. CASE Finish
  BY <1>25, TerminatesType DEF Finish
<1>26. CASE LoopExit
  BY <1>26, TerminatesType DEF LoopExit
<1>27. CASE LoopWaitFails
  BY <1>27, TerminatesType DEF LoopWaitFails
<1>28. CASE LoopMonitorGone
  BY <1>28, TerminatesType DEF LoopMonitorGone
<1>29. CASE LoopOutput
  BY <1>29, TerminatesType DEF LoopOutput
<1>30. CASE LoopOutputEnds
  BY <1>30, TerminatesType DEF LoopOutputEnds
<1>31. CASE LoopHeartbeat
  BY <1>31, TerminatesType DEF LoopHeartbeat
<1>32. CASE LoopCancel
  BY <1>32, TerminatesType DEF LoopCancel
<1> QED
  BY <1>1, <1>2, <1>3, <1>4, <1>5, <1>6, <1>7, <1>8, <1>9, <1>10, <1>11, <1>12,
     <1>13, <1>14, <1>15, <1>16, <1>17, <1>18, <1>19, <1>20, <1>21, <1>22, <1>23,
     <1>24, <1>25, <1>26, <1>27, <1>28, <1>29, <1>30, <1>31, <1>32 DEF Bounded, Loop

\* A clean result is given only over a sink that has accepted everything.
LEMMA ReportedStep ==
    ASSUME RunTypes, StateInv, TermInv, ObsInv, Place, CleanResultReported, Bounded
           \/ Loop
    PROVE  CleanResultReported'
<1> USE DEF CleanResultReported, launchVars, Managed, StateInv, TermInv, ObsInv,
        Place, Owned, Cancelling, Faulted, Cleaning, Ending, Abandoning, is_failure,
        emit, Ends, Terminates, AfterCleanup, DrainEnds, finalize, effective, base,
        Clean
<1>1. CASE Attest
  BY <1>1 DEF Attest
<1>2. CASE Check
  BY <1>2 DEF Check
<1>3. CASE CancelledBeforeRunning
  BY <1>3 DEF CancelledBeforeRunning
<1>4. CASE RequestSpawn
  BY <1>4 DEF RequestSpawn
<1>5. CASE SpawnEnds
  BY <1>5 DEF SpawnEnds
<1>6. CASE CheckEvidence
  BY <1>6 DEF CheckEvidence
<1>7. CASE Announce
  BY <1>7 DEF Announce
<1>8. CASE AbandonForce
  BY <1>8 DEF AbandonForce
<1>9. CASE AbandonReap
  BY <1>9 DEF AbandonReap
<1>10. CASE AbandonEnds
  BY <1>10 DEF AbandonEnds
<1>11. CASE RequestGracefulStop
  BY <1>11 DEF RequestGracefulStop
<1>12. CASE GracefulStopSent
  BY <1>12 DEF GracefulStopSent
<1>13. CASE AwaitLeader
  BY <1>13 DEF AwaitLeader
<1>14. CASE AwaitGroup
  BY <1>14 DEF AwaitGroup
<1>15. CASE ForceAfterGrace
  BY <1>15 DEF ForceAfterGrace
<1>16. CASE ReapAfterForce
  BY <1>16 DEF ReapAfterForce
<1>17. CASE FaultForce
  BY <1>17 DEF FaultForce
<1>18. CASE FaultReap
  BY <1>18 DEF FaultReap
<1>19. CASE QueryMembers
  BY <1>19 DEF QueryMembers
<1>20. CASE ForceSurvivors
  BY <1>20 DEF ForceSurvivors
<1>21. CASE PollSurvivors
  BY <1>21 DEF PollSurvivors
<1>22. CASE Drain
  BY <1>22 DEF Drain
<1>23. CASE Shutdown
  BY <1>23 DEF Shutdown
<1>24. CASE CleanupCompleted
  BY <1>24 DEF CleanupCompleted
<1>25. CASE Finish
  BY <1>25 DEF Finish
<1>26. CASE LoopExit
  BY <1>26 DEF LoopExit
<1>27. CASE LoopWaitFails
  BY <1>27 DEF LoopWaitFails
<1>28. CASE LoopMonitorGone
  BY <1>28 DEF LoopMonitorGone
<1>29. CASE LoopOutput
  BY <1>29 DEF LoopOutput
<1>30. CASE LoopOutputEnds
  BY <1>30 DEF LoopOutputEnds
<1>31. CASE LoopHeartbeat
  BY <1>31 DEF LoopHeartbeat
<1>32. CASE LoopCancel
  BY <1>32 DEF LoopCancel
<1> QED
  BY <1>1, <1>2, <1>3, <1>4, <1>5, <1>6, <1>7, <1>8, <1>9, <1>10, <1>11, <1>12,
     <1>13, <1>14, <1>15, <1>16, <1>17, <1>18, <1>19, <1>20, <1>21, <1>22, <1>23,
     <1>24, <1>25, <1>26, <1>27, <1>28, <1>29, <1>30, <1>31, <1>32 DEF Bounded, Loop

\* Cleanup goes on only over an empty group, a fault, or a fork behind the scan.
LEMMA GroupInvStep ==
    ASSUME GroupInv, LaunchInv, Bounded \/ Loop
    PROVE  GroupInv'
<1> USE DEF GroupInv, LaunchInv, groupVars, Owned, Cancelling, Faulted, Cleaning,
        Ending, Abandoning, Ends, Terminates, AfterCleanup, DrainEnds, Fault,
        MayReportNone, ScanDone, Members
<1>1. CASE Attest
  BY <1>1 DEF Attest
<1>2. CASE Check
  BY <1>2 DEF Check
<1>3. CASE CancelledBeforeRunning
  BY <1>3 DEF CancelledBeforeRunning
<1>4. CASE RequestSpawn
  BY <1>4 DEF RequestSpawn
<1>5. CASE SpawnEnds
  BY <1>5 DEF SpawnEnds
<1>6. CASE CheckEvidence
  BY <1>6 DEF CheckEvidence
<1>7. CASE Announce
  BY <1>7 DEF Announce
<1>8. CASE AbandonForce
  BY <1>8 DEF AbandonForce
<1>9. CASE AbandonReap
  BY <1>9 DEF AbandonReap
<1>10. CASE AbandonEnds
  BY <1>10 DEF AbandonEnds
<1>11. CASE RequestGracefulStop
  BY <1>11 DEF RequestGracefulStop
<1>12. CASE GracefulStopSent
  BY <1>12 DEF GracefulStopSent
<1>13. CASE AwaitLeader
  BY <1>13 DEF AwaitLeader
<1>14. CASE AwaitGroup
  BY <1>14 DEF AwaitGroup
<1>15. CASE ForceAfterGrace
  BY <1>15 DEF ForceAfterGrace
<1>16. CASE ReapAfterForce
  BY <1>16 DEF ReapAfterForce
<1>17. CASE FaultForce
  BY <1>17 DEF FaultForce
<1>18. CASE FaultReap
  BY <1>18 DEF FaultReap
<1>19. CASE QueryMembers
  BY <1>19 DEF QueryMembers
<1>20. CASE ForceSurvivors
  BY <1>20 DEF ForceSurvivors
<1>21. CASE PollSurvivors
  BY <1>21 DEF PollSurvivors
<1>22. CASE Drain
  BY <1>22 DEF Drain
<1>23. CASE Shutdown
  BY <1>23 DEF Shutdown
<1>24. CASE CleanupCompleted
  BY <1>24 DEF CleanupCompleted
<1>25. CASE Finish
  BY <1>25 DEF Finish
<1>26. CASE LoopExit
  BY <1>26 DEF LoopExit
<1>27. CASE LoopWaitFails
  BY <1>27 DEF LoopWaitFails
<1>28. CASE LoopMonitorGone
  BY <1>28 DEF LoopMonitorGone
<1>29. CASE LoopOutput
  BY <1>29 DEF LoopOutput
<1>30. CASE LoopOutputEnds
  BY <1>30 DEF LoopOutputEnds
<1>31. CASE LoopHeartbeat
  BY <1>31 DEF LoopHeartbeat
<1>32. CASE LoopCancel
  BY <1>32 DEF LoopCancel
<1> QED
  BY <1>1, <1>2, <1>3, <1>4, <1>5, <1>6, <1>7, <1>8, <1>9, <1>10, <1>11, <1>12,
     <1>13, <1>14, <1>15, <1>16, <1>17, <1>18, <1>19, <1>20, <1>21, <1>22, <1>23,
     <1>24, <1>25, <1>26, <1>27, <1>28, <1>29, <1>30, <1>31, <1>32 DEF Bounded, Loop

\* The drain passes over nothing that a clean result would miss.
LEMMA OutputInvStep ==
    ASSUME OutputInv, Bounded \/ Loop
    PROVE  OutputInv'
<1> USE DEF OutputInv, AllEnded, Owned, Cancelling, Faulted, Cleaning, Ending,
        Abandoning, Ends, Terminates, AfterCleanup, DrainEnds, Fault, emit, outVars,
        emit_quiet
<1>1. CASE Attest
  BY <1>1 DEF Attest
<1>2. CASE Check
  BY <1>2 DEF Check
<1>3. CASE CancelledBeforeRunning
  BY <1>3 DEF CancelledBeforeRunning
<1>4. CASE RequestSpawn
  BY <1>4 DEF RequestSpawn
<1>5. CASE SpawnEnds
  BY <1>5 DEF SpawnEnds
<1>6. CASE CheckEvidence
  BY <1>6 DEF CheckEvidence
<1>7. CASE Announce
  BY <1>7 DEF Announce
<1>8. CASE AbandonForce
  BY <1>8 DEF AbandonForce
<1>9. CASE AbandonReap
  BY <1>9 DEF AbandonReap
<1>10. CASE AbandonEnds
  BY <1>10 DEF AbandonEnds
<1>11. CASE RequestGracefulStop
  BY <1>11 DEF RequestGracefulStop
<1>12. CASE GracefulStopSent
  BY <1>12 DEF GracefulStopSent
<1>13. CASE AwaitLeader
  BY <1>13 DEF AwaitLeader
<1>14. CASE AwaitGroup
  BY <1>14 DEF AwaitGroup
<1>15. CASE ForceAfterGrace
  BY <1>15 DEF ForceAfterGrace
<1>16. CASE ReapAfterForce
  BY <1>16 DEF ReapAfterForce
<1>17. CASE FaultForce
  BY <1>17 DEF FaultForce
<1>18. CASE FaultReap
  BY <1>18 DEF FaultReap
<1>19. CASE QueryMembers
  BY <1>19 DEF QueryMembers
<1>20. CASE ForceSurvivors
  BY <1>20 DEF ForceSurvivors
<1>21. CASE PollSurvivors
  BY <1>21 DEF PollSurvivors
<1>22. CASE Drain
  BY <1>22 DEF Drain
<1>23. CASE Shutdown
  BY <1>23 DEF Shutdown
<1>24. CASE CleanupCompleted
  BY <1>24 DEF CleanupCompleted
<1>25. CASE Finish
  BY <1>25 DEF Finish
<1>26. CASE LoopExit
  BY <1>26 DEF LoopExit
<1>27. CASE LoopWaitFails
  BY <1>27 DEF LoopWaitFails
<1>28. CASE LoopMonitorGone
  BY <1>28 DEF LoopMonitorGone
<1>29. CASE LoopOutput
  BY <1>29 DEF LoopOutput
<1>30. CASE LoopOutputEnds
  BY <1>30 DEF LoopOutputEnds
<1>31. CASE LoopHeartbeat
  BY <1>31 DEF LoopHeartbeat
<1>32. CASE LoopCancel
  BY <1>32 DEF LoopCancel
<1> QED
  BY <1>1, <1>2, <1>3, <1>4, <1>5, <1>6, <1>7, <1>8, <1>9, <1>10, <1>11, <1>12,
     <1>13, <1>14, <1>15, <1>16, <1>17, <1>18, <1>19, <1>20, <1>21, <1>22, <1>23,
     <1>24, <1>25, <1>26, <1>27, <1>28, <1>29, <1>30, <1>31, <1>32 DEF Bounded, Loop

\* What of the launch no step of the supervisor changes.
SameLaunch == UNCHANGED <<kind, lerr, report, go, armed, target, evidence>>

\* The exit that a caller may come to see.
LeaderExited == proc[Leader] \in {"zombie", "reaped"}

\* The group and the launch under a step of the supervisor: left alone ...
Kept ==
    /\ SameLaunch /\ UNCHANGED groupVars
    /\ lpc' = lpc \/ (lpc = "idle" /\ lpc' = "start")

\* ... or, of a launch that returned: signalled or reaped, ...
Touched ==
    /\ SameLaunch /\ lpc = "returned" /\ UNCHANGED <<lpc, scan, forked>>
    /\ proc' \in [Procs -> ProcState] /\ signalled' \subseteq Procs
    /\ Members' = Members /\ (LeaderExited' <=> LeaderExited)

\* ... or scanned.
Scanned ==
    /\ SameLaunch /\ lpc = "returned" /\ UNCHANGED <<lpc, proc, signalled>>
    /\ ListPids \/ ScanDone

\* force_stop signals processes of the group only.
LEMMA ForceStopType ==
    ASSUME GroupTypeOK, NEW ok \in BOOLEAN, force_stop(ok)
    PROVE  signalled' \subseteq Procs
BY DEF GroupTypeOK, force_stop, signal_group, Members

\* wait reaps a leader that has exited, and makes no member appear or go.
LEMMA WaitType ==
    ASSUME GroupTypeOK, NEW ok \in BOOLEAN, wait(ok)
    PROVE  /\ proc' \in [Procs -> ProcState] /\ signalled' \subseteq Procs
           /\ Members' = Members /\ (LeaderExited' <=> LeaderExited)
BY DEF GroupTypeOK, wait, signal_group, Members, LeaderExited, ProcState, Procs, Leader

\* Every step of the supervisor is one of these.
LEMMA GroupStep ==
    ASSUME GroupTypeOK, LaunchTypeOK, Place, Bounded \/ Loop
    PROVE  (Kept \/ Touched \/ Scanned) /\ late' \in BOOLEAN
<1>0. late \in BOOLEAN
  BY DEF LaunchTypeOK
<1>1. CASE UNCHANGED <<groupVars, launchVars>>
  BY <1>0, <1>1 DEF Kept, SameLaunch, launchVars
<1>2. ASSUME pc \in Owned, SameLaunch, UNCHANGED <<lpc, proc, scan, forked>>, late' \in BOOLEAN,
             NEW ok \in BOOLEAN, force_stop(ok)
      PROVE  (Kept \/ Touched \/ Scanned) /\ late' \in BOOLEAN
  BY <1>2, ForceStopType DEF Touched, GroupTypeOK, Members, LeaderExited, Place
<1>3. ASSUME pc \in Owned, SameLaunch, UNCHANGED <<lpc, scan, forked>>, late' \in BOOLEAN,
             NEW ok \in BOOLEAN, wait(ok)
      PROVE  (Kept \/ Touched \/ Scanned) /\ late' \in BOOLEAN
  BY <1>3, WaitType DEF Touched, Place
<1>4. ASSUME pc \in Owned, SameLaunch, UNCHANGED <<lpc, proc, signalled>>, late' \in BOOLEAN,
             ListPids \/ ScanDone
      PROVE  (Kept \/ Touched \/ Scanned) /\ late' \in BOOLEAN
  BY <1>4 DEF Scanned, Place
<1>5. CASE RequestSpawn
  BY <1>0, <1>5 DEF RequestSpawn, Kept, SameLaunch, Place
<1>6. CASE RequestGracefulStop
  BY <1>6 DEF RequestGracefulStop, Kept, SameLaunch
<1>7. CASE AbandonForce \/ ForceAfterGrace \/ FaultForce \/ ForceSurvivors
  BY <1>0, <1>2, <1>7
     DEF AbandonForce, ForceAfterGrace, FaultForce, ForceSurvivors, AfterCleanup, launchVars,
         SameLaunch, Owned, Abandoning, Cancelling, Faulted, Cleaning
<1>8. CASE AbandonReap \/ AwaitLeader \/ ReapAfterForce \/ FaultReap \/ LoopExit
  BY <1>0, <1>3, <1>8
     DEF AbandonReap, AwaitLeader, ReapAfterForce, FaultReap, LoopExit, launchVars,
         SameLaunch, Owned, Abandoning, Cancelling, Faulted
<1>9. CASE LoopMonitorGone
  <2>1. /\ proc' \in [Procs -> ProcState] /\ signalled' \subseteq Procs
        /\ Members' = Members /\ (LeaderExited' <=> LeaderExited)
    BY <1>9 DEF LoopMonitorGone, GroupTypeOK, signal_group, Members, LeaderExited,
       ProcState, Procs, Leader
  <2> QED BY <1>0, <1>9, <2>1 DEF LoopMonitorGone, Touched, SameLaunch, launchVars, Place, Owned
<1>10. CASE AwaitGroup \/ QueryMembers \/ PollSurvivors
  BY <1>0, <1>4, <1>10
     DEF AwaitGroup, QueryMembers, PollSurvivors, AfterCleanup, ListPids, ScanDone, launchVars,
         SameLaunch, Owned, Cancelling, Cleaning
<1>11. CASE \/ Attest \/ Check \/ CancelledBeforeRunning \/ SpawnEnds \/ CheckEvidence
            \/ Announce \/ AbandonEnds \/ GracefulStopSent \/ Drain \/ Shutdown
            \/ CleanupCompleted \/ Finish \/ LoopWaitFails \/ LoopOutput \/ LoopOutputEnds
            \/ LoopHeartbeat \/ LoopCancel
  BY <1>1, <1>11
     DEF Attest, Check, CancelledBeforeRunning, SpawnEnds, CheckEvidence, Announce,
         AbandonEnds, GracefulStopSent, Drain, Shutdown, CleanupCompleted, Finish,
         LoopWaitFails, LoopOutput, LoopOutputEnds, LoopHeartbeat, LoopCancel
<1> QED
  BY <1>5, <1>6, <1>7, <1>8, <1>9, <1>10, <1>11 DEF Bounded, Loop

\* A result is given over a group that cleanup has seen empty, or whose launch owned none.
LEMMA GroupGoneStep ==
    ASSUME PcTypes, Place, LaunchInv, GroupInv, GroupGone, Bounded \/ Loop
    PROVE  GroupGone'
<1> USE DEF GroupGone, GroupInv, LaunchInv, AbandonedLaunchIsDead, NotBegun, Place,
        Members, groupVars, launchVars, Owned, Cancelling, Faulted, Cleaning,
        Ending, Abandoning, Ends, Terminates, AfterCleanup, DrainEnds, finalize
<1>1. CASE Attest
  BY <1>1 DEF Attest
<1>2. CASE Check
  BY <1>2 DEF Check
<1>3. CASE CancelledBeforeRunning
  BY <1>3 DEF CancelledBeforeRunning
<1>4. CASE RequestSpawn
  BY <1>4 DEF RequestSpawn
<1>5. CASE SpawnEnds
  BY <1>5 DEF SpawnEnds
<1>6. CASE CheckEvidence
  BY <1>6 DEF CheckEvidence
<1>7. CASE Announce
  BY <1>7 DEF Announce
<1>8. CASE AbandonForce
  BY <1>8 DEF AbandonForce
<1>9. CASE AbandonReap
  BY <1>9 DEF AbandonReap
<1>10. CASE AbandonEnds
  BY <1>10 DEF AbandonEnds
<1>11. CASE RequestGracefulStop
  BY <1>11 DEF RequestGracefulStop
<1>12. CASE GracefulStopSent
  BY <1>12 DEF GracefulStopSent
<1>13. CASE AwaitLeader
  BY <1>13 DEF AwaitLeader
<1>14. CASE AwaitGroup
  BY <1>14 DEF AwaitGroup
<1>15. CASE ForceAfterGrace
  BY <1>15 DEF ForceAfterGrace
<1>16. CASE ReapAfterForce
  BY <1>16 DEF ReapAfterForce
<1>17. CASE FaultForce
  BY <1>17 DEF FaultForce
<1>18. CASE FaultReap
  BY <1>18 DEF FaultReap
<1>19. CASE QueryMembers
  BY <1>19 DEF QueryMembers
<1>20. CASE ForceSurvivors
  BY <1>20 DEF ForceSurvivors
<1>21. CASE PollSurvivors
  BY <1>21 DEF PollSurvivors
<1>22. CASE Drain
  BY <1>22 DEF Drain
<1>23. CASE Shutdown
  BY <1>23 DEF Shutdown
<1>24. CASE CleanupCompleted
  BY <1>24 DEF CleanupCompleted
<1>25. CASE Finish
  BY <1>25 DEF Finish
<1>26. CASE LoopExit
  BY <1>26 DEF LoopExit
<1>27. CASE LoopWaitFails
  BY <1>27 DEF LoopWaitFails
<1>28. CASE LoopMonitorGone
  BY <1>28 DEF LoopMonitorGone
<1>29. CASE LoopOutput
  BY <1>29 DEF LoopOutput
<1>30. CASE LoopOutputEnds
  BY <1>30 DEF LoopOutputEnds
<1>31. CASE LoopHeartbeat
  BY <1>31 DEF LoopHeartbeat
<1>32. CASE LoopCancel
  BY <1>32 DEF LoopCancel
<1> QED
  BY <1>1, <1>2, <1>3, <1>4, <1>5, <1>6, <1>7, <1>8, <1>9, <1>10, <1>11, <1>12,
     <1>13, <1>14, <1>15, <1>16, <1>17, <1>18, <1>19, <1>20, <1>21, <1>22, <1>23,
     <1>24, <1>25, <1>26, <1>27, <1>28, <1>29, <1>30, <1>31, <1>32 DEF Bounded, Loop

\* A clean result is given over an empty channel and pipes read to their end.
LEMMA OutputCompleteStep ==
    ASSUME PcTypes, Place, OutputInv, OutputComplete, Bounded \/ Loop
    PROVE  OutputComplete'
<1> USE DEF OutputComplete, OutputInv, AllEnded, is_failure, Place, outVars,
        launchVars, Owned, Cancelling, Faulted, Cleaning, Ending, Abandoning, Ends,
        Terminates, AfterCleanup, DrainEnds, finalize, effective
<1>1. CASE Attest
  BY <1>1 DEF Attest
<1>2. CASE Check
  BY <1>2 DEF Check
<1>3. CASE CancelledBeforeRunning
  BY <1>3 DEF CancelledBeforeRunning
<1>4. CASE RequestSpawn
  BY <1>4 DEF RequestSpawn
<1>5. CASE SpawnEnds
  BY <1>5 DEF SpawnEnds
<1>6. CASE CheckEvidence
  BY <1>6 DEF CheckEvidence
<1>7. CASE Announce
  BY <1>7 DEF Announce
<1>8. CASE AbandonForce
  BY <1>8 DEF AbandonForce
<1>9. CASE AbandonReap
  BY <1>9 DEF AbandonReap
<1>10. CASE AbandonEnds
  BY <1>10 DEF AbandonEnds
<1>11. CASE RequestGracefulStop
  BY <1>11 DEF RequestGracefulStop
<1>12. CASE GracefulStopSent
  BY <1>12 DEF GracefulStopSent
<1>13. CASE AwaitLeader
  BY <1>13 DEF AwaitLeader
<1>14. CASE AwaitGroup
  BY <1>14 DEF AwaitGroup
<1>15. CASE ForceAfterGrace
  BY <1>15 DEF ForceAfterGrace
<1>16. CASE ReapAfterForce
  BY <1>16 DEF ReapAfterForce
<1>17. CASE FaultForce
  BY <1>17 DEF FaultForce
<1>18. CASE FaultReap
  BY <1>18 DEF FaultReap
<1>19. CASE QueryMembers
  BY <1>19 DEF QueryMembers
<1>20. CASE ForceSurvivors
  BY <1>20 DEF ForceSurvivors
<1>21. CASE PollSurvivors
  BY <1>21 DEF PollSurvivors
<1>22. CASE Drain
  BY <1>22 DEF Drain
<1>23. CASE Shutdown
  BY <1>23 DEF Shutdown
<1>24. CASE CleanupCompleted
  BY <1>24 DEF CleanupCompleted
<1>25. CASE Finish
  BY <1>25 DEF Finish
<1>26. CASE LoopExit
  BY <1>26 DEF LoopExit
<1>27. CASE LoopWaitFails
  BY <1>27 DEF LoopWaitFails
<1>28. CASE LoopMonitorGone
  BY <1>28 DEF LoopMonitorGone
<1>29. CASE LoopOutput
  BY <1>29 DEF LoopOutput
<1>30. CASE LoopOutputEnds
  BY <1>30 DEF LoopOutputEnds
<1>31. CASE LoopHeartbeat
  BY <1>31 DEF LoopHeartbeat
<1>32. CASE LoopCancel
  BY <1>32 DEF LoopCancel
<1> QED
  BY <1>1, <1>2, <1>3, <1>4, <1>5, <1>6, <1>7, <1>8, <1>9, <1>10, <1>11, <1>12,
     <1>13, <1>14, <1>15, <1>16, <1>17, <1>18, <1>19, <1>20, <1>21, <1>22, <1>23,
     <1>24, <1>25, <1>26, <1>27, <1>28, <1>29, <1>30, <1>31, <1>32 DEF Bounded, Loop

\* What a caller sees of a step of the supervisor.
LEMMA CallerStep ==
    ASSUME PcTypes, FlagTypes, TermInv, Place, Bounded \/ Loop
    PROVE  /\ pc # "done" /\ cancel' = cancel /\ alive' \in {alive, FALSE}
           /\ \/ pc' # "done" /\ result' = result
              \/ /\ pc' = "done" /\ result' \in Result \ {"none"}
                 /\ ~is_failure(result') => alive'
                 /\ result' \in {"CancelledGracefully", "CancelledForcefully"} => cancel
                 /\ result' \in {"Exited", "CancelledForcefully", "OutputFailure"} =>
                       lpc = "returned"
<1> USE DEF FlagTypes, TermInv, Result, is_failure, Place, Owned, Cancelling,
        Faulted, Cleaning, Ending, Abandoning, emit, emit_quiet, Ends, Terminates,
        AfterCleanup, DrainEnds, finalize, effective, base, runVars
<1>1. CASE Attest
  BY <1>1 DEF Attest
<1>2. CASE Check
  BY <1>2 DEF Check
<1>3. CASE CancelledBeforeRunning
  BY <1>3 DEF CancelledBeforeRunning
<1>4. CASE RequestSpawn
  BY <1>4 DEF RequestSpawn
<1>5. CASE SpawnEnds
  BY <1>5 DEF SpawnEnds
<1>6. CASE CheckEvidence
  BY <1>6 DEF CheckEvidence
<1>7. CASE Announce
  BY <1>7 DEF Announce
<1>8. CASE AbandonForce
  BY <1>8 DEF AbandonForce
<1>9. CASE AbandonReap
  BY <1>9 DEF AbandonReap
<1>10. CASE AbandonEnds
  BY <1>10 DEF AbandonEnds
<1>11. CASE RequestGracefulStop
  BY <1>11 DEF RequestGracefulStop
<1>12. CASE GracefulStopSent
  BY <1>12 DEF GracefulStopSent
<1>13. CASE AwaitLeader
  BY <1>13 DEF AwaitLeader
<1>14. CASE AwaitGroup
  BY <1>14 DEF AwaitGroup
<1>15. CASE ForceAfterGrace
  BY <1>15 DEF ForceAfterGrace
<1>16. CASE ReapAfterForce
  BY <1>16 DEF ReapAfterForce
<1>17. CASE FaultForce
  BY <1>17 DEF FaultForce
<1>18. CASE FaultReap
  BY <1>18 DEF FaultReap
<1>19. CASE QueryMembers
  BY <1>19 DEF QueryMembers
<1>20. CASE ForceSurvivors
  BY <1>20 DEF ForceSurvivors
<1>21. CASE PollSurvivors
  BY <1>21 DEF PollSurvivors
<1>22. CASE Drain
  BY <1>22 DEF Drain
<1>23. CASE Shutdown
  BY <1>23 DEF Shutdown
<1>24. CASE CleanupCompleted
  BY <1>24 DEF CleanupCompleted
<1>25. CASE Finish
  BY <1>25 DEF Finish
<1>26. CASE LoopExit
  BY <1>26 DEF LoopExit
<1>27. CASE LoopWaitFails
  BY <1>27 DEF LoopWaitFails
<1>28. CASE LoopMonitorGone
  BY <1>28 DEF LoopMonitorGone
<1>29. CASE LoopOutput
  BY <1>29 DEF LoopOutput
<1>30. CASE LoopOutputEnds
  BY <1>30 DEF LoopOutputEnds
<1>31. CASE LoopHeartbeat
  BY <1>31 DEF LoopHeartbeat
<1>32. CASE LoopCancel
  BY <1>32 DEF LoopCancel
<1> QED
  BY <1>1, <1>2, <1>3, <1>4, <1>5, <1>6, <1>7, <1>8, <1>9, <1>10, <1>11, <1>12,
     <1>13, <1>14, <1>15, <1>16, <1>17, <1>18, <1>19, <1>20, <1>21, <1>22, <1>23,
     <1>24, <1>25, <1>26, <1>27, <1>28, <1>29, <1>30, <1>31, <1>32 DEF Bounded, Loop

\* The types of the channel and the readers.
LEMMA OutTypesStep ==
    ASSUME OutTypes, Bounded \/ Loop
    PROVE  OutTypes'
<1> USE DEF OutTypes, outVars, DrainEnds
<1>0. chan # <<>> => Tail(chan) \in Seq({"chunk", "err"}) /\ Len(Tail(chan)) =< Capacity
  <2> SUFFICES ASSUME chan # <<>>
               PROVE  Tail(chan) \in Seq({"chunk", "err"}) /\ Len(Tail(chan)) =< Capacity
    OBVIOUS
  <2>1. Tail(chan) \in Seq({"chunk", "err"}) /\ Len(Tail(chan)) = Len(chan) - 1
        /\ Len(chan) \in Nat
    OBVIOUS
  <2> QED BY <2>1, CapacityPositive
<1>1. CASE Attest
  BY <1>1, <1>0 DEF Attest
<1>2. CASE Check
  BY <1>2, <1>0 DEF Check
<1>3. CASE CancelledBeforeRunning
  BY <1>3, <1>0 DEF CancelledBeforeRunning
<1>4. CASE RequestSpawn
  BY <1>4, <1>0 DEF RequestSpawn
<1>5. CASE SpawnEnds
  BY <1>5, <1>0 DEF SpawnEnds
<1>6. CASE CheckEvidence
  BY <1>6, <1>0 DEF CheckEvidence
<1>7. CASE Announce
  BY <1>7, <1>0 DEF Announce
<1>8. CASE AbandonForce
  BY <1>8, <1>0 DEF AbandonForce
<1>9. CASE AbandonReap
  BY <1>9, <1>0 DEF AbandonReap
<1>10. CASE AbandonEnds
  BY <1>10, <1>0 DEF AbandonEnds
<1>11. CASE RequestGracefulStop
  BY <1>11, <1>0 DEF RequestGracefulStop
<1>12. CASE GracefulStopSent
  BY <1>12, <1>0 DEF GracefulStopSent
<1>13. CASE AwaitLeader
  BY <1>13, <1>0 DEF AwaitLeader
<1>14. CASE AwaitGroup
  BY <1>14, <1>0 DEF AwaitGroup
<1>15. CASE ForceAfterGrace
  BY <1>15, <1>0 DEF ForceAfterGrace
<1>16. CASE ReapAfterForce
  BY <1>16, <1>0 DEF ReapAfterForce
<1>17. CASE FaultForce
  BY <1>17, <1>0 DEF FaultForce
<1>18. CASE FaultReap
  BY <1>18, <1>0 DEF FaultReap
<1>19. CASE QueryMembers
  BY <1>19, <1>0 DEF QueryMembers
<1>20. CASE ForceSurvivors
  BY <1>20, <1>0 DEF ForceSurvivors
<1>21. CASE PollSurvivors
  BY <1>21, <1>0 DEF PollSurvivors
<1>22. CASE Drain
  BY <1>22, <1>0 DEF Drain
<1>23. CASE Shutdown
  BY <1>23, <1>0 DEF Shutdown
<1>24. CASE CleanupCompleted
  BY <1>24, <1>0 DEF CleanupCompleted
<1>25. CASE Finish
  BY <1>25, <1>0 DEF Finish
<1>26. CASE LoopExit
  BY <1>26, <1>0 DEF LoopExit
<1>27. CASE LoopWaitFails
  BY <1>27, <1>0 DEF LoopWaitFails
<1>28. CASE LoopMonitorGone
  BY <1>28, <1>0 DEF LoopMonitorGone
<1>29. CASE LoopOutput
  BY <1>29, <1>0 DEF LoopOutput
<1>30. CASE LoopOutputEnds
  BY <1>30, <1>0 DEF LoopOutputEnds
<1>31. CASE LoopHeartbeat
  BY <1>31, <1>0 DEF LoopHeartbeat
<1>32. CASE LoopCancel
  BY <1>32, <1>0 DEF LoopCancel
<1> QED
  BY <1>1, <1>2, <1>3, <1>4, <1>5, <1>6, <1>7, <1>8, <1>9, <1>10, <1>11, <1>12,
     <1>13, <1>14, <1>15, <1>16, <1>17, <1>18, <1>19, <1>20, <1>21, <1>22, <1>23,
     <1>24, <1>25, <1>26, <1>27, <1>28, <1>29, <1>30, <1>31, <1>32 DEF Bounded, Loop

-----------------------------------------------------------------------------
(* The processes, the launch and the others *)

\* What the processes of a group may do: none comes from nowhere, none that is
\* killed forks, none is missed by a scan without a fork.
Wild ==
    /\ proc' \in [Procs -> ProcState] /\ signalled' \subseteq Procs /\ forked' \in BOOLEAN
    /\ scan' = scan /\ (forked => forked') /\ (LeaderExited => LeaderExited')
    /\ \E p \in Procs : proc[p] # "unborn"
    /\ Members = {} => Members' = {}
    /\ Members \subseteq signalled => Members' \subseteq signalled'
    /\ scan # NoScan => Members' \subseteq Members \/ forked'

\* A fork, by a member that has no SIGKILL pending.
LEMMA ForkIsWild ==
    ASSUME GroupTypeOK, NEW k \in Kids, Fork(k)
    PROVE  Wild
<1>1. k \in Procs /\ k # Leader /\ Leader \in Procs
  BY MaxKidsNat DEF Procs, Kids, Leader
<1>2. proc' \in [Procs -> ProcState] /\ UNCHANGED <<signalled, scan>>
  BY <1>1 DEF Fork, GroupTypeOK, ProcState
<1>3. forked' \in BOOLEAN /\ (forked => forked') /\ (scan # NoScan => forked')
  BY DEF Fork, GroupTypeOK
<1>4. PICK p \in Members : p \notin signalled
  BY DEF Fork
<1>5. proc[p] = "live" /\ p \in Procs
  BY <1>4 DEF Members
<1>6. LeaderExited => LeaderExited'
  BY <1>1 DEF Fork, GroupTypeOK, LeaderExited
<1>7. ~(Members \subseteq signalled) /\ Members # {}
  BY <1>4
<1> QED
  BY <1>2, <1>3, <1>5, <1>6, <1>7 DEF Wild, GroupTypeOK

\* A fork, an escape or an exit of any process.
LEMMA ProcessesAreWild ==
    ASSUME GroupTypeOK, ProcessesRun
    PROVE  Wild
<1>1. ASSUME NEW k \in Kids, Escape(k) PROVE Wild
  <2>1. k \in Procs /\ k # Leader /\ Leader \in Procs
    BY MaxKidsNat DEF Procs, Kids, Leader
  <2>2. proc' = [proc EXCEPT ![k] = "outside"] /\ proc[k] = "live"
        /\ UNCHANGED <<signalled, scan, forked>>
    BY <1>1 DEF Escape
  <2>3. proc' \in [Procs -> ProcState]
    BY <2>1, <2>2 DEF GroupTypeOK, ProcState
  <2>4. Members' \subseteq Members
    BY <2>1, <2>2 DEF Members, GroupTypeOK
  <2>5. LeaderExited => LeaderExited'
    BY <2>1, <2>2 DEF LeaderExited, GroupTypeOK
  <2> QED BY <2>1, <2>2, <2>3, <2>4, <2>5 DEF Wild, GroupTypeOK
<1>2. ASSUME NEW p \in Procs, Exit(p) PROVE Wild
  <2> DEFINE z == IF p = Leader THEN "zombie" ELSE "gone"
  <2>1. Leader \in Procs /\ z \in ProcState /\ z # "live"
    BY DEF Procs, ProcState
  <2>2. proc' = [proc EXCEPT ![p] = z] /\ proc[p] # "unborn"
        /\ signalled' = signalled \ {p} /\ UNCHANGED <<scan, forked>>
    BY <1>2 DEF Exit
  <2>3. proc' \in [Procs -> ProcState]
    BY <2>1, <2>2 DEF GroupTypeOK
  <2>4. Members' \subseteq Members \ {p}
    BY <2>1, <2>2 DEF Members, GroupTypeOK
  <2>5. LeaderExited => LeaderExited'
    BY <2>1, <2>2 DEF LeaderExited, GroupTypeOK
  <2> QED BY <2>2, <2>3, <2>4, <2>5 DEF Wild, GroupTypeOK
<1> QED
  BY <1>1, <1>2, ForkIsWild DEF ProcessesRun

\* The launch after a step of the supervisor.
LEMMA SupervisorKeepsLaunch ==
    ASSUME GroupTypeOK, LaunchTypeOK, LaunchInv, Place, Bounded \/ Loop
    PROVE  GroupTypeOK' /\ LaunchTypeOK' /\ LaunchInv'
<1>1. late' \in BOOLEAN
  BY GroupStep
<1>2. CASE Kept
  <2>1. GroupTypeOK' /\ LaunchTypeOK'
    BY <1>1, <1>2 DEF Kept, SameLaunch, GroupTypeOK, LaunchTypeOK, groupVars
  <2>2. LaunchInv'
    BY <1>2 DEF Kept, SameLaunch, groupVars, LaunchInv, NotBegun, Members, TargetAuthorised,
       AbandonedLaunchIsDead
  <2> QED BY <2>1, <2>2
<1>3. CASE Touched
  <2>1. GroupTypeOK' /\ LaunchTypeOK'
    BY <1>1, <1>3 DEF Touched, SameLaunch, GroupTypeOK, LaunchTypeOK
  <2>2. LaunchInv'
    BY <1>3 DEF Touched, SameLaunch, LaunchInv, NotBegun, TargetAuthorised,
       AbandonedLaunchIsDead
  <2> QED BY <2>1, <2>2
<1>4. CASE Scanned
  <2>1. Members' = Members /\ Members \subseteq Procs
    BY <1>4 DEF Scanned, Members
  <2>2. scan' \in {NoScan} \cup SUBSET Procs /\ forked' \in BOOLEAN
    BY <1>4, <2>1 DEF Scanned, ListPids, ScanDone, GroupTypeOK
  <2>3. scan' # NoScan => Members' \subseteq scan'
    BY <1>4, <2>1 DEF Scanned, ListPids, ScanDone
  <2>4. GroupTypeOK' /\ LaunchTypeOK'
    BY <1>1, <1>4, <2>2 DEF Scanned, SameLaunch, GroupTypeOK, LaunchTypeOK
  <2>5. LaunchInv'
    BY <1>4, <2>1, <2>3 DEF Scanned, SameLaunch, LaunchInv, NotBegun, TargetAuthorised,
       AbandonedLaunchIsDead
  <2> QED BY <2>4, <2>5
<1> QED
  BY <1>2, <1>3, <1>4, GroupStep

\* The launch under what its processes do.
LEMMA WildKeepsLaunch ==
    ASSUME GroupTypeOK, LaunchTypeOK, LaunchInv, Wild,
           UNCHANGED <<kind, lpc, lerr, report, go, armed, late, evidence>>,
           \/ UNCHANGED target
           \/ go = "sent" /\ target' \in Kids
    PROVE  GroupTypeOK' /\ LaunchTypeOK' /\ LaunchInv'
<1>1. GroupTypeOK' /\ LaunchTypeOK'
  BY DEF Wild, GroupTypeOK, LaunchTypeOK
<1>2. lpc \notin NotBegun
  BY DEF Wild, LaunchInv
<1>3. /\ lpc = "handshake" => go = "no" /\ target' = NoTarget
      /\ TargetAuthorised'
  BY DEF LaunchInv, TargetAuthorised
<1>4. AbandonedLaunchIsDead'
  BY DEF Wild, LaunchInv, AbandonedLaunchIsDead
<1>5. scan' # NoScan => Members' \subseteq scan' \/ forked'
  BY DEF Wild, LaunchInv
<1>6. lpc \in {"reapLeader", "reapGroup"} => Members' \subseteq signalled'
  BY DEF Wild, LaunchInv
<1> QED
  BY <1>1, <1>2, <1>3, <1>4, <1>5, <1>6 DEF LaunchInv

\* The types of a launch.
LEMMA LaunchTypesStep ==
    ASSUME GroupTypeOK, LaunchTypeOK, LaunchStep \/ BackendReports \/ WriteGo \/
           DropSpawn
    PROVE  GroupTypeOK' /\ LaunchTypeOK'
<1> USE DEF GroupTypeOK, LaunchTypeOK, groupVars, launchVars, Kind, Report,
        Evidence, LaunchError, LaunchFails, KillAndReap, signal_group, Members,
        classify_target_stage_error, ListPids, ScanDone, ProcState, Procs
<1>1. CASE HostSpawn
  BY <1>1 DEF HostSpawn
<1>2. CASE PolicyRefuses
  BY <1>2 DEF PolicyRefuses
<1>3. CASE MintNonce
  BY <1>3 DEF MintNonce
<1>4. CASE StageRefused
  BY <1>4 DEF StageRefused
<1>5. CASE RequestRefused
  BY <1>5 DEF RequestRefused
<1>6. CASE BackendNotStarted
  BY <1>6 DEF BackendNotStarted
<1>7. CASE StartBackend
  <2>1. GroupTypeOK'
    BY <1>7 DEF StartBackend
  <2>2. LaunchTypeOK'
    BY <1>7, ZenonT(40) DEF StartBackend
  <2> QED BY <2>1, <2>2
<1>8. CASE ReadReport
  BY <1>8 DEF ReadReport
<1>9. CASE HandshakeFails
  BY <1>9 DEF HandshakeFails
<1>10. CASE GoFails
  BY <1>10 DEF GoFails
<1>11. CASE LaunchReturns
  BY <1>11 DEF LaunchReturns
<1>12. CASE ReapBackend
  <2>1. GroupTypeOK'
    BY <1>12 DEF ReapBackend
  <2> HIDE DEF GroupTypeOK, groupVars, launchVars, Kind, Report, Evidence,
           KillAndReap, signal_group, Members, ListPids, ScanDone, ProcState, Procs
  <2>2. UNCHANGED <<kind, report, go, armed, target, evidence>>
    BY <1>12 DEF ReapBackend
  <2>3. lpc' \in {"reapGroup", "failed"} /\ lerr' \in LaunchError
    BY <1>12 DEF ReapBackend
  <2>4. late' \in BOOLEAN
    BY <1>12, Zenon DEF ReapBackend
  <2>5. LaunchTypeOK'
    BY <2>2, <2>3, <2>4, Zenon
  <2> QED BY <2>1, <2>5
<1>13. CASE ReapGroup
  BY <1>13 DEF ReapGroup
<1>14. CASE BackendReports
  BY <1>14 DEF BackendReports
<1>15. CASE WriteGo
  BY <1>15 DEF WriteGo
<1>16. CASE DropSpawn
  <2>1. GroupTypeOK'
    BY <1>16 DEF DropSpawn
  <2>2. LaunchTypeOK'
    BY <1>16, ZenonT(40) DEF DropSpawn
  <2> QED BY <2>1, <2>2
<1> QED
  BY <1>1, <1>2, <1>3, <1>4, <1>5, <1>6, <1>7, <1>8, <1>9, <1>10, <1>11, <1>12,
     <1>13, <1>14, <1>15, <1>16 DEF LaunchStep

\* No step of a launch lets an unverified target run or leaves a process behind.
LEMMA LaunchInvStep ==
    ASSUME GroupTypeOK, LaunchTypeOK, LaunchInv, LaunchStep \/ BackendReports \/
           WriteGo \/ DropSpawn
    PROVE  LaunchInv'
<1> USE DEF GroupTypeOK, LaunchTypeOK, LaunchInv, NotBegun, TargetAuthorised,
        AbandonedLaunchIsDead, groupVars, launchVars, LaunchFails, KillAndReap,
        signal_group, Members, ListPids, ScanDone, Procs, MayReportNone
<1>1. CASE HostSpawn
  BY <1>1 DEF HostSpawn
<1>2. CASE PolicyRefuses
  BY <1>2 DEF PolicyRefuses
<1>3. CASE MintNonce
  BY <1>3 DEF MintNonce
<1>4. CASE StageRefused
  BY <1>4 DEF StageRefused
<1>5. CASE RequestRefused
  BY <1>5 DEF RequestRefused
<1>6. CASE BackendNotStarted
  BY <1>6 DEF BackendNotStarted
<1>7. CASE StartBackend
  BY <1>7 DEF StartBackend
<1>8. CASE ReadReport
  <2>1. CASE verify_report
    <3>1. report \in Report
      BY <1>8, <2>1 DEF ReadReport
    <3>2. report = {}
      BY <2>1, <3>1 DEF verify_report, is_fully_enforced, Report
    <3> QED BY <1>8, <2>1, <3>2 DEF ReadReport
  <2>2. CASE ~verify_report
    BY <1>8, <2>2 DEF ReadReport
  <2> QED BY <2>1, <2>2
<1>9. CASE HandshakeFails
  BY <1>9 DEF HandshakeFails
<1>10. CASE GoFails
  BY <1>10 DEF GoFails
<1>11. CASE LaunchReturns
  BY <1>11 DEF LaunchReturns
<1>12. CASE ReapBackend
  BY <1>12 DEF ReapBackend
<1>13. CASE ReapGroup
  BY <1>13 DEF ReapGroup
<1>14. CASE BackendReports
  BY <1>14 DEF BackendReports
<1>15. CASE WriteGo
  BY <1>15 DEF WriteGo
<1>16. CASE DropSpawn
  BY <1>16 DEF DropSpawn
<1> QED
  BY <1>1, <1>2, <1>3, <1>4, <1>5, <1>6, <1>7, <1>8, <1>9, <1>10, <1>11, <1>12,
     <1>13, <1>14, <1>15, <1>16 DEF LaunchStep

-----------------------------------------------------------------------------
(* Every step keeps the invariant *)

\* What only depends on the supervisor's own variables.
LEMMA RunFrame ==
    ASSUME RunTypes, StateInv, TermInv, ObsInv, UNCHANGED <<runVars, pc>>
    PROVE  RunTypes' /\ StateInv' /\ TermInv' /\ ObsInv'
BY DEF RunTypes, PcTypes, FlagTypes, ObsTypes, TermTypes, StateInv, TermInv, ObsInv,
   Managed, runVars

\* What only depends on the readers' channel and on how the run goes.
LEMMA OutFrame ==
    ASSUME OutTypes, OutputInv, UNCHANGED <<outVars, runVars, pc>>
    PROVE  OutTypes' /\ OutputInv'
BY DEF OutTypes, OutputInv, AllEnded, outVars, runVars

\* A launch takes its steps while the supervisor awaits it.
LEMMA LaunchNext ==
    ASSUME Inv, Launch
    PROVE  Inv'
<1>1. UNCHANGED <<outVars, runVars, pc>> /\ LaunchStep
  BY DEF Launch
<1>2. lpc \notin {"idle", "returned", "failed", "dropped"} /\ lpc' \notin {"idle", "dropped"}
  BY <1>1 DEF LaunchStep, HostSpawn, PolicyRefuses, MintNonce, StageRefused, RequestRefused,
     BackendNotStarted, StartBackend, ReadReport, HandshakeFails, GoFails, LaunchReturns,
     ReapBackend, ReapGroup, LaunchFails, KillAndReap, launchVars
<1>3. pc = "spawning"
  BY <1>2 DEF Inv, RunTypes, PcTypes, Place
<1>4. GroupTypeOK' /\ LaunchTypeOK' /\ LaunchInv'
  BY <1>1, LaunchTypesStep, LaunchInvStep DEF Inv
<1>5. RunTypes' /\ StateInv' /\ TermInv' /\ ObsInv' /\ OutTypes' /\ OutputInv'
  BY <1>1, RunFrame, OutFrame DEF Inv
<1>6. Place' /\ CleanResultReported' /\ GroupInv' /\ GroupGone' /\ OutputComplete'
  BY <1>1, <1>2, <1>3
     DEF Place, CleanResultReported, GroupInv, GroupGone, OutputComplete, Owned, Cancelling,
         Faulted, Cleaning, Ending, Abandoning
<1> QED
  BY <1>4, <1>5, <1>6 DEF Inv

\* A cancel drops the launch.
LEMMA DropNext ==
    ASSUME Inv, SpawnCancelled
    PROVE  Inv'
<1>1. /\ pc = "spawning" /\ cancel /\ DropSpawn /\ pc' = "cancelEarly"
      /\ UNCHANGED <<outVars, runVars>> /\ lpc' = "dropped"
  BY DEF SpawnCancelled, DropSpawn
<1>2. GroupTypeOK' /\ LaunchTypeOK' /\ LaunchInv'
  BY <1>1, LaunchTypesStep, LaunchInvStep DEF Inv
<1>3. RunTypes'
  BY <1>1 DEF Inv, RunTypes, PcTypes, FlagTypes, ObsTypes, TermTypes, runVars
<1>4. StateInv' /\ TermInv' /\ ObsInv'
  BY <1>1 DEF Inv, StateInv, TermInv, ObsInv, Managed, runVars, Cancelling, Faulted,
     Cleaning, Ending, Abandoning
<1>5. Place' /\ CleanResultReported' /\ GroupInv' /\ GroupGone' /\ OutputComplete'
  BY <1>1
     DEF Place, CleanResultReported, GroupInv, GroupGone, OutputComplete, Owned, Cancelling,
         Faulted, Cleaning, Ending, Abandoning
<1>6. OutTypes' /\ OutputInv'
  BY <1>1 DEF Inv, OutTypes, OutputInv, outVars
<1> QED
  BY <1>2, <1>3, <1>4, <1>5, <1>6 DEF Inv

\* What the processes do is never worse than the invariant allows for.
LEMMA WildNext ==
    ASSUME Inv, Wild, UNCHANGED <<kind, lpc, lerr, report, go, armed, late, evidence>>,
           \/ UNCHANGED target
           \/ go = "sent" /\ target' \in Kids,
           UNCHANGED <<outVars, runVars, pc>>
    PROVE  Inv'
<1>1. GroupTypeOK' /\ LaunchTypeOK' /\ LaunchInv'
  BY WildKeepsLaunch DEF Inv
<1>2. RunTypes' /\ StateInv' /\ TermInv' /\ ObsInv' /\ OutTypes' /\ OutputInv'
  BY RunFrame, OutFrame DEF Inv
<1>3. Place' /\ CleanResultReported' /\ OutputComplete'
  BY DEF Inv, Place, CleanResultReported, OutputComplete, AllEnded, runVars, outVars
<1>4. GroupInv' /\ GroupGone'
  BY DEF Inv, Wild, GroupInv, GroupGone, runVars
<1> QED
  BY <1>1, <1>2, <1>3, <1>4 DEF Inv

\* The backend reports, is told to go, and starts the target.
LEMMA BackendNext ==
    ASSUME Inv, Backend
    PROVE  Inv'
<1>1. UNCHANGED <<outVars, runVars, pc>> /\ BackendStep
  BY DEF Backend
<1>2. ASSUME NEW k \in Kids, BackendStartsTarget(k) PROVE Inv'
  BY <1>1, <1>2, ForkIsWild, WildNext DEF BackendStartsTarget, Inv
<1>3. CASE BackendReports \/ WriteGo
  <2>1. GroupTypeOK' /\ LaunchTypeOK' /\ LaunchInv'
    BY <1>3, LaunchTypesStep, LaunchInvStep DEF Inv
  <2>2. UNCHANGED <<lpc, lerr, groupVars>>
    BY <1>3 DEF BackendReports, WriteGo
  <2>3. RunTypes' /\ StateInv' /\ TermInv' /\ ObsInv' /\ OutTypes' /\ OutputInv'
    BY <1>1, RunFrame, OutFrame DEF Inv
  <2>4. Place' /\ CleanResultReported' /\ OutputComplete'
    BY <1>1, <2>2 DEF Inv, Place, CleanResultReported, OutputComplete, AllEnded, runVars,
       outVars
  <2>5. GroupInv' /\ GroupGone'
    BY <1>1, <2>2 DEF Inv, GroupInv, GroupGone, runVars, groupVars, Members
  <2> QED BY <2>1, <2>3, <2>4, <2>5 DEF Inv
<1> QED
  BY <1>1, <1>2, <1>3 DEF BackendStep

\* A reader reads on, or ends.
LEMMA OutputNext ==
    ASSUME Inv, Output
    PROVE  Inv'
<1>1. PICK s \in Streams : read_stream(s)
  BY DEF Output
<1>2. UNCHANGED <<groupVars, launchVars, open, drain, runVars, pc>>
  BY DEF Output
<1>3. chan \in Seq({"chunk", "err"}) /\ Len(chan) \in Nat /\ ~AllEnded
  BY <1>1 DEF Inv, OutTypes, read_stream, AllEnded
<1>4. OutTypes'
  <2>1. ASSUME NEW m \in {"chunk", "err"}, Len(chan) < Capacity, chan' = Append(chan, m)
        PROVE  chan' \in Seq({"chunk", "err"}) /\ Len(chan') =< Capacity
    BY <1>3, <2>1, CapacityPositive
  <2> QED BY <1>1, <1>2, <2>1 DEF Inv, OutTypes, read_stream
<1>5. OutputInv' /\ OutputComplete'
  BY <1>2, <1>3 DEF Inv, OutputInv, OutputComplete, runVars, launchVars
<1>6. RunTypes' /\ StateInv' /\ TermInv' /\ ObsInv'
  BY <1>2, RunFrame DEF Inv
<1>7. GroupTypeOK' /\ LaunchTypeOK' /\ LaunchInv'
  BY <1>2 DEF Inv, GroupTypeOK, LaunchTypeOK, LaunchInv, TargetAuthorised,
     AbandonedLaunchIsDead, Members, groupVars, launchVars
<1>8. Place' /\ CleanResultReported' /\ GroupInv' /\ GroupGone'
  BY <1>2 DEF Inv, Place, CleanResultReported, GroupInv, GroupGone, Members, groupVars,
     launchVars, runVars
<1> QED
  BY <1>4, <1>5, <1>6, <1>7, <1>8 DEF Inv

\* The caller cancels, time passes, or nothing happens.
LEMMA CallerNext ==
    ASSUME Inv, Cancel \/ TimePasses \/ UNCHANGED vars
    PROVE  Inv'
<1>1. /\ UNCHANGED <<groupVars, kind, lpc, lerr, report, go, armed, target, evidence, outVars, pc>>
      /\ UNCHANGED <<cfg, state, alive, obs, term, faults, waiting, exited, result, survivors>>
      /\ cancel' \in {cancel, TRUE} /\ late' \in {late, TRUE}
  BY DEF Cancel, TimePasses, vars, runVars, launchVars
<1>2. GroupTypeOK' /\ LaunchTypeOK' /\ LaunchInv'
  <2>1. GroupTypeOK'
    BY <1>1 DEF Inv, GroupTypeOK, groupVars
  <2>2. late \in BOOLEAN /\ late' \in BOOLEAN
    BY <1>1 DEF Inv, LaunchTypeOK
  <2>3. LaunchTypeOK'
    BY <1>1, <2>2 DEF Inv, LaunchTypeOK
  <2>4. LaunchInv'
    BY <1>1 DEF Inv, LaunchInv, TargetAuthorised, AbandonedLaunchIsDead, Members, groupVars
  <2> QED BY <2>1, <2>3, <2>4
<1>3. RunTypes' /\ OutTypes'
  <2>1. PcTypes' /\ ObsTypes' /\ TermTypes'
    BY <1>1 DEF Inv, RunTypes, PcTypes, ObsTypes, TermTypes
  <2>2. cancel \in BOOLEAN /\ cancel' \in BOOLEAN
    BY <1>1 DEF Inv, RunTypes, FlagTypes
  <2>3. FlagTypes'
    BY <1>1, <2>2 DEF Inv, RunTypes, FlagTypes
  <2>4. OutTypes'
    BY <1>1 DEF Inv, OutTypes, outVars
  <2> QED BY <2>1, <2>3, <2>4 DEF RunTypes
<1>4. StateInv' /\ ObsInv' /\ TermInv'
  <2>1. StateInv'
    BY <1>1 DEF Inv, StateInv, Managed
  <2>2. ObsInv'
    BY <1>1 DEF Inv, ObsInv, Managed
  <2>3. cancel => cancel'
    BY <1>1
  <2>4. TermInv'
    BY <1>1, <2>3 DEF Inv, TermInv, Managed
  <2> QED BY <2>1, <2>2, <2>4
<1>5. OutputInv' /\ OutputComplete'
  BY <1>1 DEF Inv, OutputInv, OutputComplete, AllEnded, outVars
<1>6. Place' /\ CleanResultReported' /\ GroupInv' /\ GroupGone'
  BY <1>1 DEF Inv, Place, CleanResultReported, GroupInv, GroupGone, Members, groupVars
<1> QED
  BY <1>2, <1>3, <1>4, <1>5, <1>6 DEF Inv

\* Every step of every actor.
LEMMA InvNext ==
    ASSUME Inv, [Next]_vars
    PROVE  Inv'
<1>1. CASE Bounded \/ Loop
  <2>1. GroupTypeOK' /\ LaunchTypeOK' /\ LaunchInv'
    BY <1>1, SupervisorKeepsLaunch DEF Inv
  <2>2. RunTypes' /\ OutTypes'
    BY <1>1, PcTypesStep, FlagTypesStep, ObsTypesStep, TermTypesStep, OutTypesStep
       DEF Inv, RunTypes
  <2>3. Place' /\ StateInv' /\ TermInv' /\ ObsInv' /\ CleanResultReported'
    BY <1>1, PlaceStep, StateStep, TermStep, ObsStep, ReportedStep DEF Inv
  <2>4. GroupInv' /\ GroupGone' /\ OutputInv' /\ OutputComplete'
    BY <1>1, GroupInvStep, GroupGoneStep, OutputInvStep, OutputCompleteStep
       DEF Inv, RunTypes
  <2> QED BY <2>1, <2>2, <2>3, <2>4 DEF Inv
<1>2. CASE Processes
  BY <1>2, ProcessesAreWild, WildNext DEF Processes, Inv, launchVars
<1> QED
  BY <1>1, <1>2, LaunchNext, DropNext, BackendNext, OutputNext, CallerNext DEF Next

\* A supervisor that has begun satisfies the invariant.
LEMMA InvInit ==
    ASSUME Init
    PROVE  Inv
<1> USE DEF Init, GroupInit, LaunchInit
<1>1. GroupTypeOK /\ LaunchTypeOK
  BY DEF GroupTypeOK, LaunchTypeOK, ProcState, Evidence, LaunchError, Report
<1>2. RunTypes
  BY DEF RunTypes, PcTypes, FlagTypes, ObsTypes, TermTypes, TermKind, Result
<1>3. OutTypes
  BY CapacityPositive DEF OutTypes
<1>4. Place /\ StateInv /\ TermInv /\ ObsInv
  BY DEF Place, StateInv, TermInv, ObsInv, Managed, Owned, Cancelling, Faulted, Cleaning,
     Ending, Abandoning, Clean
<1>5. LaunchInv
  BY DEF LaunchInv, TargetAuthorised, AbandonedLaunchIsDead
<1>6. CleanResultReported /\ GroupInv /\ GroupGone /\ OutputInv /\ OutputComplete
  BY DEF CleanResultReported, GroupInv, GroupGone, OutputInv, OutputComplete, Ending
<1> QED
  BY <1>1, <1>2, <1>3, <1>4, <1>5, <1>6 DEF Inv

-----------------------------------------------------------------------------
(* The theorems *)

\* The inductive invariant holds of every behaviour of the supervisor.
THEOREM Invariance == Spec => []Inv
<1>1. Init => Inv
  BY InvInit
<1>2. Inv /\ [Next]_vars => Inv'
  BY InvNext
<1> QED
  BY <1>1, <1>2, PTL DEF Spec

\* A terminal result other than CleanupFailure means the owned group is gone, for
\* any number of processes, whenever they fork, exit or leave.
THEOREM GroupsAreGone == Spec => []GroupGone
<1>1. Inv => GroupGone
  BY DEF Inv
<1> QED
  BY <1>1, Invariance, PTL

\* A clean result has published every chunk and read every pipe to its end,
\* whatever the number of pipes and the channel's capacity.
THEOREM OutputIsComplete == Spec => []OutputComplete
<1>1. Inv => OutputComplete
  BY DEF Inv
<1> QED
  BY <1>1, Invariance, PTL

\* A clean result was told in full to a sink that accepted everything.
THEOREM CleanResultsReported == Spec => []CleanResultReported
<1>1. Inv => CleanResultReported
  BY DEF Inv
<1> QED
  BY <1>1, Invariance, PTL

\* The target runs only on a verified report, and a launch that failed or was
\* dropped leaves nothing that is not dead or dying.
THEOREM LaunchesAreSafe == Spec => []LaunchIsSafe
<1>1. Inv => LaunchIsSafe
  <2> SUFFICES ASSUME Inv PROVE LaunchIsSafe
    OBVIOUS
  <2>1. WorkerTypeOK
    BY DEF Inv, WorkerTypeOK, RunTypes, PcTypes, FlagTypes, ObsTypes, TermTypes, OutTypes,
       Owned, Cancelling, Faulted, Cleaning, Ending, Abandoning
  <2> QED BY <2>1 DEF Inv, LaunchInv, LaunchIsSafe
<1> QED
  BY <1>1, Invariance, PTL

-----------------------------------------------------------------------------
(* The refinement *)

\* No step of a launch makes the leader's exit appear or disappear: it starts a
\* leader that was never born, or reaps one that has exited.
LEMMA LaunchKeepsExit ==
    ASSUME GroupTypeOK, LaunchInv, Launch
    PROVE  LeaderExited' <=> LeaderExited
<1> USE DEF LeaderExited, Launch, groupVars
<1>1. Leader \in Procs
  BY DEF Procs
<1>2. CASE HostSpawn
  BY <1>1, <1>2 DEF HostSpawn, GroupTypeOK, LaunchInv, NotBegun
<1>3. CASE StartBackend
  BY <1>1, <1>3 DEF StartBackend, GroupTypeOK, LaunchInv, NotBegun
<1>4. CASE ReapBackend
  BY <1>1, <1>4 DEF ReapBackend, GroupTypeOK
<1>5. CASE ReapGroup
  BY <1>5 DEF ReapGroup, ListPids
<1> QED
  BY <1>2, <1>3, <1>4, <1>5 DEF LaunchStep, PolicyRefuses, MintNonce, StageRefused,
     RequestRefused, BackendNotStarted, ReadReport, HandshakeFails, GoFails, LaunchReturns

\* Every step of the supervisor and its environment is one of the contract's, or
\* one that its caller does not see.
LEMMA ContractStep ==
    ASSUME Inv, [Next]_vars
    PROVE  [Contract!ContractNext]_(Contract!contractVars)
<1> USE DEF Contract!contractVars
<1>1. CASE Bounded \/ Loop
  <2>1. /\ pc # "done" /\ cancel' = cancel /\ alive' \in {alive, FALSE}
        /\ \/ pc' # "done" /\ result' = result
           \/ /\ pc' = "done" /\ result' \in Result \ {"none"}
              /\ ~is_failure(result') => alive'
              /\ result' \in {"CancelledGracefully", "CancelledForcefully"} => cancel
              /\ result' \in {"Exited", "CancelledForcefully", "OutputFailure"} =>
                    lpc = "returned"
    BY <1>1, CallerStep DEF Inv, RunTypes
  <2>2. kind' = kind /\ (LeaderExited' <=> LeaderExited)
        /\ (lpc' = "returned" <=> lpc = "returned")
    BY <1>1, GroupStep DEF Inv, Kept, Touched, Scanned, SameLaunch, groupVars, LeaderExited
  <2>3. CASE pc' # "done" /\ result' = result
    BY <2>1, <2>2, <2>3 DEF Contract!ContractNext, Contract!LosesSink, LeaderExited, Inv,
       RunTypes, FlagTypes
  <2>4. CASE pc' = "done"
    <3>1. result' \in Contract!Outcomes
      BY <2>1, <2>4 DEF Contract!Outcomes, Contract!CleanOutcomes, Result
    <3>2. Contract!Ends(result')
      BY <2>1, <2>2, <2>4 DEF Contract!Ends, Contract!CleanOutcomes, is_failure,
         LeaderExited
    <3> QED BY <3>1, <3>2 DEF Contract!ContractNext
  <2> QED BY <2>1, <2>3, <2>4
<1>2. CASE Launch
  <2>1. UNCHANGED <<outVars, runVars, pc, kind>>
    BY <1>2 DEF Launch, LaunchStep, HostSpawn, PolicyRefuses, MintNonce, StageRefused,
       RequestRefused, BackendNotStarted, StartBackend, ReadReport, HandshakeFails, GoFails,
       LaunchReturns, ReapBackend, ReapGroup, launchVars
  <2>2. lpc \notin {"idle", "returned", "failed", "dropped"}
    BY <1>2 DEF Launch, LaunchStep, HostSpawn, PolicyRefuses, MintNonce, StageRefused,
       RequestRefused, BackendNotStarted, StartBackend, ReadReport, HandshakeFails, GoFails,
       LaunchReturns, ReapBackend, ReapGroup
  <2>3. pc # "done"
    BY <2>2 DEF Inv, Place
  <2>4. LeaderExited' <=> LeaderExited
    BY <1>2, LaunchKeepsExit DEF Inv
  <2> QED BY <2>1, <2>2, <2>3, <2>4 DEF Contract!ContractNext, Contract!Launches, LeaderExited,
     runVars
<1>3. CASE SpawnCancelled
  BY <1>3 DEF SpawnCancelled, DropSpawn, runVars
<1>4. CASE Processes
  <2>1. Wild /\ UNCHANGED <<runVars, pc, lpc, kind>>
    BY <1>4, ProcessesAreWild DEF Processes, Inv, launchVars
  <2>2. LeaderExited => LeaderExited'
    BY <2>1 DEF Wild, LeaderExited
  <2> QED BY <2>1, <2>2 DEF Contract!ContractNext, Contract!ProcessExits, LeaderExited, runVars
<1>5. CASE Backend
  <2>1. UNCHANGED <<runVars, pc, lpc, kind>>
    BY <1>5 DEF Backend, BackendStep, BackendReports, WriteGo, BackendStartsTarget
  <2>2. proc'[Leader] = proc[Leader]
    BY <1>5 DEF Backend, BackendStep, BackendReports, WriteGo, BackendStartsTarget, Fork,
       groupVars, Inv, GroupTypeOK, Kids, Procs, Leader
  <2> QED BY <2>1, <2>2 DEF runVars
<1>6. CASE Cancel
  BY <1>6 DEF Cancel, Contract!ContractNext, Contract!Asks, groupVars, launchVars
<1>7. CASE Output
  BY <1>7 DEF Output, groupVars, launchVars, runVars
<1>8. CASE TimePasses
  BY <1>8 DEF TimePasses, groupVars, runVars
<1>9. CASE UNCHANGED vars
  BY <1>9 DEF vars, groupVars, launchVars, runVars
<1> QED
  BY <1>1, <1>2, <1>3, <1>4, <1>5, <1>6, <1>7, <1>8, <1>9 DEF Next

\* The safety half of ImplementsContract: the supervisor begins as the contract
\* does and every step of it is one the contract allows.  One terminal result, clean
\* only over a live sink, cancelled only when asked, and exited, stopped by force or
\* short of output only after a launch.
THEOREM ImplementsContractSafely ==
    Spec => Contract!ContractInit /\ [][Contract!ContractNext]_(Contract!contractVars)
<1>1. Init => Contract!ContractInit
  BY DEF Init, GroupInit, LaunchInit, Contract!ContractInit, Procs
<1>2. Inv /\ [Next]_vars => [Contract!ContractNext]_(Contract!contractVars)
  BY ContractStep
<1> QED
  BY <1>1, <1>2, Invariance, PTL DEF Spec
=============================================================================
