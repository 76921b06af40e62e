------------------------------ MODULE RunWriter ------------------------------
(***************************************************************************)
(* The processes that write a run's canonical record: `o7 run --ledger`    *)
(* (execute_live), `o7 continue` (continue_execute) and `o7 run` without a *)
(* ledger (execute, build_events), and what a later reader makes of the    *)
(* record they leave (classify_command_child).                             *)
(*                                                                         *)
(* A writer is a straight-line program over files and events; Program is   *)
(* that line for each mode, pc the position on it.  It can stop anywhere:  *)
(* every `?` of the code and every kill is Die, which may leave a torn     *)
(* last line.  PowerLoss is a machine crash on a disk as the comment on    *)
(* sync_dir (record.rs) describes it: contents not synced, or synced in a  *)
(* file whose directory entry is not, may be gone afterwards.  The run     *)
(* directory itself is taken to be on disk.                                *)
(*                                                                         *)
(* The variables of RunReducer are the fold of the events the writer has   *)
(* appended.  The writer does not consult the reducer: an event reduce()   *)
(* would not accept is appended all the same and sets `refused`.           *)
(*                                                                         *)
(* A file is the artifact or sidecar it holds; the gate logs are one file. *)
(* A gate step keeps what the code looks at: its name, its log file after  *)
(* sanitizing, required, env = "windows", and its waive_reason.            *)
(***************************************************************************)
EXTENDS RunReducer, Naturals, Sequences

CONSTANTS
  Modes,      \* which of the three writers
  Manifests   \* gate manifests: sequences of gate steps

VARIABLES
  mode, manifest,
  pc,         \* index into Program[mode]
  alive,      \* the writing process runs
  steps,      \* Vec<StepVerdict>: the verdicts of the steps done so far
  emitted,    \* how many of the steps have their gate events
  open_gate,  \* GateStarted of the current step is appended
  outcome,    \* what agent::run returned: "none" before
  session,    \* ... and whether it came with a provider session id
  invoked,    \* the provider was started
  attached,   \* the ledger row of this run exists
  disk,       \* the state of each file
  torn        \* the record ends in a partial line

writer == <<mode, manifest, pc, alive, steps, emitted, open_gate, outcome,
            session, invoked, attached, disk, torn>>
allvars == <<vars, writer>>

-----------------------------------------------------------------------------
(* Gate manifests *)

Waives == {"none", "blank", "reason"}
GateStep == [name : Gates, log : Gates, required : BOOLEAN, windows : BOOLEAN,
             waive : Waives]

ASSUME ModesAreWriters == Modes \subseteq {"live", "continue", "posthoc"}

ASSUME ManifestsAreManifests ==
  \A m \in Manifests : m \in Seq(GateStep)

\* GateManifest::validate (a blank name is not a gate id at all).
validate(m) ==
  \A i, j \in DOMAIN m : i # j => m[i].name # m[j].name /\ m[i].log # m[j].log

Waived(s) == s.windows /\ s.waive = "reason"

\* PassMeansStepsRan: every Windows step counts as waived.
Obligation_bug(s) ==
  [gate |-> s.name,
   requirement |-> IF s.required THEN "Required" ELSE "Optional",
   applicability |-> IF s.windows THEN "Waived" ELSE "Applicable"]
Obligation(s) ==
  [gate |-> s.name,
   requirement |-> IF s.required THEN "Required" ELSE "Optional",
   applicability |-> IF Waived(s) THEN "Waived" ELSE "Applicable"]

\* The contract of the manifest, with the candidate-state obligation that run
\* and continue_run add to a ledger-backed run.
build_contract ==
  [NoContract EXCEPT
     !.agent = "Required",
     !.gates = {Obligation(manifest[i]) : i \in DOMAIN manifest},
     !.candidate = IF mode = "posthoc" THEN "none" ELSE "v1"]

\* The verdicts run_one_step can give.
StepVerdicts(s) ==
  IF ~s.windows THEN {"Pass", "Fail", "Error"}
  ELSE IF Waived(s) THEN {"NotApplicable"} ELSE {"Blocked"}

-----------------------------------------------------------------------------
(* The three programs *)

Opening == <<"RunStarted", "attach">>

\* NeverRedrivenOnceInvoked: the provider starts before its event is durable.
Dispatch_bug == <<"invoke", "AgentStarted">>
Dispatch == <<"AgentStarted", "invoke">>

\* RecordLeads: the candidate state is captured ahead of the patch.
AfterAgent_bug ==
  <<"AgentExited", "session_receipt", "ProviderSessionCaptured", "candidate",
    "CandidateStateCaptured", "diff", "PatchCaptured", "gates", "RunSealed",
    "done">>
AfterAgent ==
  <<"AgentExited", "session_receipt", "ProviderSessionCaptured", "diff",
    "PatchCaptured", "candidate", "CandidateStateCaptured", "gates",
    "RunSealed", "done">>

Program ==
  [live |-> <<"build_contract", "ledger_binding", "task">>
              \o Opening \o Dispatch \o AfterAgent,
   continue |-> <<"build_contract", "ledger_binding", "task", "command_binding">>
                  \o Opening
                  \o <<"CommandBindingCaptured", "parent_candidate",
                       "CandidateStateMaterialized">>
                  \o Dispatch \o AfterAgent,
   posthoc |-> <<"build_contract", "invoke", "task_plain", "diff", "run_gates",
                 "RunStarted", "AgentStarted", "AgentExited", "PatchCaptured",
                 "gates", "RunSealed", "write_text", "done">>]

Files == {"events", "ledger_binding", "task", "command_binding",
          "parent_candidate", "session_receipt", "diff", "candidate",
          "gate_log"}

\* absent; in the page cache only; contents synced; contents and entry synced;
\* lost in a power failure.
FileStates == {"absent", "cached", "synced", "durable", "gone"}

AppendStages == {"RunStarted", "CommandBindingCaptured",
                 "CandidateStateMaterialized", "AgentStarted", "AgentExited",
                 "ProviderSessionCaptured", "PatchCaptured",
                 "CandidateStateCaptured", "gates", "RunSealed"}

At(stage) == alive /\ Program[mode][pc] = stage

-----------------------------------------------------------------------------
(* Files *)

\* sync_dir: the entries of the directory reach the disk.
sync_dir(d) == [f \in Files |-> IF d[f] = "synced" THEN "durable" ELSE d[f]]

\* DeadBeforeDispatchIsRedrivable: written as write_task does, without a sync.
WriteDurable_bug(f) == disk' = [disk EXCEPT ![f] = "cached"]

\* LedgerBinding::write_durable, write_task_durable, CommandBinding::
\* write_durable, write_bytes_durable.
WriteDurable(f) == disk' = sync_dir([disk EXCEPT ![f] = "durable"])

\* events.jsonl is created by the first append and synced by each; the writer
\* without a ledger builds its events in memory.
EventsAppended ==
  disk' = IF mode # "posthoc" /\ disk["events"] = "absent"
          THEN [disk EXCEPT !["events"] = "synced"] ELSE disk

Stays == UNCHANGED <<mode, manifest, alive, torn>>

DurableStage ==
  \E f \in {"ledger_binding", "task", "command_binding", "parent_candidate",
            "candidate"} :
    /\ At(f)
    /\ WriteDurable(f)
    /\ pc' = pc + 1
    /\ Stays
    /\ UNCHANGED <<vars, steps, emitted, open_gate, outcome, session, invoked,
                   attached>>

\* write_task, write_diff: std::fs::write.
PlainStage ==
  /\ At("task_plain") \/ At("diff")
  /\ disk' = [disk EXCEPT ![IF At("diff") THEN "diff" ELSE "task"] = "cached"]
  /\ pc' = pc + 1
  /\ Stays
  /\ UNCHANGED <<vars, steps, emitted, open_gate, outcome, session, invoked,
                 attached>>

\* write_provider_session_receipt syncs the file and not the directory.
SessionReceipt ==
  /\ At("session_receipt")
  /\ disk' = IF session THEN [disk EXCEPT !["session_receipt"] = "synced"]
             ELSE disk
  /\ pc' = IF session THEN pc + 1 ELSE pc + 2
  /\ Stays
  /\ UNCHANGED <<vars, steps, emitted, open_gate, outcome, session, invoked,
                 attached>>

\* rec.write_text(EVENTS_FILE, ...): the whole stream at once, not synced.
WriteText ==
  /\ At("write_text")
  /\ disk' = [disk EXCEPT !["events"] = "cached"]
  /\ pc' = pc + 1
  /\ Stays
  /\ UNCHANGED <<vars, steps, emitted, open_gate, outcome, session, invoked,
                 attached>>

-----------------------------------------------------------------------------
(* Events *)

\* An accepted event is folded; anything after one that is not is not.
Emit(ok, fold) == \/ ~refused /\ fold
                  \/ (refused \/ ~ok) /\ FailFast

AppendEvent(stage) ==
  /\ At(stage)
  /\ EventsAppended
  /\ pc' = pc + 1
  /\ Stays
  /\ UNCHANGED <<steps, emitted, open_gate, outcome, session, invoked, attached>>

AppendRunStarted ==
  /\ AppendEvent("RunStarted")
  /\ Emit(RunStartedOk(build_contract, "Task"), RunStarted(build_contract, "Task"))

\* The three captures of one artifact each.
AppendEvidence ==
  \E e \in {<<"CommandBindingCaptured", "command_binding", "CommandBinding">>,
            <<"ProviderSessionCaptured", "provider_session_receipt",
              "ProviderSession">>,
            <<"PatchCaptured", "patch", "Diff">>} :
    /\ AppendEvent(e[1])
    /\ Emit(EvidenceOk(e[2], e[3]), EvidenceCaptured(e[2], e[3]))

AppendMaterialized ==
  /\ AppendEvent("CandidateStateMaterialized")
  /\ Emit(CandidateStateMaterializedOk("CandidateState", "CandidatePatch"),
          CandidateStateMaterialized("CandidateState", "CandidatePatch"))

AppendAgentStarted ==
  /\ AppendEvent("AgentStarted")
  /\ Emit(AgentStartedOk, AgentStarted)

AppendAgentExited ==
  /\ AppendEvent("AgentExited")
  /\ Emit(AgentExitedOk(outcome), AgentExited(outcome))

AppendCandidateState ==
  /\ AppendEvent("CandidateStateCaptured")
  /\ Emit(CandidateStateCapturedOk("CandidateState"),
          CandidateStateCaptured("CandidateState"))

AppendRunSealed ==
  /\ AppendEvent("RunSealed")
  /\ Emit(RunSealedOk, RunSealed)

-----------------------------------------------------------------------------
(* Work between the events *)

\* An invalid manifest costs nothing: the process exits before any file.
CheckManifest ==
  /\ At("build_contract")
  /\ IF validate(manifest) THEN pc' = pc + 1 /\ UNCHANGED alive
                           ELSE alive' = FALSE /\ UNCHANGED pc
  /\ UNCHANGED <<vars, mode, manifest, steps, emitted, open_gate, outcome,
                 session, invoked, attached, disk, torn>>

\* attach_run: the ledger row of this run.
AttachRun ==
  /\ At("attach")
  /\ attached' = TRUE
  /\ pc' = pc + 1
  /\ Stays
  /\ UNCHANGED <<vars, steps, emitted, open_gate, outcome, session, invoked, disk>>

\* agent::run or agent::continue_session; agent_outcome makes anything but
\* exit code 0 a fault.
Invoke ==
  /\ At("invoke")
  /\ invoked' = TRUE
  /\ outcome' \in {"ExitedZero", "Fault"}
  /\ session' \in BOOLEAN
  /\ pc' = pc + 1
  /\ Stays
  /\ UNCHANGED <<vars, steps, emitted, open_gate, attached, disk>>

\* run_one_step on the next step, with its log.  With a ledger it runs between
\* the step's two events, and a Windows step has none; without one all the
\* steps run before the first event.
RunOneStep ==
  /\ Len(steps) < Len(manifest)
  /\ LET s == manifest[Len(steps) + 1] IN
     /\ \/ At("run_gates")
        \/ At("gates") /\ Len(steps) = emitted /\ (s.windows \/ open_gate)
     /\ \E v \in StepVerdicts(s) : steps' = Append(steps, v)
     /\ disk' = IF s.windows THEN disk ELSE [disk EXCEPT !["gate_log"] = "cached"]
  /\ Stays
  /\ UNCHANGED <<vars, pc, emitted, open_gate, outcome, session, invoked, attached>>

RunGatesDone ==
  /\ At("run_gates")
  /\ Len(steps) = Len(manifest)
  /\ pc' = pc + 1
  /\ Stays
  /\ UNCHANGED <<vars, steps, emitted, open_gate, outcome, session, invoked,
                 attached, disk>>

\* A step that did not execute has no events: the contract speaks for it.
SkipStep ==
  /\ At("gates")
  /\ emitted < Len(steps) /\ ~open_gate
  /\ steps[emitted + 1] \in {"Blocked", "NotApplicable"}
  /\ emitted' = emitted + 1
  /\ Stays
  /\ UNCHANGED <<vars, pc, steps, open_gate, outcome, session, invoked,
                 attached, disk>>

\* With a ledger GateStarted is appended before the command runs.
GateStartDue ==
  /\ ~open_gate
  /\ emitted < Len(manifest)
  /\ IF mode = "posthoc"
     THEN steps[emitted + 1] \notin {"Blocked", "NotApplicable"}
     ELSE Len(steps) = emitted /\ ~manifest[emitted + 1].windows

AppendGateStarted ==
  /\ At("gates")
  /\ GateStartDue
  /\ LET g == manifest[emitted + 1].name
     IN  Emit(GateStartedOk(g), GateStarted(g))
  /\ EventsAppended
  /\ open_gate' = TRUE
  /\ Stays
  /\ UNCHANGED <<pc, steps, emitted, outcome, session, invoked, attached>>

AppendGateFinished ==
  /\ At("gates")
  /\ open_gate /\ emitted < Len(steps)
  /\ LET g == manifest[emitted + 1].name
     IN  Emit(GateFinishedOk(g, "GateLog"),
              GateFinished(g, steps[emitted + 1], "GateLog"))
  /\ EventsAppended
  /\ open_gate' = FALSE
  /\ emitted' = emitted + 1
  /\ Stays
  /\ UNCHANGED <<pc, steps, outcome, session, invoked, attached>>

GatesDone ==
  /\ At("gates")
  /\ emitted = Len(manifest)
  /\ pc' = pc + 1
  /\ Stays
  /\ UNCHANGED <<vars, steps, emitted, open_gate, outcome, session, invoked,
                 attached, disk>>

-----------------------------------------------------------------------------
(* Failures *)

\* A `?` or a kill.  In the middle of an append part of a line may be left.
Die ==
  /\ alive
  /\ alive' = FALSE
  /\ \/ UNCHANGED <<torn, disk>>
     \/ /\ \/ mode # "posthoc" /\ Program[mode][pc] \in AppendStages
           \/ At("write_text")
        /\ torn' = TRUE
        /\ disk' = IF disk["events"] = "absent"
                   THEN [disk EXCEPT !["events"] = "cached"] ELSE disk
  /\ UNCHANGED <<vars, mode, manifest, pc, steps, emitted, open_gate, outcome,
                 session, invoked, attached>>

\* The machine stops: what was not on disk may or may not be there afterwards.
PowerLoss ==
  LET volatile == {f \in Files : disk[f] \in {"cached", "synced"}} IN
  /\ volatile # {}
  /\ alive' = FALSE
  /\ \E lost \in SUBSET volatile :
       disk' = [f \in Files |-> IF f \in lost THEN "gone"
                               ELSE IF f \in volatile THEN "durable" ELSE disk[f]]
  /\ UNCHANGED <<vars, mode, manifest, pc, steps, emitted, open_gate, outcome,
                 session, invoked, attached, torn>>

-----------------------------------------------------------------------------
(* Reading the record back *)

\* The artifacts the folded events refer to (referenced_artifacts).
Referenced ==
  {"task"}
    \cup (IF "command_binding" \in receipts THEN {"command_binding"} ELSE {})
    \cup (IF "candidate_materialized" \in receipts
          THEN {"parent_candidate"} ELSE {})
    \cup (IF "provider_session_receipt" \in receipts
          THEN {"session_receipt"} ELSE {})
    \cup (IF "patch" \in receipts THEN {"diff"} ELSE {})
    \cup (IF "candidate_state" \in receipts THEN {"candidate"} ELSE {})
    \cup (IF \E g \in Gates : gates[g] \in GateOutcomes THEN {"gate_log"} ELSE {})

Intact(f) == disk[f] \notin {"absent", "gone"}

\* dispatch_progress(state).is_some()
dispatch_progress ==
  \/ "patch" \in receipts
  \/ \E g \in Gates : gates[g] # "none"
  \/ "provider_session_receipt" \in receipts
  \/ agent # "NotObserved"

\* A torn line does not parse; otherwise verify_prefix, the two binding files
\* and the task must all be there.
classify_command_child ==
  IF ~Intact("events") THEN "Absent"
  ELSE IF torn THEN "Invalid"
  ELSE IF \/ refused
          \/ \E f \in Referenced \cup {"ledger_binding", "command_binding"} :
               ~Intact(f)
  THEN "Invalid"
  ELSE IF phase = "Sealed" THEN "ValidSealed"
  ELSE IF dispatch_progress THEN "DispatchAmbiguous"
  ELSE "PreDispatch"

-----------------------------------------------------------------------------

WriterInit ==
  /\ Init
  /\ mode \in Modes /\ manifest \in Manifests
  /\ pc = 1 /\ alive = TRUE
  /\ steps = <<>> /\ emitted = 0 /\ open_gate = FALSE
  /\ outcome = "none" /\ session = FALSE /\ invoked = FALSE
  /\ attached = FALSE
  /\ disk = [f \in Files |-> "absent"]
  /\ torn = FALSE

WriterNext ==
  \/ CheckManifest \/ DurableStage \/ PlainStage \/ SessionReceipt \/ WriteText
  \/ AppendRunStarted \/ AppendEvidence \/ AppendMaterialized
  \/ AppendAgentStarted \/ AppendAgentExited \/ AppendCandidateState
  \/ AppendRunSealed \/ AttachRun \/ Invoke
  \/ RunOneStep \/ RunGatesDone \/ SkipStep \/ AppendGateStarted
  \/ AppendGateFinished \/ GatesDone
  \/ Die \/ PowerLoss

WriterSpec == WriterInit /\ [][WriterNext]_allvars

-----------------------------------------------------------------------------
(* Properties *)

\* Whatever the manifest, the session and the outcomes of the steps, no writer
\* appends an event that reduce() refuses: each prefix a crash can leave is one
\* the readers can verify.
RecordAccepted == ~refused

\* A redrive starts a second process for the same command when it finds the
\* record Absent or PreDispatch.  Once a continuation has started its provider
\* neither may be found, not even after a torn append or a power failure.
NeverRedrivenOnceInvoked ==
  mode = "continue" /\ invoked
    => classify_command_child \notin {"Absent", "PreDispatch"}

\* What continue_execute says of a failure before AgentStarted: it "stays
\* safely, same-key redrivable".  The exception is a torn line, which
\* fails closed.
DeadBeforeDispatchIsRedrivable ==
  mode = "continue" /\ ~alive /\ ~torn /\ agent = "NotObserved"
    => classify_command_child \in {"Absent", "PreDispatch"}

\* A Pass verdict of any of the three writers means that every required step of
\* the manifest ran and passed, or was waived with a reason for this host.
PassMeansStepsRan ==
  mode \in Modes /\ verdict = "Pass" =>
    /\ outcome = "ExitedZero"
    /\ \A i \in DOMAIN manifest :
         manifest[i].required =>
           i <= Len(steps) /\ (steps[i] = "Pass" \/ Waived(manifest[i]))

\* execute_live and continue_execute create the ledger row only after RunStarted
\* is in the record.  Short of a power failure the row is never without it.
RowHasRecord ==
  attached => phase # "NotStarted" /\ disk["events"] # "absent"

\* The record of a writer leads: readers can replay each of its prefixes, and the
\* ledger shows no run before there is one.
RecordLeads == mode \in Modes => RecordAccepted /\ RowHasRecord

=============================================================================
