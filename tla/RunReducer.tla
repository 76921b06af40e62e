------------------------------ MODULE RunReducer ------------------------------
(***************************************************************************)
(* The canonical run reducer of crates/o7-run (reduce.rs, state.rs,        *)
(* event.rs): a left-to-right, fail-fast fold of a run's events under the  *)
(* contract that RunStarted binds, ending in one of four verdicts.         *)
(*                                                                         *)
(* One action per event kind, guarded by everything reduce() checks for    *)
(* that kind.  Refuse is reduce() returning an error: the state is         *)
(* consumed, nothing more is folded.  The envelope checks that do not      *)
(* depend on the kind (digest, sequence, chain link, run id, event id) are *)
(* not part of this module; an event here is one that has passed them.     *)
(*                                                                         *)
(* Data abstraction.  An artifact reference is its kind, or "Unlocated"    *)
(* for an empty locator.  An agent outcome is "ExitedZero", "FailedToStart"*)
(* or "Fault" (the seven outcomes the reducer does not tell apart).  The   *)
(* Option<ArtifactRef> fields of RunState are the set `receipts` of those  *)
(* that are Some.  Obligation lists are sets: two different obligations    *)
(* for one gate or one policy are two records of the set, and an entry     *)
(* that a list repeats verbatim is the flag `repeated` of the contract.    *)
(*                                                                         *)
(* A definition whose name ends in _bug is a wrong variant of the          *)
(* definition that follows it.  No specification uses it: it is the change *)
(* of the code that the property named beside it must notice.              *)
(***************************************************************************)
CONSTANTS
  Gates,       \* gate ids
  Policies,    \* policy digests
  Contracts    \* the contracts a RunStarted event may carry

\* Gate ids are distinct from the two other subjects of an execution.
ASSUME SubjectsDistinct == "agent" \notin Gates /\ "verifier" \notin Gates

VARIABLES
  phase,             \* RunState.phase
  contract,          \* RunState.contract, NoContract before RunStarted
  agent,             \* RunState.agent
  gates,             \* RunState.gates: progress of each gate, "none" if absent
  policy_results,    \* RunState.policy_results, "none" if absent
  sandbox_evidence,  \* RunState.sandbox_evidence by key, "none" if absent
  receipts,          \* which single-shot artifact fields of RunState are Some
  verdict,           \* RunState.verdict, "none" until sealed
  refused            \* reduce() has returned an error

folded == <<phase, contract, agent, gates, policy_results, sandbox_evidence,
            receipts, verdict>>
vars == <<phase, contract, agent, gates, policy_results, sandbox_evidence,
          receipts, verdict, refused>>

-----------------------------------------------------------------------------
(* Types *)

ArtifactKinds == {"Task", "Diff", "GateLog", "SandboxReport", "Worktree",
                  "Policy", "ProviderSession", "CommandBinding",
                  "CandidateState", "CandidatePatch"}
Artifacts == ArtifactKinds \cup {"Unlocated"}

GateOutcomes == {"Pass", "Fail", "Warn", "Blocked", "NotApplicable", "Error"}
PolicyOutcomes == {"Allowed", "Denied", "Error"}
SandboxOutcomes == {"Satisfied", "Violated", "Error"}
AgentOutcomes == {"ExitedZero", "FailedToStart", "Fault"}

ProtectedSubjects == {"agent"} \cup Gates
ExecutionSubjects == {"agent", "verifier"} \cup Gates
Requirements == {"Required", "Optional"}

\* GateApplicability: a waiver names an environment and a reason; the two
\* waivers that validation refuses are kept apart from the valid one.
Applicabilities == {"Applicable", "Waived", "WaivedElsewhere", "WaivedBlank"}

GateObligations ==
  [gate : Gates, requirement : Requirements, applicability : Applicabilities]
PolicyObligations ==
  [policy : Policies, artifact : Artifacts, requirement : Requirements,
   protects : SUBSET ProtectedSubjects]
SandboxKeys == [subject : ExecutionSubjects, policy : Policies]

\* RunContract; `candidate` is candidate_state: absent, the supported schema,
\* or another schema.
RunContract ==
  [agent : {"Required", "NotUsed"},
   gates : SUBSET GateObligations,
   policies : SUBSET PolicyObligations,
   sandbox : SUBSET SandboxKeys,
   candidate : {"none", "v1", "unsupported"},
   repeated : BOOLEAN]

ASSUME ContractsAreContracts == Contracts \subseteq RunContract

NoContract == [agent |-> "NotUsed", gates |-> {}, policies |-> {},
               sandbox |-> {}, candidate |-> "none", repeated |-> FALSE]

ReceiptFields == {"worktree", "patch", "provider_session_receipt",
                  "command_binding", "candidate_state",
                  "candidate_materialized"}
Verdicts == {"Pass", "Fail", "Blocked", "Error"}

TypeOK ==
  /\ phase \in {"NotStarted", "Running", "Sealed"}
  /\ contract \in RunContract
  /\ agent \in {"NotObserved", "Started"} \cup AgentOutcomes
  /\ gates \in [Gates -> {"none", "Started"} \cup GateOutcomes]
  /\ policy_results \in [Policies -> {"none"} \cup PolicyOutcomes]
  /\ sandbox_evidence \in [SandboxKeys -> {"none"} \cup SandboxOutcomes]
  /\ receipts \subseteq ReceiptFields
  /\ verdict \in {"none"} \cup Verdicts
  /\ phase = "Sealed" <=> verdict # "none"
  /\ refused \in BOOLEAN

-----------------------------------------------------------------------------
(* Contract validation *)

validate_artifact(artifact, expected) == artifact = expected

is_required_applicable(o) ==
  o.requirement = "Required" /\ o.applicability = "Applicable"

\* gate_obligation(contract, gate).is_some()
KnownGate(c, g) == \E o \in c.gates : o.gate = g

GatesWellFormed(c) ==
  /\ \A o1, o2 \in c.gates : o1.gate = o2.gate => o1 = o2
  /\ \A o \in c.gates : o.applicability \in {"Applicable", "Waived"}

PoliciesWellFormed(c) ==
  /\ \A p1, p2 \in c.policies : p1.policy = p2.policy => p1 = p2
  /\ \A p \in c.policies :
       /\ validate_artifact(p.artifact, "Policy")
       /\ p.protects # {} => p.requirement = "Required"
       /\ "agent" \in p.protects => c.agent = "Required"
       /\ \A g \in p.protects \ {"agent"} : KnownGate(c, g)

SandboxWellFormed(c) ==
  \A r \in c.sandbox :
    /\ r.subject = "agent" => c.agent = "Required"
    /\ r.subject \in Gates =>
         \E o \in c.gates : o.gate = r.subject /\ is_required_applicable(o)

validate_contract(c) ==
  /\ ~c.repeated
  /\ c.candidate # "unsupported"
  /\ GatesWellFormed(c)
  /\ PoliciesWellFormed(c)
  /\ SandboxWellFormed(c)

-----------------------------------------------------------------------------
(* The verdict *)

RequiredGates ==
  {o.gate : o \in {q \in contract.gates : is_required_applicable(q)}}
RequiredPolicies == {p \in contract.policies : p.requirement = "Required"}

\* The outcomes recorded for the required policies that protect the agent.
AgentProtectorResults ==
  {policy_results[p.policy] : p \in {q \in RequiredPolicies :
                                       "agent" \in q.protects}}

\* Why a required agent that was never observed did not start: blocked only
\* when a protecting policy explains it and none of them is faulty.
agent_nonstart_disposition ==
  IF /\ "Error" \notin AgentProtectorResults
     /\ AgentProtectorResults \cap {"Denied", "none"} # {}
  THEN "Blocked" ELSE "Error"

AnyError ==
  \/ /\ contract.agent = "Required"
     /\ \/ agent \in {"Started", "FailedToStart", "Fault"}
        \/ agent = "NotObserved" /\ agent_nonstart_disposition = "Error"
  \/ \E g \in RequiredGates : gates[g] \in {"Started", "Error"}
  \/ \E p \in RequiredPolicies : policy_results[p.policy] = "Error"
  \/ \E k \in contract.sandbox : sandbox_evidence[k] = "Error"

AnyFail == \E g \in RequiredGates : gates[g] = "Fail"

\* Progress of a required gate that leaves the run blocked.
\* PassMeansDischarged: a required gate that never ran no longer counts.
BlockingGateProgress_bug == {"Blocked", "NotApplicable"}
BlockingGateProgress == {"none", "Blocked", "NotApplicable"}

AnyBlocked ==
  \/ /\ contract.agent = "Required"
     /\ agent = "NotObserved" /\ agent_nonstart_disposition = "Blocked"
  \/ \E g \in RequiredGates : gates[g] \in BlockingGateProgress
  \/ \E p \in RequiredPolicies : policy_results[p.policy] \in {"none", "Denied"}
  \/ \E k \in contract.sandbox : sandbox_evidence[k] \in {"none", "Violated"}
  \/ contract.candidate # "none" /\ "candidate_state" \notin receipts

\* BlockedHidesNothing: incompleteness outranks a failure.
compute_verdict_bug ==
  IF AnyError THEN "Error" ELSE IF AnyBlocked THEN "Blocked"
  ELSE IF AnyFail THEN "Fail" ELSE "Pass"

compute_verdict ==
  IF AnyError THEN "Error" ELSE IF AnyFail THEN "Fail"
  ELSE IF AnyBlocked THEN "Blocked" ELSE "Pass"

-----------------------------------------------------------------------------
(* What reduce() requires of each event kind *)

\* ProtectedOnlyUnderAllowed: a policy not yet checked does not hold up a start.
check_protected_start_bug(subject) ==
  \A p \in RequiredPolicies :
    subject \in p.protects => policy_results[p.policy] # "Denied"

\* A subject a required policy protects starts only once that policy is
\* recorded as Allowed.
check_protected_start(subject) ==
  \A p \in RequiredPolicies :
    subject \in p.protects => policy_results[p.policy] = "Allowed"

RunStartedOk(c, task) ==
  /\ phase = "NotStarted"
  /\ validate_contract(c)
  /\ validate_artifact(task, "Task")

\* The fields that are captured at most once and have no other condition.
EvidenceKind == [worktree |-> "Worktree", patch |-> "Diff",
                 provider_session_receipt |-> "ProviderSession",
                 command_binding |-> "CommandBinding"]

EvidenceOk(field, artifact) ==
  /\ phase = "Running"
  /\ validate_artifact(artifact, EvidenceKind[field])
  /\ field \notin receipts

AgentStartedOk ==
  /\ phase = "Running"
  /\ contract.agent = "Required"
  /\ agent = "NotObserved"
  /\ ~ /\ contract.candidate # "none"
       /\ "command_binding" \in receipts
       /\ "candidate_materialized" \notin receipts
  /\ check_protected_start("agent")

AgentExitedOk(outcome) ==
  /\ phase = "Running"
  /\ contract.agent = "Required"
  /\ \/ agent = "NotObserved" /\ outcome = "FailedToStart"
     \/ agent = "Started"

PolicyCheckedOk(p, artifact) ==
  /\ phase = "Running"
  /\ validate_artifact(artifact, "Policy")
  /\ \E o \in contract.policies : o.policy = p
  /\ policy_results[p] = "none"

GateStartedOk(g) ==
  /\ phase = "Running"
  /\ KnownGate(contract, g)
  /\ gates[g] = "none"
  /\ check_protected_start(g)

\* `log` is an artifact, or "NoLog" when the event carries none.
GateFinishedOk(g, log) ==
  /\ phase = "Running"
  /\ KnownGate(contract, g)
  /\ log # "NoLog" => validate_artifact(log, "GateLog")
  /\ gates[g] = "Started"

SandboxEvidenceOk(k, report) ==
  /\ phase = "Running"
  /\ validate_artifact(report, "SandboxReport")
  /\ k \in contract.sandbox
  /\ sandbox_evidence[k] = "none"

CandidateStateCapturedOk(receipt) ==
  /\ phase = "Running"
  /\ validate_artifact(receipt, "CandidateState")
  /\ "candidate_state" \notin receipts
  /\ "patch" \in receipts
  /\ contract.agent = "Required" => agent \in AgentOutcomes

CandidateStateMaterializedOk(receipt, patch) ==
  /\ phase = "Running"
  /\ validate_artifact(receipt, "CandidateState")
  /\ validate_artifact(patch, "CandidatePatch")
  /\ "candidate_materialized" \notin receipts
  /\ "command_binding" \in receipts
  /\ agent = "NotObserved"

RunSealedOk == phase = "Running"

-----------------------------------------------------------------------------
(* Folding one event *)

Init ==
  /\ phase = "NotStarted"
  /\ contract = NoContract
  /\ agent = "NotObserved"
  /\ gates = [g \in Gates |-> "none"]
  /\ policy_results = [p \in Policies |-> "none"]
  /\ sandbox_evidence = [k \in SandboxKeys |-> "none"]
  /\ receipts = {}
  /\ verdict = "none"
  /\ refused = FALSE

RunStarted(c, task) ==
  /\ RunStartedOk(c, task)
  /\ contract' = c
  /\ phase' = "Running"
  /\ UNCHANGED <<agent, gates, policy_results, sandbox_evidence, receipts,
                 verdict, refused>>

\* WorktreeCreated, PatchCaptured, ProviderSessionCaptured and
\* CommandBindingCaptured.
EvidenceCaptured(field, artifact) ==
  /\ EvidenceOk(field, artifact)
  /\ receipts' = receipts \cup {field}
  /\ UNCHANGED <<phase, contract, agent, gates, policy_results,
                 sandbox_evidence, verdict, refused>>

AgentStarted ==
  /\ AgentStartedOk
  /\ agent' = "Started"
  /\ UNCHANGED <<phase, contract, gates, policy_results, sandbox_evidence,
                 receipts, verdict, refused>>

AgentExited(outcome) ==
  /\ AgentExitedOk(outcome)
  /\ agent' = outcome
  /\ UNCHANGED <<phase, contract, gates, policy_results, sandbox_evidence,
                 receipts, verdict, refused>>

PolicyChecked(p, artifact, outcome) ==
  /\ PolicyCheckedOk(p, artifact)
  /\ policy_results' = [policy_results EXCEPT ![p] = outcome]
  /\ UNCHANGED <<phase, contract, agent, gates, sandbox_evidence, receipts,
                 verdict, refused>>

GateStarted(g) ==
  /\ GateStartedOk(g)
  /\ gates' = [gates EXCEPT ![g] = "Started"]
  /\ UNCHANGED <<phase, contract, agent, policy_results, sandbox_evidence,
                 receipts, verdict, refused>>

GateFinished(g, outcome, log) ==
  /\ GateFinishedOk(g, log)
  /\ gates' = [gates EXCEPT ![g] = outcome]
  /\ UNCHANGED <<phase, contract, agent, policy_results, sandbox_evidence,
                 receipts, verdict, refused>>

SandboxEvidenceCaptured(k, report, outcome) ==
  /\ SandboxEvidenceOk(k, report)
  /\ sandbox_evidence' = [sandbox_evidence EXCEPT ![k] = outcome]
  /\ UNCHANGED <<phase, contract, agent, gates, policy_results, receipts,
                 verdict, refused>>

CandidateStateCaptured(receipt) ==
  /\ CandidateStateCapturedOk(receipt)
  /\ receipts' = receipts \cup {"candidate_state"}
  /\ UNCHANGED <<phase, contract, agent, gates, policy_results,
                 sandbox_evidence, verdict, refused>>

CandidateStateMaterialized(receipt, patch) ==
  /\ CandidateStateMaterializedOk(receipt, patch)
  /\ receipts' = receipts \cup {"candidate_materialized"}
  /\ UNCHANGED <<phase, contract, agent, gates, policy_results,
                 sandbox_evidence, verdict, refused>>

RunSealed ==
  /\ RunSealedOk
  /\ verdict' = compute_verdict
  /\ phase' = "Sealed"
  /\ UNCHANGED <<contract, agent, gates, policy_results, sandbox_evidence,
                 receipts, refused>>

\* reduce() returns an error for some event: the fold ends where it is.
FailFast == refused' = TRUE /\ UNCHANGED folded

EveryEventAccepted ==
  /\ \A c \in Contracts, a \in Artifacts : RunStartedOk(c, a)
  /\ \A f \in DOMAIN EvidenceKind, a \in Artifacts : EvidenceOk(f, a)
  /\ AgentStartedOk
  /\ \A o \in AgentOutcomes : AgentExitedOk(o)
  /\ \A p \in Policies, a \in Artifacts : PolicyCheckedOk(p, a)
  /\ \A g \in Gates : GateStartedOk(g)
  /\ \A g \in Gates, log \in Artifacts \cup {"NoLog"} : GateFinishedOk(g, log)
  /\ \A k \in SandboxKeys, a \in Artifacts : SandboxEvidenceOk(k, a)
  /\ \A a \in Artifacts : CandidateStateCapturedOk(a)
  /\ \A a, b \in Artifacts : CandidateStateMaterializedOk(a, b)
  /\ RunSealedOk

Refuse == ~refused /\ ~EveryEventAccepted /\ FailFast

\* reduce() returning Ok for one more event.
Fold ==
  \/ \E c \in Contracts, a \in Artifacts : RunStarted(c, a)
  \/ \E f \in DOMAIN EvidenceKind, a \in Artifacts : EvidenceCaptured(f, a)
  \/ AgentStarted
  \/ \E o \in AgentOutcomes : AgentExited(o)
  \/ \E p \in Policies, a \in Artifacts, o \in PolicyOutcomes :
       PolicyChecked(p, a, o)
  \/ \E g \in Gates : GateStarted(g)
  \/ \E g \in Gates, o \in GateOutcomes, log \in Artifacts \cup {"NoLog"} :
       GateFinished(g, o, log)
  \/ \E k \in SandboxKeys, a \in Artifacts, o \in SandboxOutcomes :
       SandboxEvidenceCaptured(k, a, o)
  \/ \E a \in Artifacts : CandidateStateCaptured(a)
  \/ \E a, b \in Artifacts : CandidateStateMaterialized(a, b)
  \/ RunSealed

Next == \/ ~refused /\ Fold
        \/ Refuse

Spec == Init /\ [][Next]_vars

-----------------------------------------------------------------------------
(* Properties *)

\* The contract a verdict is given under is one validate_contract accepts.
\* Every property below that speaks of protection or of obligations is about
\* such a contract.
ContractValid == phase # "NotStarted" => validate_contract(contract)

\* The verdict table at the head of state.rs, first row: a run sealed as Pass
\* has discharged every obligation of its contract.  Whatever order the events
\* came in, a required gate that never ran, a required agent that did not exit
\* with code 0, or missing sandbox evidence can never end in Pass.
PassMeansDischarged ==
  verdict = "Pass" =>
    /\ contract.agent = "Required" => agent = "ExitedZero"
    /\ \A o \in contract.gates :
         o.requirement = "Required" /\ o.applicability = "Applicable"
           => gates[o.gate] \in {"Pass", "Warn"}
    /\ \A p \in contract.policies :
         p.requirement = "Required" => policy_results[p.policy] = "Allowed"
    /\ \A k \in contract.sandbox : sandbox_evidence[k] = "Satisfied"
    /\ contract.candidate = "v1" => "candidate_state" \in receipts

\* Third row and precedence: Blocked says "not discharged", so it never stands
\* over a required gate that failed, errored or was left unfinished, nor over
\* an agent that started; an agent that did not start is then explained by a
\* policy that protects it and did not allow it.  (A policy or a sandbox check that
\* ended in an error is not part of it.)
BlockedHidesNothing ==
  verdict = "Blocked" =>
    /\ \A o \in contract.gates :
         o.requirement = "Required" /\ o.applicability = "Applicable"
           => gates[o.gate] \notin {"Fail", "Error", "Started"}
    /\ contract.agent = "Required" /\ agent # "ExitedZero" =>
         /\ agent = "NotObserved"
         /\ \E p \in contract.policies :
              /\ "agent" \in p.protects
              /\ policy_results[p.policy] \in {"none", "Denied"}

\* A protected subject has run only if every policy that protects it is on
\* record as Allowed, however the checks and the starts are interleaved.  (An
\* agent that failed to start never ran.)
ProtectedOnlyUnderAllowed ==
  \A p \in contract.policies :
    /\ "agent" \in p.protects /\ agent \in {"Started", "ExitedZero", "Fault"}
         => policy_results[p.policy] = "Allowed"
    /\ \A g \in Gates :
         g \in p.protects /\ gates[g] # "none"
           => policy_results[p.policy] = "Allowed"

\* The candidate state describes this run's patch after its agent is done; a
\* parent's candidate state is materialized only by a command continuation.
CandidateEvidenceOrdered ==
  /\ "candidate_state" \in receipts =>
       /\ "patch" \in receipts
       /\ contract.agent = "Required" => agent \in AgentOutcomes
  /\ "candidate_materialized" \in receipts => "command_binding" \in receipts

\* No event overwrites evidence an earlier one recorded: results and receipts
\* are final, a gate or an agent only advances, the contract never changes once
\* bound, and nothing at all changes after the seal.
EvidenceFinal ==
  /\ phase # "NotStarted" => contract' = contract
  /\ phase = "Sealed" => UNCHANGED folded
  /\ receipts \subseteq receipts'
  /\ agent \in AgentOutcomes => agent' = agent
  /\ agent = "Started" => agent' # "NotObserved"
  /\ \A g \in Gates : gates[g] \in GateOutcomes => gates'[g] = gates[g]
  /\ \A p \in Policies :
       policy_results[p] # "none" => policy_results'[p] = policy_results[p]
  /\ \A k \in SandboxKeys :
       sandbox_evidence[k] # "none" => sandbox_evidence'[k] = sandbox_evidence[k]
EvidenceWriteOnce == [][EvidenceFinal]_vars

=============================================================================
