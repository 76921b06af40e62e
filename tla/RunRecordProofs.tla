-------------------------- MODULE RunRecordProofs ---------------------------
(***************************************************************************)
(* The fold of a run's record and the writer of the record, for every set  *)
(* of gates, policies and contracts, every set of writers, and every exit  *)
(* of provider and gates, wherever the writer dies.                        *)
(*                                                                         *)
(* The reducer.  None of its properties is inductive alone.  RunStarted    *)
(* replaces the contract, so whatever relates the contract to the rest of  *)
(* the state needs to know that nothing is folded before it (Fresh).  That *)
(* a start is allowed by every policy protecting its subject, when the     *)
(* code only looks at the required ones, needs the contract to be one that *)
(* validation accepted (ContractValid).  And a verdict stands only because *)
(* no action is enabled after the seal, the last conjunct of TypeOK.       *)
(*                                                                         *)
(* The writer.  It walks along a fixed line of stages, and the record is   *)
(* what the stages behind it left.  So each of the three lines is written  *)
(* out once (LiveLine, ContinueLine, PosthocLine), which yields the order  *)
(* of the stages as facts about Past, and the state the reducer folds from *)
(* the record is a function of what is past (Folded, Captured).  On disk,  *)
(* the files and the parent's evidence are durable before the event that   *)
(* names them (OnDisk).  A Pass is earned because the fold counts only     *)
(* steps that ran and exits that were written (StepProgress, GateProgress, *)
(* and the reducer's own facts).                                           *)
(***************************************************************************)
EXTENDS RunWriter, TLAPS

-----------------------------------------------------------------------------
(* The invariant of the fold *)

\* Before RunStarted nothing has been folded.
Fresh ==
  phase = "NotStarted" =>
    /\ contract = NoContract
    /\ agent = "NotObserved"
    /\ gates = [g \in Gates |-> "none"]
    /\ policy_results = [p \in Policies |-> "none"]
    /\ receipts = {}

Inv == /\ TypeOK
       /\ Fresh
       /\ ContractValid
       /\ ProtectedOnlyUnderAllowed
       /\ CandidateEvidenceOrdered
       /\ PassMeansDischarged
       /\ BlockedHidesNothing

\* The precedence of compute_verdict: what each label excludes.
LEMMA VerdictPrecedence ==
  /\ compute_verdict \in Verdicts
  /\ compute_verdict = "Pass" => ~AnyError /\ ~AnyFail /\ ~AnyBlocked
  /\ compute_verdict = "Blocked" => ~AnyError /\ ~AnyFail
BY DEF compute_verdict, Verdicts

\* A run that would be sealed Pass now has discharged its whole contract.
LEMMA PassDischarges ==
  ASSUME TypeOK, compute_verdict = "Pass"
  PROVE  /\ contract.agent = "Required" => agent = "ExitedZero"
         /\ \A o \in contract.gates :
              o.requirement = "Required" /\ o.applicability = "Applicable"
                => gates[o.gate] \in {"Pass", "Warn"}
         /\ \A p \in contract.policies :
              p.requirement = "Required" => policy_results[p.policy] = "Allowed"
         /\ \A k \in contract.sandbox : sandbox_evidence[k] = "Satisfied"
         /\ contract.candidate = "v1" => "candidate_state" \in receipts
<1>1. ~AnyError /\ ~AnyFail /\ ~AnyBlocked
  BY VerdictPrecedence
<1>2. contract.agent = "Required" => agent = "ExitedZero"
  <2>1. agent_nonstart_disposition \in {"Blocked", "Error"}
    BY DEF agent_nonstart_disposition
  <2> QED
    BY <1>1, <2>1 DEF AnyError, AnyBlocked, TypeOK, AgentOutcomes
<1>3. ASSUME NEW o \in contract.gates,
             o.requirement = "Required", o.applicability = "Applicable"
      PROVE  gates[o.gate] \in {"Pass", "Warn"}
  <2>1. o.gate \in RequiredGates
    BY <1>3 DEF RequiredGates, is_required_applicable
  <2>2. o.gate \in Gates
    BY DEF TypeOK, RunContract, GateObligations
  <2>3. gates[o.gate] \in {"none", "Started"} \cup GateOutcomes
    BY <2>2 DEF TypeOK
  <2> QED
    BY <1>1, <2>1, <2>3 DEF AnyError, AnyFail, AnyBlocked,
                            BlockingGateProgress, GateOutcomes
<1>4. ASSUME NEW p \in contract.policies, p.requirement = "Required"
      PROVE  policy_results[p.policy] = "Allowed"
  <2>1. p \in RequiredPolicies
    BY <1>4 DEF RequiredPolicies
  <2>2. policy_results[p.policy] \in {"none"} \cup PolicyOutcomes
    BY DEF TypeOK, RunContract, PolicyObligations
  <2> QED
    BY <1>1, <2>1, <2>2 DEF AnyError, AnyBlocked, PolicyOutcomes
<1>5. ASSUME NEW k \in contract.sandbox
      PROVE  sandbox_evidence[k] = "Satisfied"
  <2>1. sandbox_evidence[k] \in {"none"} \cup SandboxOutcomes
    BY DEF TypeOK, RunContract
  <2> QED
    BY <1>1, <2>1 DEF AnyError, AnyBlocked, SandboxOutcomes
<1>6. contract.candidate = "v1" => "candidate_state" \in receipts
  BY <1>1 DEF AnyBlocked
<1> QED
  BY <1>2, <1>3, <1>4, <1>5, <1>6

\* A run that would be sealed Blocked now hides neither a failure nor a fault.
LEMMA BlockedIsHonest ==
  ASSUME TypeOK, compute_verdict = "Blocked"
  PROVE  /\ \A o \in contract.gates :
              o.requirement = "Required" /\ o.applicability = "Applicable"
                => gates[o.gate] \notin {"Fail", "Error", "Started"}
         /\ contract.agent = "Required" /\ agent # "ExitedZero" =>
              /\ agent = "NotObserved"
              /\ \E p \in contract.policies :
                   /\ "agent" \in p.protects
                   /\ policy_results[p.policy] \in {"none", "Denied"}
<1>1. ~AnyError /\ ~AnyFail
  BY VerdictPrecedence
<1>2. ASSUME NEW o \in contract.gates,
             o.requirement = "Required", o.applicability = "Applicable"
      PROVE  gates[o.gate] \notin {"Fail", "Error", "Started"}
  BY <1>1, <1>2 DEF AnyError, AnyFail, RequiredGates, is_required_applicable
<1>3. ASSUME contract.agent = "Required", agent # "ExitedZero"
      PROVE  /\ agent = "NotObserved"
             /\ \E p \in contract.policies :
                  /\ "agent" \in p.protects
                  /\ policy_results[p.policy] \in {"none", "Denied"}
  <2>1. agent = "NotObserved" /\ agent_nonstart_disposition # "Error"
    BY <1>1, <1>3 DEF AnyError, TypeOK, AgentOutcomes
  <2>2. AgentProtectorResults \cap {"Denied", "none"} # {}
    BY <2>1 DEF agent_nonstart_disposition
  <2>3. PICK p \in RequiredPolicies :
          "agent" \in p.protects /\ policy_results[p.policy] \in {"Denied", "none"}
    BY <2>2 DEF AgentProtectorResults
  <2> QED
    BY <2>1, <2>3 DEF RequiredPolicies
<1> QED
  BY <1>2, <1>3

\* RunState::initial satisfies Inv.
LEMMA InitInv == Init => Inv
<1> SUFFICES ASSUME Init PROVE Inv
  OBVIOUS
<1>1. NoContract \in RunContract
  BY DEF NoContract, RunContract
<1>2. TypeOK
  BY <1>1 DEF Init, TypeOK, Verdicts
<1>3. Fresh /\ ContractValid /\ PassMeansDischarged /\ BlockedHidesNothing
  BY DEF Init, Fresh, ContractValid, PassMeansDischarged, BlockedHidesNothing
<1>4. ProtectedOnlyUnderAllowed /\ CandidateEvidenceOrdered
  BY DEF Init, ProtectedOnlyUnderAllowed, CandidateEvidenceOrdered, NoContract
<1> QED
  BY <1>2, <1>3, <1>4 DEF Inv

\* Every action preserves the types.
LEMMA NextTypeOK == TypeOK /\ [Next]_vars => TypeOK'
<1> SUFFICES ASSUME TypeOK, [Next]_vars PROVE TypeOK'
  OBVIOUS
<1> USE DEF TypeOK
<1>1. ASSUME NEW c \in Contracts, NEW a \in Artifacts, RunStarted(c, a)
      PROVE  TypeOK'
  BY <1>1, ContractsAreContracts DEF RunStarted, RunStartedOk
<1>2. ASSUME NEW f \in DOMAIN EvidenceKind, NEW a \in Artifacts,
             EvidenceCaptured(f, a)
      PROVE  TypeOK'
  BY <1>2 DEF EvidenceCaptured, EvidenceOk, EvidenceKind, ReceiptFields
<1>3. ASSUME AgentStarted PROVE TypeOK'
  BY <1>3 DEF AgentStarted, AgentStartedOk
<1>4. ASSUME NEW o \in AgentOutcomes, AgentExited(o) PROVE TypeOK'
  BY <1>4 DEF AgentExited, AgentExitedOk
<1>5. ASSUME NEW p \in Policies, NEW a \in Artifacts, NEW o \in PolicyOutcomes,
             PolicyChecked(p, a, o)
      PROVE  TypeOK'
  BY <1>5 DEF PolicyChecked, PolicyCheckedOk
<1>6. ASSUME NEW g \in Gates, GateStarted(g) PROVE TypeOK'
  BY <1>6 DEF GateStarted, GateStartedOk
<1>7. ASSUME NEW g \in Gates, NEW o \in GateOutcomes,
             NEW log \in Artifacts \cup {"NoLog"}, GateFinished(g, o, log)
      PROVE  TypeOK'
  BY <1>7 DEF GateFinished, GateFinishedOk
<1>8. ASSUME NEW k \in SandboxKeys, NEW a \in Artifacts,
             NEW o \in SandboxOutcomes, SandboxEvidenceCaptured(k, a, o)
      PROVE  TypeOK'
  BY <1>8 DEF SandboxEvidenceCaptured, SandboxEvidenceOk
<1>9. ASSUME NEW a \in Artifacts, CandidateStateCaptured(a) PROVE TypeOK'
  BY <1>9 DEF CandidateStateCaptured, CandidateStateCapturedOk, ReceiptFields
<1>10. ASSUME NEW a \in Artifacts, NEW b \in Artifacts,
              CandidateStateMaterialized(a, b)
       PROVE  TypeOK'
  BY <1>10 DEF CandidateStateMaterialized, CandidateStateMaterializedOk,
               ReceiptFields
<1>11. ASSUME RunSealed PROVE TypeOK'
  BY <1>11, VerdictPrecedence DEF RunSealed, RunSealedOk, Verdicts
<1>12. ASSUME Refuse PROVE TypeOK'
  BY <1>12 DEF Refuse, FailFast, folded
<1>13. ASSUME UNCHANGED vars PROVE TypeOK'
  BY <1>13 DEF vars
<1> QED
  BY <1>1, <1>2, <1>3, <1>4, <1>5, <1>6, <1>7, <1>8, <1>9, <1>10, <1>11, <1>12,
     <1>13 DEF Next, Fold

\* Between RunStarted and the seal a step leaves the contract alone, or is
\* RunStarted itself, before which nothing is folded.
LEMMA NextStructure == Inv /\ [Next]_vars => (Fresh /\ ContractValid)'
<1> SUFFICES ASSUME Inv, [Next]_vars PROVE (Fresh /\ ContractValid)'
  OBVIOUS
<1>1. ASSUME NEW c \in Contracts, NEW a \in Artifacts, RunStarted(c, a)
      PROVE  (Fresh /\ ContractValid)'
  BY <1>1 DEF RunStarted, RunStartedOk, Fresh, ContractValid
<1>2. ASSUME phase \in {"Running", "Sealed"}, contract' = contract,
             phase' \in {"Running", "Sealed"}
      PROVE  (Fresh /\ ContractValid)'
  BY <1>2 DEF Inv, Fresh, ContractValid
<1>3. ASSUME UNCHANGED folded PROVE (Fresh /\ ContractValid)'
  BY <1>3 DEF Inv, Fresh, ContractValid, folded
<1>4. CASE Refuse \/ UNCHANGED vars
  BY <1>3, <1>4 DEF Refuse, FailFast, vars, folded
<1>5. CASE Fold
  BY <1>1, <1>2, <1>5
     DEF Fold, EvidenceCaptured, EvidenceOk, AgentStarted, AgentStartedOk,
         AgentExited, AgentExitedOk, PolicyChecked, PolicyCheckedOk, GateStarted,
         GateStartedOk, GateFinished, GateFinishedOk, SandboxEvidenceCaptured,
         SandboxEvidenceOk, CandidateStateCaptured, CandidateStateCapturedOk,
         CandidateStateMaterialized, CandidateStateMaterializedOk, RunSealed,
         RunSealedOk
<1> QED
  BY <1>4, <1>5 DEF Next

\* A policy result, once there, is never replaced, and a protected subject
\* starts only past check_protected_start: validation made every protecting
\* policy a required one, so the guard looks at all of them.
LEMMA NextProtected == Inv /\ [Next]_vars => ProtectedOnlyUnderAllowed'
<1> SUFFICES ASSUME Inv, [Next]_vars PROVE ProtectedOnlyUnderAllowed'
  OBVIOUS
<1> USE DEF ProtectedOnlyUnderAllowed
<1>1. ASSUME phase = "Running", NEW s, check_protected_start(s),
             NEW p \in contract.policies, s \in p.protects
      PROVE  policy_results[p.policy] = "Allowed"
  <2>1. p.requirement = "Required"
    BY <1>1 DEF Inv, ContractValid, validate_contract, PoliciesWellFormed
  <2> QED
    BY <1>1, <2>1 DEF check_protected_start, RequiredPolicies
<1>2. ASSUME NEW c \in Contracts, NEW a \in Artifacts, RunStarted(c, a)
      PROVE  ProtectedOnlyUnderAllowed'
  BY <1>2 DEF RunStarted, RunStartedOk, Inv, Fresh
<1>3. ASSUME AgentStarted PROVE ProtectedOnlyUnderAllowed'
  BY <1>1, <1>3 DEF AgentStarted, AgentStartedOk, Inv
<1>4. ASSUME NEW o \in AgentOutcomes, AgentExited(o)
      PROVE  ProtectedOnlyUnderAllowed'
  BY <1>4 DEF AgentExited, AgentExitedOk, Inv
<1>5. ASSUME NEW q \in Policies, NEW a \in Artifacts, NEW o \in PolicyOutcomes,
             PolicyChecked(q, a, o)
      PROVE  ProtectedOnlyUnderAllowed'
  <2>1. policy_results[q] = "none" /\ agent' = agent /\ gates' = gates
        /\ contract' = contract
    BY <1>5 DEF PolicyChecked, PolicyCheckedOk
  <2>2. \A p \in Policies :
          policy_results[p] = "Allowed" => policy_results'[p] = "Allowed"
    BY <1>5, <2>1 DEF PolicyChecked, Inv, TypeOK
  <2>3. \A p \in contract.policies : p.policy \in Policies
    BY DEF Inv, TypeOK, RunContract, PolicyObligations
  <2> QED
    BY <2>1, <2>2, <2>3 DEF Inv
<1>6. ASSUME NEW g \in Gates, GateStarted(g) PROVE ProtectedOnlyUnderAllowed'
  BY <1>1, <1>6 DEF GateStarted, GateStartedOk, Inv, TypeOK
<1>7. ASSUME NEW g \in Gates, NEW o \in GateOutcomes,
             NEW log \in Artifacts \cup {"NoLog"}, GateFinished(g, o, log)
      PROVE  ProtectedOnlyUnderAllowed'
  BY <1>7 DEF GateFinished, GateFinishedOk, Inv, TypeOK
<1>8. ASSUME UNCHANGED <<contract, agent, gates, policy_results>>
      PROVE  ProtectedOnlyUnderAllowed'
  BY <1>8 DEF Inv
<1>9. CASE Fold
  BY <1>2, <1>3, <1>4, <1>5, <1>6, <1>7, <1>8, <1>9
     DEF Fold, EvidenceCaptured, SandboxEvidenceCaptured, CandidateStateCaptured,
         CandidateStateMaterialized, RunSealed
<1>10. CASE Refuse \/ UNCHANGED vars
  BY <1>8, <1>10 DEF Refuse, FailFast, vars, folded
<1> QED
  BY <1>9, <1>10 DEF Next

\* Receipts only grow, and an agent outcome is final.
LEMMA NextCandidate == Inv /\ [Next]_vars => CandidateEvidenceOrdered'
<1> SUFFICES ASSUME Inv, [Next]_vars PROVE CandidateEvidenceOrdered'
  OBVIOUS
<1> USE DEF CandidateEvidenceOrdered
<1>1. ASSUME NEW c \in Contracts, NEW a \in Artifacts, RunStarted(c, a)
      PROVE  CandidateEvidenceOrdered'
  BY <1>1 DEF RunStarted, RunStartedOk, Inv, Fresh
<1>2. ASSUME NEW f \in DOMAIN EvidenceKind, NEW a \in Artifacts,
             EvidenceCaptured(f, a)
      PROVE  CandidateEvidenceOrdered'
  BY <1>2 DEF EvidenceCaptured, EvidenceKind, Inv
<1>3. ASSUME AgentStarted PROVE CandidateEvidenceOrdered'
  BY <1>3 DEF AgentStarted, AgentStartedOk, Inv, AgentOutcomes
<1>4. ASSUME NEW o \in AgentOutcomes, AgentExited(o)
      PROVE  CandidateEvidenceOrdered'
  BY <1>4 DEF AgentExited, Inv
<1>5. ASSUME NEW a \in Artifacts, CandidateStateCaptured(a)
      PROVE  CandidateEvidenceOrdered'
  BY <1>5 DEF CandidateStateCaptured, CandidateStateCapturedOk, Inv
<1>6. ASSUME NEW a \in Artifacts, NEW b \in Artifacts,
             CandidateStateMaterialized(a, b)
      PROVE  CandidateEvidenceOrdered'
  BY <1>6 DEF CandidateStateMaterialized, CandidateStateMaterializedOk, Inv
<1>7. ASSUME UNCHANGED <<contract, agent, receipts>>
      PROVE  CandidateEvidenceOrdered'
  BY <1>7 DEF Inv
<1>8. CASE Fold
  BY <1>1, <1>2, <1>3, <1>4, <1>5, <1>6, <1>7, <1>8
     DEF Fold, PolicyChecked, GateStarted, GateFinished,
         SandboxEvidenceCaptured, RunSealed
<1>9. CASE Refuse \/ UNCHANGED vars
  BY <1>7, <1>9 DEF Refuse, FailFast, vars, folded
<1> QED
  BY <1>8, <1>9 DEF Next

\* The verdict is given by RunSealed alone, and no action follows it.
LEMMA NextVerdict ==
  Inv /\ [Next]_vars => (PassMeansDischarged /\ BlockedHidesNothing)'
<1> SUFFICES ASSUME Inv, [Next]_vars
             PROVE  (PassMeansDischarged /\ BlockedHidesNothing)'
  OBVIOUS
<1>1. ASSUME phase # "Sealed", verdict' = verdict
      PROVE  (PassMeansDischarged /\ BlockedHidesNothing)'
  BY <1>1 DEF Inv, TypeOK, PassMeansDischarged, BlockedHidesNothing
<1>2. ASSUME UNCHANGED folded
      PROVE  (PassMeansDischarged /\ BlockedHidesNothing)'
  BY <1>2 DEF Inv, PassMeansDischarged, BlockedHidesNothing, folded
<1>3. ASSUME RunSealed PROVE (PassMeansDischarged /\ BlockedHidesNothing)'
  <2>1. verdict' = compute_verdict
        /\ UNCHANGED <<contract, agent, gates, policy_results,
                       sandbox_evidence, receipts>>
    BY <1>3 DEF RunSealed
  <2>2. PassMeansDischarged'
    <3> SUFFICES ASSUME verdict' = "Pass" PROVE PassMeansDischarged'
      BY DEF PassMeansDischarged
    <3> QED
      BY <2>1, PassDischarges DEF Inv, PassMeansDischarged
  <2>3. BlockedHidesNothing'
    <3> SUFFICES ASSUME verdict' = "Blocked" PROVE BlockedHidesNothing'
      BY DEF BlockedHidesNothing
    <3> QED
      BY <2>1, BlockedIsHonest DEF Inv, BlockedHidesNothing
  <2> QED
    BY <2>2, <2>3
<1>4. CASE Fold
  BY <1>1, <1>3, <1>4
     DEF Fold, RunStarted, RunStartedOk, EvidenceCaptured, EvidenceOk,
         AgentStarted, AgentStartedOk, AgentExited, AgentExitedOk, PolicyChecked,
         PolicyCheckedOk, GateStarted, GateStartedOk, GateFinished,
         GateFinishedOk, SandboxEvidenceCaptured, SandboxEvidenceOk,
         CandidateStateCaptured, CandidateStateCapturedOk,
         CandidateStateMaterialized, CandidateStateMaterializedOk
<1>5. CASE Refuse \/ UNCHANGED vars
  BY <1>2, <1>5 DEF Refuse, FailFast, vars, folded
<1> QED
  BY <1>4, <1>5 DEF Next

\* Every event, folded or refused, preserves Inv.
LEMMA NextInv == Inv /\ [Next]_vars => Inv'
BY NextTypeOK, NextStructure, NextProtected, NextCandidate, NextVerdict DEF Inv

\* Inv holds in every state a fold of events reaches.
LEMMA Invariance == Spec => []Inv
BY InitInv, NextInv, PTL DEF Spec

\* The folded state always has the shape of RunState, and carries a verdict
\* exactly when it is sealed.
THEOREM TypeCorrect == Spec => []TypeOK
<1>1. Inv => TypeOK
  BY DEF Inv
<1> QED
  BY Invariance, <1>1, PTL

\* A Pass verdict of compute_verdict is never a false green.
THEOREM NoFalseGreen == Spec => []PassMeansDischarged
<1>1. Inv => PassMeansDischarged
  BY DEF Inv
<1> QED
  BY Invariance, <1>1, PTL

\* A Blocked verdict never covers a required gate that failed, errored or is
\* unfinished, nor an agent's failure or unexplained non-start.
THEOREM BlockedHonest == Spec => []BlockedHidesNothing
<1>1. Inv => BlockedHidesNothing
  BY DEF Inv
<1> QED
  BY Invariance, <1>1, PTL

\* What a policy protects has run only if that policy allowed it.
THEOREM ProtectionHolds == Spec => []ProtectedOnlyUnderAllowed
<1>1. Inv => ProtectedOnlyUnderAllowed
  BY DEF Inv
<1> QED
  BY Invariance, <1>1, PTL

\* Candidate evidence is captured after what it describes.
THEOREM CandidateOrder == Spec => []CandidateEvidenceOrdered
<1>1. Inv => CandidateEvidenceOrdered
  BY DEF Inv
<1> QED
  BY Invariance, <1>1, PTL

\* reduce() never overwrites evidence it has folded.
THEOREM WriteOnce == Spec => EvidenceWriteOnce
<1>1. TypeOK /\ [Next]_vars => [EvidenceFinal]_vars
  <2> SUFFICES ASSUME TypeOK, [Next]_vars PROVE EvidenceFinal \/ UNCHANGED vars
    OBVIOUS
  <2> USE DEF EvidenceFinal, TypeOK, folded
  <2>1. ASSUME NEW c \in Contracts, NEW a \in Artifacts, RunStarted(c, a)
        PROVE  EvidenceFinal
    BY <2>1 DEF RunStarted, RunStartedOk
  <2>2. ASSUME NEW f \in DOMAIN EvidenceKind, NEW a \in Artifacts,
               EvidenceCaptured(f, a)
        PROVE  EvidenceFinal
    BY <2>2 DEF EvidenceCaptured, EvidenceOk
  <2>3. ASSUME AgentStarted PROVE EvidenceFinal
    BY <2>3 DEF AgentStarted, AgentStartedOk, AgentOutcomes
  <2>4. ASSUME NEW o \in AgentOutcomes, AgentExited(o) PROVE EvidenceFinal
    BY <2>4 DEF AgentExited, AgentExitedOk, AgentOutcomes
  <2>5. ASSUME NEW p \in Policies, NEW a \in Artifacts,
               NEW o \in PolicyOutcomes, PolicyChecked(p, a, o)
        PROVE  EvidenceFinal
    BY <2>5 DEF PolicyChecked, PolicyCheckedOk
  <2>6. ASSUME NEW g \in Gates, GateStarted(g) PROVE EvidenceFinal
    BY <2>6 DEF GateStarted, GateStartedOk, GateOutcomes
  <2>7. ASSUME NEW g \in Gates, NEW o \in GateOutcomes,
               NEW log \in Artifacts \cup {"NoLog"}, GateFinished(g, o, log)
        PROVE  EvidenceFinal
    BY <2>7 DEF GateFinished, GateFinishedOk, GateOutcomes
  <2>8. ASSUME NEW k \in SandboxKeys, NEW a \in Artifacts,
               NEW o \in SandboxOutcomes, SandboxEvidenceCaptured(k, a, o)
        PROVE  EvidenceFinal
    BY <2>8 DEF SandboxEvidenceCaptured, SandboxEvidenceOk
  <2>9. ASSUME NEW a \in Artifacts, CandidateStateCaptured(a)
        PROVE  EvidenceFinal
    BY <2>9 DEF CandidateStateCaptured, CandidateStateCapturedOk
  <2>10. ASSUME NEW a \in Artifacts, NEW b \in Artifacts,
                CandidateStateMaterialized(a, b)
         PROVE  EvidenceFinal
    BY <2>10 DEF CandidateStateMaterialized, CandidateStateMaterializedOk
  <2>11. ASSUME RunSealed PROVE EvidenceFinal
    BY <2>11 DEF RunSealed, RunSealedOk
  <2>12. ASSUME Refuse PROVE EvidenceFinal
    BY <2>12 DEF Refuse, FailFast
  <2> QED
    BY <2>1, <2>2, <2>3, <2>4, <2>5, <2>6, <2>7, <2>8, <2>9, <2>10, <2>11,
       <2>12 DEF Next, Fold
<1> QED
  BY TypeCorrect, <1>1, PTL DEF Spec, EvidenceWriteOnce

-----------------------------------------------------------------------------
(* The line of each writer *)

\* The stage the writer is at, and the stages it has left behind.
Stage == Program[mode][pc]
Past(s) == \E n \in 1 .. (pc - 1) : Program[mode][n] = s

OnLine == /\ mode \in {"live", "continue", "posthoc"}
          /\ pc \in 1 .. Len(Program[mode])

\* What a step does to the position: on by one stage, or not at all.
Moved(s) == /\ alive /\ Stage = s
            /\ OnLine' /\ mode' = mode /\ manifest' = manifest
            /\ \A t : Past(t)' <=> (Past(t) \/ t = s)
Rested == /\ OnLine' /\ mode' = mode /\ manifest' = manifest
          /\ \A t : Past(t)' <=> Past(t)

\* execute_live, stage by stage.
LEMMA LiveLine ==
  /\ Len(Program["live"]) = 17
  /\ Program["live"][1] = "build_contract"
  /\ Program["live"][2] = "ledger_binding"
  /\ Program["live"][3] = "task"
  /\ Program["live"][4] = "RunStarted"
  /\ Program["live"][5] = "attach"
  /\ Program["live"][6] = "AgentStarted"
  /\ Program["live"][7] = "invoke"
  /\ Program["live"][8] = "AgentExited"
  /\ Program["live"][9] = "session_receipt"
  /\ Program["live"][10] = "ProviderSessionCaptured"
  /\ Program["live"][11] = "diff"
  /\ Program["live"][12] = "PatchCaptured"
  /\ Program["live"][13] = "candidate"
  /\ Program["live"][14] = "CandidateStateCaptured"
  /\ Program["live"][15] = "gates"
  /\ Program["live"][16] = "RunSealed"
  /\ Program["live"][17] = "done"
BY DEF Program, Opening, Dispatch, AfterAgent

\* continue_execute, stage by stage.
LEMMA ContinueLine ==
  /\ Len(Program["continue"]) = 21
  /\ Program["continue"][1] = "build_contract"
  /\ Program["continue"][2] = "ledger_binding"
  /\ Program["continue"][3] = "task"
  /\ Program["continue"][4] = "command_binding"
  /\ Program["continue"][5] = "RunStarted"
  /\ Program["continue"][6] = "attach"
  /\ Program["continue"][7] = "CommandBindingCaptured"
  /\ Program["continue"][8] = "parent_candidate"
  /\ Program["continue"][9] = "CandidateStateMaterialized"
  /\ Program["continue"][10] = "AgentStarted"
  /\ Program["continue"][11] = "invoke"
  /\ Program["continue"][12] = "AgentExited"
  /\ Program["continue"][13] = "session_receipt"
  /\ Program["continue"][14] = "ProviderSessionCaptured"
  /\ Program["continue"][15] = "diff"
  /\ Program["continue"][16] = "PatchCaptured"
  /\ Program["continue"][17] = "candidate"
  /\ Program["continue"][18] = "CandidateStateCaptured"
  /\ Program["continue"][19] = "gates"
  /\ Program["continue"][20] = "RunSealed"
  /\ Program["continue"][21] = "done"
BY DEF Program, Opening, Dispatch, AfterAgent

\* execute and build_events, stage by stage.
LEMMA PosthocLine ==
  /\ Len(Program["posthoc"]) = 13
  /\ Program["posthoc"][1] = "build_contract"
  /\ Program["posthoc"][2] = "invoke"
  /\ Program["posthoc"][3] = "task_plain"
  /\ Program["posthoc"][4] = "diff"
  /\ Program["posthoc"][5] = "run_gates"
  /\ Program["posthoc"][6] = "RunStarted"
  /\ Program["posthoc"][7] = "AgentStarted"
  /\ Program["posthoc"][8] = "AgentExited"
  /\ Program["posthoc"][9] = "PatchCaptured"
  /\ Program["posthoc"][10] = "gates"
  /\ Program["posthoc"][11] = "RunSealed"
  /\ Program["posthoc"][12] = "write_text"
  /\ Program["posthoc"][13] = "done"
BY DEF Program

\* No stage occurs twice on a line.
LEMMA Once == ASSUME OnLine PROVE ~Past(Stage)
<1>1. CASE mode = "live"
  BY <1>1, LiveLine DEF OnLine, Past, Stage
<1>2. CASE mode = "continue"
  BY <1>2, ContinueLine DEF OnLine, Past, Stage
<1>3. CASE mode = "posthoc"
  BY <1>3, PosthocLine DEF OnLine, Past, Stage
<1> QED
  BY <1>1, <1>2, <1>3 DEF OnLine

\* The order the three lines share.
LEMMA Order ==
  ASSUME OnLine
  PROVE  /\ Past("RunStarted") \/ Stage = "RunStarted" => Past("build_contract")
         /\ Past("AgentStarted") \/ Stage = "AgentStarted" => Past("RunStarted")
         /\ Past("AgentExited") \/ Stage = "AgentExited"
              => Past("AgentStarted") /\ Past("invoke")
         /\ Past("PatchCaptured") \/ Stage = "PatchCaptured"
              => Past("AgentExited")
         /\ Past("gates") \/ Stage = "gates" => Past("PatchCaptured")
         /\ Past("RunSealed") \/ Stage = "RunSealed" => Past("gates")
<1>1. CASE mode = "live"
  BY <1>1, LiveLine DEF OnLine, Past, Stage
<1>2. CASE mode = "continue"
  BY <1>2, ContinueLine DEF OnLine, Past, Stage
<1>3. CASE mode = "posthoc"
  BY <1>3, PosthocLine DEF OnLine, Past, Stage
<1> QED
  BY <1>1, <1>2, <1>3 DEF OnLine

\* The order of what only the writers with a ledger have, or only the other one.
LEMMA LedgerOrder ==
  ASSUME OnLine
  PROVE  /\ Stage \in {"attach", "ProviderSessionCaptured"}
              => Past("RunStarted")
         /\ Stage = "attach" => mode # "posthoc"
         /\ Stage \in {"ProviderSessionCaptured", "CandidateStateCaptured",
                       "CommandBindingCaptured", "CandidateStateMaterialized"}
              => ~Past("gates")
         /\ Past("ProviderSessionCaptured") => Past("AgentExited")
         /\ Past("CandidateStateCaptured") \/ Stage = "CandidateStateCaptured"
              => Past("PatchCaptured")
         /\ Stage = "run_gates" => ~Past("RunStarted")
         /\ Stage \in {"task_plain", "run_gates", "write_text"}
              => mode = "posthoc"
         /\ mode = "posthoc" /\ Stage = "gates" => Past("run_gates")
<1>1. CASE mode = "live"
  BY <1>1, LiveLine DEF OnLine, Past, Stage
<1>2. CASE mode = "continue"
  BY <1>2, ContinueLine DEF OnLine, Past, Stage
<1>3. CASE mode = "posthoc"
  BY <1>3, PosthocLine DEF OnLine, Past, Stage
<1> QED
  BY <1>1, <1>2, <1>3 DEF OnLine

\* The order of a continuation.
LEMMA ContinueOrder ==
  ASSUME OnLine
  PROVE  /\ Past("CommandBindingCaptured") \/ Stage = "CommandBindingCaptured"
              => mode = "continue" /\ Past("RunStarted")
         /\ Past("parent_candidate") \/ Stage = "parent_candidate"
              => mode = "continue" /\ Past("CommandBindingCaptured")
         /\ Past("CandidateStateMaterialized")
              \/ Stage = "CandidateStateMaterialized"
              => mode = "continue" /\ Past("parent_candidate")
         /\ mode = "continue" =>
              /\ Past("invoke") => Past("AgentStarted")
              /\ Past("AgentStarted") \/ Stage = "AgentStarted"
                   => Past("CandidateStateMaterialized")
              /\ Past("RunStarted") => /\ Past("ledger_binding") /\ Past("task")
                                       /\ Past("command_binding")
<1>1. CASE mode = "live"
  BY <1>1, LiveLine DEF OnLine, Past, Stage
<1>2. CASE mode = "continue"
  BY <1>2, ContinueLine DEF OnLine, Past, Stage
<1>3. CASE mode = "posthoc"
  BY <1>3, PosthocLine DEF OnLine, Past, Stage
<1> QED
  BY <1>1, <1>2, <1>3 DEF OnLine

\* A step to the next stage passes the one it was at, and no other.
LEMMA Moves ==
  ASSUME OnLine, alive, Stage # "done",
         mode' = mode, manifest' = manifest, pc' = pc + 1
  PROVE  Moved(Stage)
<1>1. pc + 1 \in 1 .. Len(Program[mode])
  <2>1. CASE mode = "live"
    BY <2>1, LiveLine DEF OnLine, Stage
  <2>2. CASE mode = "continue"
    BY <2>2, ContinueLine DEF OnLine, Stage
  <2>3. CASE mode = "posthoc"
    BY <2>3, PosthocLine DEF OnLine, Stage
  <2> QED
    BY <2>1, <2>2, <2>3 DEF OnLine
<1>2. OnLine'
  BY <1>1 DEF OnLine
<1>3. \A n : n \in 1 .. (pc' - 1) <=> (n \in 1 .. (pc - 1) \/ n = pc)
  BY <1>1 DEF OnLine
<1> QED
  BY <1>2, <1>3 DEF Past, Stage, Moved

\* A step that stays where it is passes nothing.
LEMMA Rests ==
  ASSUME OnLine, mode' = mode, manifest' = manifest, pc' = pc
  PROVE  Rested
BY DEF OnLine, Past, Rested

\* Without a session id the receipt and its event are passed together.
LEMMA Skips ==
  ASSUME OnLine, mode' = mode, pc' = pc + 2, Stage = "session_receipt"
  PROVE  /\ OnLine'
         /\ \A t : Past(t)' <=> \/ Past(t)
                                \/ t = "session_receipt"
                                \/ t = "ProviderSessionCaptured"
<1>1. /\ pc + 2 \in 1 .. Len(Program[mode])
      /\ Program[mode][pc + 1] = "ProviderSessionCaptured"
  <2>1. CASE mode = "live"
    BY <2>1, LiveLine DEF OnLine, Stage
  <2>2. CASE mode = "continue"
    BY <2>2, ContinueLine DEF OnLine, Stage
  <2>3. CASE mode = "posthoc"
    BY <2>3, PosthocLine DEF OnLine, Stage
  <2> QED
    BY <2>1, <2>2, <2>3 DEF OnLine
<1>2. OnLine'
  BY <1>1 DEF OnLine
<1>3. \A n : n \in 1 .. (pc' - 1)
               <=> (n \in 1 .. (pc - 1) \/ n = pc \/ n = pc + 1)
  BY <1>1 DEF OnLine
<1> QED
  BY <1>1, <1>2, <1>3 DEF Past, Stage

\* The position of every step.
LEMMA StepMoves ==
  ASSUME OnLine
  PROVE  /\ \A s : AppendEvent(s) /\ s # "done" => Moved(s)
         /\ AttachRun => Moved("attach")
         /\ Invoke => Moved("invoke")
         /\ RunGatesDone => Moved("run_gates")
         /\ GatesDone => Moved("gates")
         /\ WriteText => Moved("write_text")
         /\ PlainStage => Moved("task_plain") \/ Moved("diff")
         /\ CheckManifest => Moved("build_contract") \/ Rested
         /\ DurableStage => Moved(Stage)
         /\ RunOneStep => Rested
         /\ SkipStep => Rested
         /\ AppendGateStarted => Rested
         /\ AppendGateFinished => Rested
         /\ Die => Rested
         /\ PowerLoss => Rested
         /\ UNCHANGED allvars => Rested
<1> USE DEF Stays, At, Stage
<1>1. ASSUME NEW s, AppendEvent(s), s # "done" PROVE Moved(s)
  BY <1>1, Moves DEF AppendEvent
<1>2. ASSUME AttachRun PROVE Moved("attach")
  BY <1>2, Moves DEF AttachRun
<1>3. ASSUME Invoke PROVE Moved("invoke")
  BY <1>3, Moves DEF Invoke
<1>4. ASSUME RunGatesDone PROVE Moved("run_gates")
  BY <1>4, Moves DEF RunGatesDone
<1>5. ASSUME GatesDone PROVE Moved("gates")
  BY <1>5, Moves DEF GatesDone
<1>6. ASSUME WriteText PROVE Moved("write_text")
  BY <1>6, Moves DEF WriteText
<1>7. ASSUME PlainStage PROVE Moved("task_plain") \/ Moved("diff")
  BY <1>7, Moves DEF PlainStage
<1>8. ASSUME CheckManifest PROVE Moved("build_contract") \/ Rested
  BY <1>8, Moves, Rests DEF CheckManifest
<1>9. ASSUME DurableStage PROVE Moved(Stage)
  BY <1>9, Moves DEF DurableStage
<1>10. ASSUME RunOneStep PROVE Rested
  BY <1>10, Rests DEF RunOneStep
<1>11. ASSUME SkipStep \/ AppendGateStarted \/ AppendGateFinished PROVE Rested
  BY <1>11, Rests DEF SkipStep, AppendGateStarted, AppendGateFinished
<1>12. ASSUME Die \/ PowerLoss PROVE Rested
  BY <1>12, Rests DEF Die, PowerLoss
<1>13. ASSUME UNCHANGED allvars PROVE Rested
  BY <1>13, Rests DEF allvars, writer
<1> HIDE DEF Stays, At, Stage
<1> QED
  BY <1>1, <1>2, <1>3, <1>4, <1>5, <1>6, <1>7, <1>8, <1>9, <1>10, <1>11, <1>12,
     <1>13

-----------------------------------------------------------------------------
(* The contract of a manifest *)

\* What build_contract puts into each field.
LEMMA Fields ==
  /\ build_contract.agent = "Required"
  /\ build_contract.gates = {Obligation(manifest[i]) : i \in DOMAIN manifest}
  /\ build_contract.policies = {}
  /\ build_contract.sandbox = {}
  /\ build_contract.candidate = IF mode = "posthoc" THEN "none" ELSE "v1"
  /\ build_contract.repeated = FALSE
BY DEF build_contract, NoContract

\* The contract of a manifest is a RunContract.
LEMMA ContractTyped ==
  ASSUME manifest \in Seq(GateStep) PROVE build_contract \in RunContract
<1> DEFINE os == {Obligation(manifest[i]) : i \in DOMAIN manifest}
<1>1. ASSUME NEW i \in DOMAIN manifest
      PROVE  Obligation(manifest[i]) \in GateObligations
  <2>1. manifest[i] \in GateStep
    OBVIOUS
  <2> QED
    BY <2>1 DEF Obligation, GateObligations, GateStep, Requirements,
                Applicabilities
<1>2. os \subseteq GateObligations
  BY <1>1
<1> HIDE DEF os
<1>3. build_contract =
        [NoContract EXCEPT !.agent = "Required", !.gates = os,
           !.candidate = IF mode = "posthoc" THEN "none" ELSE "v1"]
  BY DEF os, build_contract
<1> QED
  BY <1>2, <1>3 DEF NoContract, RunContract

\* A manifest that GateManifest::validate accepts makes a contract that
\* validate_contract accepts.
LEMMA ContractAccepted ==
  ASSUME manifest \in Seq(GateStep), validate(manifest)
  PROVE  validate_contract(build_contract)
<1>1. \A i, j \in DOMAIN manifest : manifest[i].name = manifest[j].name => i = j
  BY DEF validate
<1>2. GatesWellFormed(build_contract)
  BY <1>1, Fields DEF GatesWellFormed, Obligation
<1> QED
  BY <1>2, Fields DEF validate_contract, PoliciesWellFormed, SandboxWellFormed

-----------------------------------------------------------------------------
(* The inductive invariant *)

\* Types, and a position on the line.
Typed ==
  /\ OnLine
  /\ TypeOK
  /\ manifest \in Seq(GateStep)
  /\ steps \in Seq(GateOutcomes)
  /\ emitted \in Nat
  /\ disk \in [Files -> FileStates]

\* Nothing is refused, and the folded state is what the stages behind the
\* writer make of it.
Folded ==
  /\ ~refused
  /\ Past("build_contract") => validate(manifest)
  /\ phase = "NotStarted" <=> ~Past("RunStarted")
  /\ phase = "Sealed" <=> Past("RunSealed")
  /\ Past("RunStarted") => contract = build_contract
  /\ ~Past("AgentStarted") => agent = "NotObserved"
  /\ Past("AgentStarted") /\ ~Past("AgentExited") => agent = "Started"
  /\ Past("AgentExited") => agent = outcome

\* A receipt is there when its event is behind the writer; the session event is
\* the one that may be passed without being appended.
Captured ==
  /\ "command_binding" \in receipts <=> Past("CommandBindingCaptured")
  /\ "candidate_materialized" \in receipts
       <=> Past("CandidateStateMaterialized")
  /\ "provider_session_receipt" \in receipts => Past("ProviderSessionCaptured")
  /\ "patch" \in receipts <=> Past("PatchCaptured")
  /\ "candidate_state" \in receipts <=> Past("CandidateStateCaptured")

\* The provider's outcome, and the ledger row.
Ran ==
  /\ invoked <=> Past("invoke")
  /\ Past("invoke") => outcome \in {"ExitedZero", "Fault"}
  /\ attached => Past("RunStarted") /\ mode # "posthoc"

\* The verdicts of the steps, and how far their events have come.
StepProgress ==
  /\ emitted <= Len(steps) /\ Len(steps) <= Len(manifest)
  /\ \A i \in 1 .. Len(steps) : steps[i] \in StepVerdicts(manifest[i])
  /\ open_gate => emitted < Len(manifest) /\ ~manifest[emitted + 1].windows
  /\ emitted > 0 \/ open_gate => Past("PatchCaptured")
  /\ Past("run_gates") => Len(steps) = Len(manifest)
  /\ Past("gates") => emitted = Len(manifest)

\* What the fold knows of a gate is how far its step has come.
GateProgress ==
  /\ \A i \in DOMAIN manifest :
       LET g == manifest[i].name IN
       /\ i <= emitted /\ ~manifest[i].windows => gates[g] = steps[i]
       /\ i <= emitted /\ manifest[i].windows => gates[g] = "none"
       /\ i = emitted + 1 => gates[g] = IF open_gate THEN "Started" ELSE "none"
       /\ i > emitted + 1 => gates[g] = "none"
  /\ ~Past("PatchCaptured") => \A g \in Gates : gates[g] = "none"

\* What is on disk: the files a continuation has passed are there to stay, and so
\* is the record once parent_candidate is written, whose sync_dir covers the
\* entry that the first append left unsynced.
OnDisk ==
  /\ mode # "posthoc" /\ Past("RunStarted") => disk["events"] # "absent"
  /\ mode = "continue" =>
       /\ \A f \in {"ledger_binding", "task", "command_binding",
                    "parent_candidate"} : Past(f) => disk[f] = "durable"
       /\ Past("parent_candidate") => disk["events"] = "durable"
       /\ ~Past("RunStarted") /\ ~torn => disk["events"] = "absent"
       /\ alive => disk["events"] \in {"absent", "synced", "durable"}

WriterInv == Typed /\ Folded /\ Captured /\ Ran /\ StepProgress /\ GateProgress
             /\ OnDisk /\ PassMeansStepsRan

-----------------------------------------------------------------------------
(* Every event is accepted *)

\* The steps that append no event.
Quiet ==
  \/ CheckManifest \/ DurableStage \/ PlainStage \/ SessionReceipt \/ WriteText
  \/ AttachRun \/ Invoke \/ RunOneStep \/ RunGatesDone \/ SkipStep \/ GatesDone
  \/ Die \/ PowerLoss \/ UNCHANGED allvars

\* One of the three captures, folded.
Evidence(stage, field, kind) ==
  AppendEvent(stage) /\ EvidenceCaptured(field, kind)

\* The steps that append one, which reduce() then folds.
Appended ==
  \/ AppendRunStarted /\ RunStarted(build_contract, "Task")
  \/ Evidence("CommandBindingCaptured", "command_binding", "CommandBinding")
  \/ Evidence("ProviderSessionCaptured", "provider_session_receipt",
              "ProviderSession")
  \/ Evidence("PatchCaptured", "patch", "Diff")
  \/ /\ AppendMaterialized
     /\ CandidateStateMaterialized("CandidateState", "CandidatePatch")
  \/ AppendAgentStarted /\ AgentStarted
  \/ AppendAgentExited /\ AgentExited(outcome)
  \/ AppendCandidateState /\ CandidateStateCaptured("CandidateState")
  \/ AppendRunSealed /\ RunSealed
  \/ AppendGateStarted /\ GateStarted(manifest[emitted + 1].name)
  \/ /\ AppendGateFinished
     /\ GateFinished(manifest[emitted + 1].name, steps[emitted + 1], "GateLog")

\* The three captures: each comes between RunStarted and RunSealed, once.
LEMMA EvidenceAccepted ==
  ASSUME WriterInv, AppendEvidence
  PROVE  Appended
<1> DEFINE es ==
      {<<"CommandBindingCaptured", "command_binding", "CommandBinding">>,
       <<"ProviderSessionCaptured", "provider_session_receipt",
         "ProviderSession">>,
       <<"PatchCaptured", "patch", "Diff">>}
<1>1. PICK e \in es :
        /\ AppendEvent(e[1])
        /\ Emit(EvidenceOk(e[2], e[3]), EvidenceCaptured(e[2], e[3]))
  BY DEF AppendEvidence
<1>2. OnLine /\ ~refused /\ TypeOK
  BY DEF WriterInv, Typed, Folded
<1>3. Moved(e[1]) /\ Stage = e[1]
  BY <1>1, <1>2, StepMoves DEF Moved
<1>4. phase = "Running" /\ EvidenceOk(e[2], e[3])
  <2>1. Past("RunStarted") /\ ~Past("RunSealed") /\ ~Past(e[1])
    BY <1>2, <1>3, Order, LedgerOrder, ContinueOrder, Once
  <2>2. phase = "Running"
    BY <1>2, <2>1 DEF WriterInv, Folded, TypeOK
  <2> QED
    BY <2>1, <2>2 DEF EvidenceOk, EvidenceKind, validate_artifact, WriterInv,
                      Captured
<1>5. EvidenceCaptured(e[2], e[3])
  BY <1>1, <1>2, <1>4 DEF Emit
<1> QED
  BY <1>1, <1>5 DEF Appended, Evidence

\* The two events of a gate: the contract has it, and it is where its step is.
LEMMA GatesAccepted ==
  ASSUME WriterInv, AppendGateStarted \/ AppendGateFinished
  PROVE  /\ AppendGateStarted => GateStarted(manifest[emitted + 1].name)
         /\ AppendGateFinished =>
              GateFinished(manifest[emitted + 1].name, steps[emitted + 1],
                           "GateLog")
<1> DEFINE g == manifest[emitted + 1].name
<1>1. OnLine /\ ~refused /\ TypeOK /\ Stage = "gates"
      /\ manifest \in Seq(GateStep) /\ emitted \in Nat
  BY DEF WriterInv, Typed, Folded, AppendGateStarted, AppendGateFinished, At,
         Stage
<1>2. Past("RunStarted") /\ ~Past("RunSealed")
  BY <1>1, Order, Once
<1>3. phase = "Running" /\ contract = build_contract
  BY <1>1, <1>2 DEF WriterInv, Folded, TypeOK
<1>4. emitted < Len(manifest)
  BY <1>1 DEF AppendGateStarted, GateStartDue, AppendGateFinished, WriterInv,
              StepProgress, Typed
<1>5. emitted + 1 \in DOMAIN manifest
  BY <1>1, <1>4
<1>6. KnownGate(contract, g) /\ check_protected_start(g)
  <2>1. Obligation(manifest[emitted + 1]) \in contract.gates
        /\ contract.policies = {}
    BY <1>3, <1>5, Fields
  <2>2. Obligation(manifest[emitted + 1]).gate = g
    BY DEF Obligation
  <2> QED
    BY <2>1, <2>2 DEF KnownGate, check_protected_start, RequiredPolicies
<1>7. gates[g] = IF open_gate THEN "Started" ELSE "none"
  BY <1>1, <1>5 DEF WriterInv, GateProgress
<1> HIDE DEF g
<1>8. ASSUME AppendGateStarted PROVE GateStarted(g)
  <2>1. Emit(GateStartedOk(g), GateStarted(g)) /\ ~open_gate
    BY <1>8 DEF AppendGateStarted, GateStartDue, g
  <2>2. GateStartedOk(g)
    BY <1>3, <1>6, <1>7, <2>1 DEF GateStartedOk
  <2> QED
    BY <1>1, <2>1, <2>2 DEF Emit
<1>9. ASSUME AppendGateFinished
      PROVE  GateFinished(g, steps[emitted + 1], "GateLog")
  <2>1. Emit(GateFinishedOk(g, "GateLog"),
             GateFinished(g, steps[emitted + 1], "GateLog")) /\ open_gate
    BY <1>9 DEF AppendGateFinished, g
  <2>2. GateFinishedOk(g, "GateLog")
    BY <1>3, <1>6, <1>7, <2>1 DEF GateFinishedOk, validate_artifact
  <2> QED
    BY <1>1, <2>1, <2>2 DEF Emit
<1> QED
  BY <1>8, <1>9 DEF g

\* No step appends an event that reduce() refuses.
LEMMA EventsAccepted ==
  ASSUME WriterInv, WriterNext \/ UNCHANGED allvars
  PROVE  Quiet \/ Appended
<1>1. OnLine /\ ~refused /\ TypeOK /\ manifest \in Seq(GateStep)
  BY DEF WriterInv, Typed, Folded
<1> USE DEF validate_artifact
<1>2. CASE AppendRunStarted
  <2>1. Moved("RunStarted") /\ Stage = "RunStarted"
    BY <1>1, <1>2, StepMoves DEF Moved, AppendRunStarted
  <2>2. validate_contract(build_contract) /\ phase = "NotStarted"
    BY <1>1, <2>1, Order, Once, ContractAccepted DEF WriterInv, Folded
  <2>3. RunStarted(build_contract, "Task")
    BY <1>1, <1>2, <2>2 DEF AppendRunStarted, Emit, RunStartedOk
  <2> QED
    BY <1>2, <2>3 DEF Appended
<1>3. ASSUME Past("RunStarted"), ~Past("RunSealed")
      PROVE  /\ phase = "Running" /\ contract.agent = "Required"
             /\ contract.policies = {}
  BY <1>1, <1>3, Fields DEF WriterInv, Folded, TypeOK
<1>4. CASE AppendMaterialized
  <2>1. Moved("CandidateStateMaterialized")
        /\ Stage = "CandidateStateMaterialized"
    BY <1>1, <1>4, StepMoves DEF Moved, AppendMaterialized
  <2>2. CandidateStateMaterializedOk("CandidateState", "CandidatePatch")
    BY <1>1, <1>3, <2>1, Order, LedgerOrder, ContinueOrder, Once
       DEF WriterInv, Folded, Captured, CandidateStateMaterializedOk
  <2> QED
    BY <1>1, <1>4, <2>2 DEF AppendMaterialized, Emit, Appended
<1>5. CASE AppendAgentStarted
  <2>1. Moved("AgentStarted") /\ Stage = "AgentStarted"
    BY <1>1, <1>5, StepMoves DEF Moved, AppendAgentStarted
  <2>2. AgentStartedOk
    BY <1>1, <1>3, <2>1, Order, LedgerOrder, ContinueOrder, Once
       DEF WriterInv, Folded, Captured, AgentStartedOk, check_protected_start,
           RequiredPolicies
  <2> QED
    BY <1>1, <1>5, <2>2 DEF AppendAgentStarted, Emit, Appended
<1>6. CASE AppendAgentExited
  <2>1. Moved("AgentExited") /\ Stage = "AgentExited"
    BY <1>1, <1>6, StepMoves DEF Moved, AppendAgentExited
  <2>2. AgentExitedOk(outcome)
    BY <1>1, <1>3, <2>1, Order, Once DEF WriterInv, Folded, AgentExitedOk
  <2> QED
    BY <1>1, <1>6, <2>2 DEF AppendAgentExited, Emit, Appended
<1>7. CASE AppendCandidateState
  <2>1. Moved("CandidateStateCaptured") /\ Stage = "CandidateStateCaptured"
    BY <1>1, <1>7, StepMoves DEF Moved, AppendCandidateState
  <2>2. CandidateStateCapturedOk("CandidateState")
    BY <1>1, <1>3, <2>1, Order, LedgerOrder, Once
       DEF WriterInv, Folded, Captured, Ran, CandidateStateCapturedOk,
           AgentOutcomes
  <2> QED
    BY <1>1, <1>7, <2>2 DEF AppendCandidateState, Emit, Appended
<1>8. CASE AppendRunSealed
  <2>1. Moved("RunSealed") /\ Stage = "RunSealed"
    BY <1>1, <1>8, StepMoves DEF Moved, AppendRunSealed
  <2>2. RunSealedOk
    BY <1>1, <1>3, <2>1, Order, Once DEF RunSealedOk
  <2> QED
    BY <1>1, <1>8, <2>2 DEF AppendRunSealed, Emit, Appended
<1>9. CASE AppendEvidence
  BY <1>9, EvidenceAccepted
<1>10. CASE AppendGateStarted \/ AppendGateFinished
  BY <1>10, GatesAccepted DEF Appended
<1>11. CASE Quiet
  BY <1>11
<1> QED
  BY <1>2, <1>4, <1>5, <1>6, <1>7, <1>8, <1>9, <1>10, <1>11
     DEF WriterNext, Quiet

-----------------------------------------------------------------------------
(* Every step preserves the invariant *)

\* What a quiet step leaves alone.
LEMMA QuietFold ==
  ASSUME Quiet PROVE UNCHANGED vars
BY DEF Quiet, CheckManifest, DurableStage, PlainStage, SessionReceipt, WriteText,
       AttachRun, Invoke, RunOneStep, RunGatesDone, SkipStep, GatesDone, Die,
       PowerLoss, allvars

\* No step goes back, and none changes the mode or the manifest.
LEMMA StepMonotone ==
  ASSUME OnLine, WriterNext \/ UNCHANGED allvars
  PROVE  /\ OnLine' /\ mode' = mode /\ manifest' = manifest
         /\ \A t : Past(t) => Past(t)'
<1>1. CASE SessionReceipt
  <2>1. /\ Stage = "session_receipt" /\ alive /\ mode' = mode
        /\ manifest' = manifest /\ (pc' = pc + 1 \/ pc' = pc + 2)
    BY <1>1 DEF SessionReceipt, At, Stage, Stays
  <2> QED
    BY <2>1, Moves, Skips DEF Moved
<1>2. CASE ~SessionReceipt
  BY <1>2, StepMoves
     DEF WriterNext, Moved, Rested, AppendRunStarted, AppendEvidence,
         AppendMaterialized, AppendAgentStarted, AppendAgentExited,
         AppendCandidateState, AppendRunSealed
<1> QED
  BY <1>1, <1>2

\* The gate whose event is due, and the verdict it gets.
LEMMA DueGate ==
  ASSUME WriterInv
  PROVE  /\ AppendGateStarted \/ AppendGateFinished =>
              /\ Stage = "gates" /\ emitted + 1 \in DOMAIN manifest
              /\ manifest[emitted + 1] \in GateStep
              /\ manifest[emitted + 1].name \in Gates
              /\ ~manifest[emitted + 1].windows
         /\ AppendGateFinished =>
              /\ emitted + 1 \in DOMAIN steps
              /\ steps[emitted + 1] \in {"Pass", "Fail", "Error"}
<1>1. /\ OnLine /\ manifest \in Seq(GateStep) /\ steps \in Seq(GateOutcomes)
      /\ emitted \in Nat /\ emitted <= Len(steps) /\ Len(steps) <= Len(manifest)
  BY DEF WriterInv, Typed, StepProgress
<1>2. ASSUME AppendGateStarted \/ AppendGateFinished
      PROVE  Stage = "gates" /\ emitted < Len(manifest)
  BY <1>1, <1>2 DEF AppendGateStarted, GateStartDue, AppendGateFinished, At, Stage
<1>3. ASSUME emitted < Len(manifest)
      PROVE  /\ emitted + 1 \in DOMAIN manifest
             /\ manifest[emitted + 1] \in GateStep
             /\ manifest[emitted + 1].name \in Gates
  <2>1. emitted + 1 \in DOMAIN manifest
    BY <1>1, <1>3
  <2>2. manifest[emitted + 1] \in GateStep
    BY <1>1, <2>1
  <2> QED
    BY <2>1, <2>2 DEF GateStep
<1>4. ASSUME AppendGateFinished
      PROVE  /\ emitted + 1 \in DOMAIN steps
             /\ ~manifest[emitted + 1].windows
             /\ steps[emitted + 1] \in {"Pass", "Fail", "Error"}
  <2>1. emitted + 1 \in 1 .. Len(steps) /\ open_gate
    BY <1>1, <1>4 DEF AppendGateFinished
  <2> QED
    BY <1>1, <2>1 DEF WriterInv, StepProgress, StepVerdicts
<1>5. ASSUME AppendGateStarted PROVE ~manifest[emitted + 1].windows
  <2>1. CASE mode # "posthoc"
    BY <1>5, <2>1 DEF AppendGateStarted, GateStartDue
  <2>2. CASE mode = "posthoc"
    <3>1. Len(steps) = Len(manifest) /\ emitted < Len(manifest)
      BY <1>1, <1>2, <1>5, <2>2, LedgerOrder DEF WriterInv, StepProgress
    <3>2. emitted + 1 \in 1 .. Len(steps)
      BY <1>1, <3>1
    <3>3. steps[emitted + 1] \in StepVerdicts(manifest[emitted + 1])
      BY <3>2 DEF WriterInv, StepProgress
    <3> QED
      BY <1>5, <2>2, <3>3 DEF AppendGateStarted, GateStartDue, StepVerdicts
  <2> QED
    BY <2>1, <2>2
<1> QED
  BY <1>2, <1>3, <1>4, <1>5

\* Every step preserves the types.
LEMMA NextTyped ==
  ASSUME WriterInv, WriterNext \/ UNCHANGED allvars PROVE Typed'
<1>1. OnLine' /\ manifest' = manifest
  BY StepMonotone DEF WriterInv, Typed
<1>2. TypeOK'
  <2>1. CASE Quiet
    BY <2>1, QuietFold DEF WriterInv, Typed, TypeOK, vars
  <2>2. CASE RunStarted(build_contract, "Task")
    BY <2>2, ContractTyped DEF WriterInv, Typed, TypeOK, RunStarted, RunStartedOk
  <2>3. CASE Appended /\ ~RunStarted(build_contract, "Task")
    <3> USE DEF TypeOK
    <3>1. /\ TypeOK
          /\ Past("AgentExited") \/ Stage = "AgentExited"
               => outcome \in AgentOutcomes
      BY Order DEF WriterInv, Typed, Ran, AgentOutcomes
    <3>2. ASSUME NEW s, NEW f \in ReceiptFields, NEW k, Evidence(s, f, k)
          PROVE  TypeOK'
      BY <3>1, <3>2 DEF Evidence, EvidenceCaptured
    <3>3. ASSUME AppendAgentExited, AgentExited(outcome) PROVE TypeOK'
      BY <3>1, <3>3 DEF AgentExited, AgentExitedOk, AppendAgentExited,
                        AppendEvent, At, Stage
    <3>4. ASSUME AppendGateStarted, GateStarted(manifest[emitted + 1].name)
          PROVE  TypeOK'
      BY <3>1, <3>4, DueGate DEF GateStarted
    <3>5. ASSUME AppendGateFinished,
                 GateFinished(manifest[emitted + 1].name, steps[emitted + 1],
                              "GateLog")
          PROVE  TypeOK'
      BY <3>1, <3>5, DueGate DEF GateFinished, GateOutcomes
    <3>6. ASSUME RunSealed PROVE TypeOK'
      BY <3>1, <3>6, VerdictPrecedence DEF RunSealed, RunSealedOk, Verdicts
    <3>7. ASSUME \/ CandidateStateMaterialized("CandidateState",
                                               "CandidatePatch")
                 \/ CandidateStateCaptured("CandidateState")
                 \/ AgentStarted
          PROVE  TypeOK'
      BY <3>1, <3>7 DEF CandidateStateMaterialized, CandidateStateCaptured,
                        AgentStarted, ReceiptFields
    <3> QED
      BY <2>3, <3>2, <3>3, <3>4, <3>5, <3>6, <3>7 DEF Appended, ReceiptFields
  <2> QED
    BY <2>1, <2>2, <2>3, EventsAccepted
<1>3. steps' \in Seq(GateOutcomes)
  <2>1. CASE RunOneStep
    <3>1. PICK v \in StepVerdicts(manifest[Len(steps) + 1]) :
            steps' = Append(steps, v)
      BY <2>1 DEF RunOneStep
    <3>2. v \in GateOutcomes
      BY <3>1 DEF StepVerdicts, GateOutcomes
    <3> QED
      BY <3>1, <3>2 DEF WriterInv, Typed
  <2>2. CASE ~RunOneStep
    <3>1. steps' = steps
      BY <2>2 DEF WriterNext, CheckManifest, DurableStage, PlainStage,
         SessionReceipt, WriteText, AppendRunStarted, AppendEvidence,
         AppendMaterialized, AppendAgentStarted, AppendAgentExited,
         AppendCandidateState, AppendRunSealed, AppendEvent, AttachRun, Invoke,
         RunGatesDone, SkipStep, AppendGateStarted, AppendGateFinished,
         GatesDone, Die, PowerLoss, allvars, writer
    <3> QED
      BY <3>1 DEF WriterInv, Typed
  <2> QED
    BY <2>1, <2>2
<1>4. emitted' \in Nat
  BY DEF WriterInv, Typed, WriterNext, CheckManifest, DurableStage, PlainStage,
         SessionReceipt, WriteText, AppendRunStarted, AppendEvidence,
         AppendMaterialized, AppendAgentStarted, AppendAgentExited,
         AppendCandidateState, AppendRunSealed, AppendEvent, AttachRun, Invoke,
         RunOneStep, RunGatesDone, SkipStep, AppendGateStarted,
         AppendGateFinished, GatesDone, Die, PowerLoss, allvars, writer
<1>5. disk' \in [Files -> FileStates]
  <2>1. disk \in [Files -> FileStates]
    BY DEF WriterInv, Typed
  <2> USE <2>1 DEF FileStates
  <2>2. ASSUME EventsAppended PROVE disk' \in [Files -> FileStates]
    BY <2>2 DEF EventsAppended
  <2>3. CASE DurableStage
    BY <2>3 DEF DurableStage, WriteDurable, sync_dir
  <2>4. CASE PowerLoss
    BY <2>4 DEF PowerLoss
  <2>5. CASE PlainStage \/ SessionReceipt \/ WriteText \/ RunOneStep \/ Die
    BY <2>5 DEF PlainStage, SessionReceipt, WriteText, RunOneStep, Die
  <2> QED
    BY <2>2, <2>3, <2>4, <2>5
       DEF WriterNext, CheckManifest, AppendRunStarted, AppendEvidence,
         AppendMaterialized, AppendAgentStarted, AppendAgentExited,
         AppendCandidateState, AppendRunSealed, AppendEvent, AttachRun, Invoke,
         RunGatesDone, SkipStep, AppendGateStarted,
         AppendGateFinished, GatesDone, allvars, writer
<1> QED
  BY <1>1, <1>2, <1>3, <1>4, <1>5 DEF Typed, WriterInv

\* The events that are always appended where they are due.
Noted == {"RunStarted", "CommandBindingCaptured", "CandidateStateMaterialized",
          "AgentStarted", "AgentExited", "PatchCaptured",
          "CandidateStateCaptured", "RunSealed"}

\* A quiet step passes no event but that of a session id that is not there, and
\* the provider's outcome is settled before its exit is recorded.
LEMMA QuietPast ==
  ASSUME OnLine, Quiet
  PROVE  /\ \A t \in Noted : Past(t)' <=> Past(t)
         /\ Past("build_contract")' => Past("build_contract") \/ validate(manifest)
         /\ Past("AgentExited") => outcome' = outcome
<1> USE DEF Noted
<1>1. CASE SessionReceipt
  <2>1. /\ Stage = "session_receipt" /\ alive
        /\ mode' = mode /\ outcome' = outcome
        /\ manifest' = manifest /\ (pc' = pc + 1 \/ pc' = pc + 2)
    BY <1>1 DEF SessionReceipt, At, Stage, Stays
  <2> QED
    BY <2>1, Moves, Skips DEF Moved
<1>2. CASE CheckManifest
  <2>1. (Moved("build_contract") /\ validate(manifest)) \/ Rested
    BY <1>2, StepMoves, Rests DEF CheckManifest
  <2> QED
    BY <1>2, <2>1 DEF CheckManifest, Moved, Rested
<1>3. CASE DurableStage
  <2>1. /\ Stage \in {"ledger_binding", "task", "command_binding",
                      "parent_candidate", "candidate"}
        /\ outcome' = outcome
    BY <1>3 DEF DurableStage, At, Stage
  <2>2. Moved(Stage)
    BY <1>3, StepMoves
  <2> QED
    BY <2>1, <2>2 DEF Moved
<1>4. CASE Invoke
  <2>1. Moved("invoke") /\ ~Past("AgentExited")
    BY <1>4, StepMoves, Order, Once DEF Moved
  <2> QED
    BY <2>1 DEF Moved
<1>5. CASE PlainStage \/ WriteText \/ AttachRun \/ RunGatesDone \/ GatesDone
  <2>1. outcome' = outcome
    BY <1>5 DEF PlainStage, WriteText, AttachRun, RunGatesDone, GatesDone
  <2> QED
    BY <1>5, <2>1, StepMoves DEF Moved
<1>6. CASE RunOneStep \/ SkipStep \/ Die \/ PowerLoss \/ UNCHANGED allvars
  <2>1. outcome' = outcome
    BY <1>6 DEF RunOneStep, SkipStep, Die, PowerLoss, allvars, writer
  <2> QED
    BY <1>6, <2>1, StepMoves DEF Rested
<1> QED
  BY <1>1, <1>2, <1>3, <1>4, <1>5, <1>6 DEF Quiet

\* An event that is appended is the one the writer has then passed.
LEMMA AppendPast ==
  ASSUME OnLine
  PROVE  /\ AppendRunStarted => Moved("RunStarted")
         /\ AppendMaterialized => Moved("CandidateStateMaterialized")
         /\ AppendAgentStarted => Moved("AgentStarted")
         /\ AppendAgentExited => Moved("AgentExited")
         /\ AppendCandidateState => Moved("CandidateStateCaptured")
         /\ AppendRunSealed => Moved("RunSealed")
         /\ \A s \in Noted \cup {"ProviderSessionCaptured"} :
              \A f, k : Evidence(s, f, k) => Moved(s)
BY StepMoves DEF AppendRunStarted, AppendMaterialized, AppendAgentStarted,
   AppendAgentExited, AppendCandidateState, AppendRunSealed, Evidence, Noted

\* An append leaves the outcome, the provider and the ledger row alone.
LEMMA AppendedKeeps ==
  ASSUME Appended
  PROVE  outcome' = outcome /\ invoked' = invoked /\ attached' = attached
BY DEF Appended, AppendRunStarted, AppendMaterialized, AppendAgentStarted,
   AppendAgentExited, AppendCandidateState, AppendRunSealed, Evidence,
   AppendEvent, AppendGateStarted, AppendGateFinished

\* Each event moves the fold as far as it moves the writer.
LEMMA NextFolded ==
  ASSUME WriterInv, WriterNext \/ UNCHANGED allvars
  PROVE  (Folded /\ Captured)'
<1>1. OnLine /\ OnLine' /\ mode' = mode /\ manifest' = manifest
  BY StepMonotone DEF WriterInv, Typed
<1>2. build_contract' = build_contract
  BY <1>1 DEF build_contract
<1>3. CASE Quiet
  <2>1. Folded'
    BY <1>1, <1>2, <1>3, QuietFold, QuietPast, Order
       DEF WriterInv, Folded, vars, Noted
  <2>2. Captured'
    <3>1. \A t : Past(t) => Past(t)'
      BY <1>1, StepMonotone
    <3> QED
      BY <1>1, <1>3, <3>1, QuietFold, QuietPast
         DEF WriterInv, Captured, vars, Noted
  <2> QED
    BY <2>1, <2>2
<1> USE Order, Once, AppendPast DEF Noted
<1>4. CASE AppendRunStarted /\ RunStarted(build_contract, "Task")
  BY <1>1, <1>2, <1>4, AppendedKeeps
     DEF Moved, RunStarted, RunStartedOk, WriterInv, Folded, Captured, Appended
<1>5. CASE Evidence("CommandBindingCaptured", "command_binding", "CommandBinding")
  BY <1>1, <1>2, <1>5, AppendedKeeps
     DEF Moved, Evidence, EvidenceCaptured, WriterInv, Folded, Captured, Appended
<1>6. CASE Evidence("ProviderSessionCaptured", "provider_session_receipt",
              "ProviderSession")
  BY <1>1, <1>2, <1>6, AppendedKeeps
     DEF Moved, Evidence, EvidenceCaptured, WriterInv, Folded, Captured, Appended
<1>7. CASE Evidence("PatchCaptured", "patch", "Diff")
  BY <1>1, <1>2, <1>7, AppendedKeeps
     DEF Moved, Evidence, EvidenceCaptured, WriterInv, Folded, Captured, Appended
<1>8. CASE /\ AppendMaterialized
           /\ CandidateStateMaterialized("CandidateState", "CandidatePatch")
  BY <1>1, <1>2, <1>8, AppendedKeeps
     DEF Moved, CandidateStateMaterialized, WriterInv, Folded, Captured, Appended
<1>9. CASE AppendAgentStarted /\ AgentStarted
  BY <1>1, <1>2, <1>9, AppendedKeeps
     DEF Moved, AgentStarted, WriterInv, Folded, Captured, Appended
<1>10. CASE AppendAgentExited /\ AgentExited(outcome)
  BY <1>1, <1>2, <1>10, AppendedKeeps
     DEF Moved, AgentExited, WriterInv, Folded, Captured, Appended
<1>11. CASE AppendCandidateState /\ CandidateStateCaptured("CandidateState")
  BY <1>1, <1>2, <1>11, AppendedKeeps
     DEF Moved, CandidateStateCaptured, WriterInv, Folded, Captured, Appended
<1>12. CASE AppendRunSealed /\ RunSealed
  BY <1>1, <1>2, <1>12, AppendedKeeps
     DEF Moved, RunSealed, RunSealedOk, WriterInv, Folded, Captured, Appended
<1>13. CASE AppendGateStarted /\ GateStarted(manifest[emitted + 1].name)
  BY <1>1, <1>2, <1>13, AppendedKeeps, StepMoves
     DEF Rested, GateStarted, WriterInv, Folded, Captured, Appended
<1>14. CASE /\ AppendGateFinished
            /\ GateFinished(manifest[emitted + 1].name, steps[emitted + 1],
                            "GateLog")
  BY <1>1, <1>2, <1>14, AppendedKeeps, StepMoves
     DEF Rested, GateFinished, WriterInv, Folded, Captured, Appended
<1> QED
  BY <1>3, <1>4, <1>5, <1>6, <1>7, <1>8, <1>9, <1>10, <1>11, <1>12, <1>13, <1>14,
     EventsAccepted DEF Appended

\* The steps that pass a stage.
LEMMA PassedBy ==
  ASSUME OnLine, WriterNext \/ UNCHANGED allvars
  PROVE  /\ Past("invoke")' => Past("invoke") \/ Invoke
         /\ Past("run_gates")' => Past("run_gates") \/ RunGatesDone
         /\ Past("gates")' => Past("gates") \/ GatesDone
         /\ Past("RunStarted")' => Past("RunStarted") \/ AppendRunStarted
         /\ \A f \in {"ledger_binding", "task", "command_binding",
                      "parent_candidate"} :
              Past(f)' => Past(f) \/ (DurableStage /\ Stage = f)
<1>1. CASE SessionReceipt
  <2>1. /\ Stage = "session_receipt" /\ alive /\ mode' = mode
        /\ manifest' = manifest /\ (pc' = pc + 1 \/ pc' = pc + 2)
    BY <1>1 DEF SessionReceipt, At, Stage, Stays
  <2> QED
    BY <2>1, Moves, Skips DEF Moved
<1>2. CASE DurableStage
  <2>1. Stage \in {"ledger_binding", "task", "command_binding",
                   "parent_candidate", "candidate"}
    BY <1>2 DEF DurableStage, At, Stage
  <2> QED
    BY <1>2, <2>1, StepMoves DEF Moved
<1>3. CASE ~SessionReceipt /\ ~DurableStage
  BY <1>3, StepMoves
     DEF WriterNext, Moved, Rested, AppendRunStarted, AppendEvidence,
         AppendMaterialized, AppendAgentStarted, AppendAgentExited,
         AppendCandidateState, AppendRunSealed
<1> QED
  BY <1>1, <1>2, <1>3

\* The provider starts and the row is attached at their own stages.
LEMMA NextRan ==
  ASSUME WriterInv, WriterNext \/ UNCHANGED allvars
  PROVE  Ran'
<1>1. /\ OnLine /\ OnLine' /\ mode' = mode /\ manifest' = manifest
      /\ \A t : Past(t) => Past(t)'
  BY StepMonotone DEF WriterInv, Typed
<1>2. CASE Invoke
  <2>1. Moved("invoke")
    BY <1>1, <1>2, StepMoves
  <2> QED
    BY <1>1, <1>2, <2>1 DEF Invoke, Moved, WriterInv, Ran
<1>3. CASE ~Invoke
  <2>1. invoked' = invoked /\ outcome' = outcome
    BY <1>3 DEF WriterNext, CheckManifest, DurableStage, PlainStage,
         SessionReceipt, WriteText, AppendRunStarted, AppendEvidence,
         AppendMaterialized, AppendAgentStarted, AppendAgentExited,
         AppendCandidateState, AppendRunSealed, AppendEvent, AttachRun,
         RunOneStep, RunGatesDone, SkipStep, AppendGateStarted, AppendGateFinished,
         GatesDone, Die, PowerLoss, allvars, writer
  <2>2. attached' => (Past("RunStarted") /\ mode # "posthoc")
    <3>1. CASE AttachRun
      BY <1>1, <3>1, StepMoves, LedgerOrder DEF Moved
    <3>2. CASE ~AttachRun
      <4>1. attached' = attached
        BY <1>3, <3>2 DEF WriterNext, CheckManifest, DurableStage, PlainStage,
         SessionReceipt, WriteText, AppendRunStarted, AppendEvidence,
         AppendMaterialized, AppendAgentStarted, AppendAgentExited,
         AppendCandidateState, AppendRunSealed, AppendEvent,
         RunOneStep, RunGatesDone, SkipStep, AppendGateStarted, AppendGateFinished,
         GatesDone, Die, PowerLoss, allvars, writer
      <4> QED
        BY <4>1 DEF WriterInv, Ran
    <3> QED
      BY <3>1, <3>2
  <2>3. Past("invoke")' <=> Past("invoke")
    BY <1>1, <1>3, PassedBy
  <2> QED
    BY <1>1, <2>1, <2>2, <2>3 DEF WriterInv, Ran
<1> QED
  BY <1>2, <1>3

\* Only four steps touch the verdicts and their events.
LEMMA StepsRest ==
  ASSUME WriterNext \/ UNCHANGED allvars,
         ~(RunOneStep \/ SkipStep \/ AppendGateStarted \/ AppendGateFinished)
  PROVE  steps' = steps /\ emitted' = emitted /\ open_gate' = open_gate
BY DEF WriterNext, CheckManifest, DurableStage, PlainStage, SessionReceipt,
       WriteText, AppendRunStarted, AppendEvidence, AppendMaterialized,
       AppendAgentStarted, AppendAgentExited, AppendCandidateState,
       AppendRunSealed, AppendEvent, AttachRun, Invoke, RunGatesDone, GatesDone,
       Die, PowerLoss, allvars, writer

\* Verdicts are taken, and their events appended, at two stages.
LEMMA GateStepsAt ==
  ASSUME RunOneStep \/ SkipStep \/ AppendGateStarted \/ AppendGateFinished
  PROVE  Stage \in {"gates", "run_gates"}
BY DEF RunOneStep, SkipStep, AppendGateStarted, AppendGateFinished, At, Stage

\* Verdicts come in the order of the manifest, and their events after them.
LEMMA NextSteps ==
  ASSUME WriterInv, WriterNext \/ UNCHANGED allvars
  PROVE  StepProgress'
<1>1. /\ OnLine /\ OnLine' /\ mode' = mode /\ manifest' = manifest
      /\ \A t : Past(t) => Past(t)'
  BY StepMonotone DEF WriterInv, Typed
<1>2. /\ manifest \in Seq(GateStep) /\ steps \in Seq(GateOutcomes)
      /\ emitted \in Nat /\ StepProgress
  BY DEF WriterInv, Typed
<1>3. CASE RunOneStep
  <2>1. /\ Rested /\ ~Past("run_gates") /\ emitted' = emitted
        /\ open_gate' = open_gate /\ Len(steps) < Len(manifest)
    BY <1>1, <1>2, <1>3, StepMoves DEF RunOneStep, StepProgress
  <2>2. PICK v \in StepVerdicts(manifest[Len(steps) + 1]) :
          steps' = Append(steps, v)
    BY <1>3 DEF RunOneStep
  <2>3. /\ Len(steps') = Len(steps) + 1
        /\ \A i \in 1 .. Len(steps) : steps'[i] = steps[i]
        /\ steps'[Len(steps) + 1] = v
    BY <1>2, <2>2
  <2>4. \A i \in 1 .. Len(steps') : steps'[i] \in StepVerdicts(manifest[i])
    <3> SUFFICES ASSUME NEW i \in 1 .. Len(steps')
                 PROVE  steps'[i] \in StepVerdicts(manifest[i])
      OBVIOUS
    <3>1. CASE i \in 1 .. Len(steps)
      BY <1>2, <2>3, <3>1 DEF StepProgress
    <3>2. CASE i = Len(steps) + 1
      BY <2>2, <2>3, <3>2
    <3> QED
      BY <1>2, <2>3, <3>1, <3>2
  <2>5. \A i : StepVerdicts(manifest[i])' = StepVerdicts(manifest[i])
    BY <1>1 DEF StepVerdicts, Waived
  <2> QED
    BY <1>1, <1>2, <2>1, <2>3, <2>4, <2>5 DEF StepProgress, Rested
<1>4. CASE SkipStep \/ AppendGateStarted \/ AppendGateFinished
  <2>1. Rested /\ steps' = steps /\ Stage = "gates"
    BY <1>1, <1>4, StepMoves
       DEF SkipStep, AppendGateStarted, AppendGateFinished, At, Stage
  <2>2. Past("PatchCaptured") /\ ~Past("gates")
    BY <1>1, <2>1, Order, Once
  <2>3. \/ /\ open_gate' = open_gate /\ ~open_gate
           /\ emitted' = emitted + 1 /\ emitted < Len(steps)
        \/ /\ open_gate' = TRUE /\ ~manifest[emitted + 1].windows
           /\ emitted' = emitted /\ emitted < Len(manifest)
        \/ /\ open_gate' = FALSE
           /\ emitted' = emitted + 1 /\ emitted < Len(steps)
    BY <1>4, DueGate DEF SkipStep, AppendGateStarted, AppendGateFinished,
                         GateStartDue
  <2> QED
    BY <1>1, <1>2, <2>1, <2>2, <2>3 DEF StepProgress, Rested, StepVerdicts, Waived
<1>5. CASE ~(RunOneStep \/ SkipStep \/ AppendGateStarted \/ AppendGateFinished)
  <2>1. steps' = steps /\ emitted' = emitted /\ open_gate' = open_gate
    BY <1>5, StepsRest
  <2>2. Past("run_gates")' => Len(steps) = Len(manifest)
    <3>1. CASE RunGatesDone
      BY <3>1 DEF RunGatesDone
    <3>2. CASE ~RunGatesDone
      BY <1>1, <1>2, <3>2, PassedBy DEF StepProgress
    <3> QED
      BY <3>1, <3>2
  <2>3. Past("gates")' => emitted = Len(manifest)
    <3>1. CASE GatesDone
      BY <3>1 DEF GatesDone
    <3>2. CASE ~GatesDone
      BY <1>1, <1>2, <3>2, PassedBy DEF StepProgress
    <3> QED
      BY <3>1, <3>2
  <2> QED
    BY <1>1, <1>2, <2>1, <2>2, <2>3 DEF StepProgress, StepVerdicts, Waived
<1> QED
  BY <1>3, <1>4, <1>5


\* An event touches the gate of its own step alone: validate made the names
\* distinct.
LEMMA NextGates ==
  ASSUME WriterInv, WriterNext \/ UNCHANGED allvars
  PROVE  GateProgress'
<1>1. /\ OnLine /\ OnLine' /\ mode' = mode /\ manifest' = manifest
      /\ \A t : Past(t) => Past(t)'
  BY StepMonotone DEF WriterInv, Typed
<1>2. /\ manifest \in Seq(GateStep) /\ steps \in Seq(GateOutcomes)
      /\ emitted \in Nat /\ StepProgress /\ GateProgress
      /\ gates \in [Gates -> {"none", "Started"} \cup GateOutcomes]
  BY DEF WriterInv, Typed, TypeOK
<1>3. ASSUME NEW i \in DOMAIN manifest PROVE manifest[i].name \in Gates
  <2>1. manifest[i] \in GateStep
    BY <1>2
  <2> QED
    BY <2>1 DEF GateStep
<1>4. ASSUME UNCHANGED <<gates, emitted, open_gate>>,
             \A i \in 1 .. emitted : steps'[i] = steps[i]
      PROVE  GateProgress'
  BY <1>1, <1>2, <1>4 DEF GateProgress
<1>5. CASE RunOneStep
  <2>1. UNCHANGED <<gates, emitted, open_gate>>
    BY <1>5 DEF RunOneStep, vars
  <2>2. \A i \in 1 .. Len(steps) : steps'[i] = steps[i]
    BY <1>2, <1>5 DEF RunOneStep
  <2> QED
    BY <1>2, <1>4, <2>1, <2>2 DEF StepProgress
<1>6. CASE SkipStep
  <2>1. /\ UNCHANGED <<gates, steps, open_gate>> /\ ~open_gate
        /\ emitted' = emitted + 1 /\ emitted < Len(steps)
        /\ steps[emitted + 1] \in {"Blocked", "NotApplicable"}
    BY <1>6 DEF SkipStep, vars
  <2>2. emitted + 1 \in 1 .. Len(steps)
    BY <1>2, <2>1
  <2>3. manifest[emitted + 1].windows
    BY <1>2, <2>1, <2>2 DEF StepProgress, StepVerdicts
  <2> QED
    BY <1>1, <1>2, <2>1, <2>2, <2>3 DEF GateProgress
<1>7. ASSUME AppendGateStarted \/ AppendGateFinished
      PROVE  /\ emitted + 1 \in DOMAIN manifest
             /\ manifest[emitted + 1].name \in Gates
             /\ ~manifest[emitted + 1].windows
             /\ \A i \in DOMAIN manifest :
                  i # emitted + 1 => manifest[i].name # manifest[emitted + 1].name
             /\ Past("PatchCaptured")
  <2>1. Past("PatchCaptured") /\ Past("build_contract")
    BY <1>1, <1>7, DueGate, Order
  <2> QED
    BY <1>7, <2>1, DueGate DEF WriterInv, Folded, validate
<1>8. CASE AppendGateStarted /\ GateStarted(manifest[emitted + 1].name)
  <2>1. /\ UNCHANGED <<steps, emitted>> /\ open_gate' = TRUE
        /\ gates' = [gates EXCEPT ![manifest[emitted + 1].name] = "Started"]
    BY <1>8 DEF AppendGateStarted, GateStarted
  <2>2. \A i \in DOMAIN manifest : i # emitted + 1 =>
          gates'[manifest[i].name] = gates[manifest[i].name]
    BY <1>2, <1>3, <1>7, <1>8, <2>1
  <2>3. gates'[manifest[emitted + 1].name] = "Started"
    BY <1>2, <1>7, <1>8, <2>1
  <2> QED
    BY <1>1, <1>2, <1>7, <1>8, <2>1, <2>2, <2>3 DEF GateProgress
<1>9. CASE AppendGateFinished
           /\ GateFinished(manifest[emitted + 1].name, steps[emitted + 1],
                           "GateLog")
  <2>1. /\ steps' = steps /\ emitted' = emitted + 1 /\ open_gate' = FALSE
        /\ gates' = [gates EXCEPT ![manifest[emitted + 1].name] = steps[emitted + 1]]
    BY <1>9 DEF AppendGateFinished, GateFinished
  <2>2. \A i \in DOMAIN manifest : i # emitted + 1 =>
          gates'[manifest[i].name] = gates[manifest[i].name]
    BY <1>2, <1>3, <1>7, <1>9, <2>1
  <2>3. gates'[manifest[emitted + 1].name] = steps[emitted + 1]
    BY <1>2, <1>7, <1>9, <2>1
  <2> QED
    BY <1>1, <1>2, <1>7, <1>9, <2>1, <2>2, <2>3 DEF GateProgress
<1>10. CASE ~(RunOneStep \/ SkipStep \/ AppendGateStarted \/ AppendGateFinished)
  <2>1. steps' = steps /\ emitted' = emitted /\ open_gate' = open_gate
    BY <1>10, StepsRest
  <2>2. gates' = gates
    BY <1>10, EventsAccepted, QuietFold
       DEF Appended, Evidence, RunStarted, EvidenceCaptured,
           CandidateStateMaterialized, AgentStarted, AgentExited,
           CandidateStateCaptured, RunSealed, vars
  <2> QED
    BY <1>4, <2>1, <2>2
<1> QED
  BY <1>5, <1>6, <1>8, <1>9, <1>10, GatesAccepted

\* The stages OnDisk speaks of, and the events after the first.
Kept == {"RunStarted", "ledger_binding", "task", "command_binding",
         "parent_candidate"}
Later == {"CommandBindingCaptured", "CandidateStateMaterialized", "AgentStarted",
          "AgentExited", "ProviderSessionCaptured", "PatchCaptured",
          "CandidateStateCaptured", "RunSealed"}

\* Every event but the first comes after it.
LEMMA LaterOrder ==
  ASSUME OnLine, Stage \in Later \cup {"gates"} PROVE Past("RunStarted")
<1>1. CASE mode = "live"
  BY <1>1, LiveLine DEF OnLine, Past, Stage, Later
<1>2. CASE mode = "continue"
  BY <1>2, ContinueLine DEF OnLine, Past, Stage, Later
<1>3. CASE mode = "posthoc"
  BY <1>3, PosthocLine DEF OnLine, Past, Stage, Later
<1> QED
  BY <1>1, <1>2, <1>3 DEF OnLine

\* What a continuation has passed stays on disk: a durable file is not rewritten,
\* and neither a death nor a power failure takes it.
LEMMA NextOnDisk ==
  ASSUME WriterInv, WriterNext \/ UNCHANGED allvars
  PROVE  OnDisk'
<1>1. /\ OnLine /\ OnLine' /\ mode' = mode
      /\ \A t : Past(t) => Past(t)'
  BY StepMonotone DEF WriterInv, Typed
<1>2. disk \in [Files -> FileStates] /\ OnDisk
  BY DEF WriterInv, Typed
<1> USE DEF Files
<1>3. CASE DurableStage
  <2>1. PICK f \in {"ledger_binding", "task", "command_binding",
                    "parent_candidate", "candidate"} :
          Stage = f /\ alive /\ WriteDurable(f) /\ alive' = alive /\ torn' = torn
    BY <1>3 DEF DurableStage, At, Stage, Stays
  <2>2. /\ \A h \in Files : disk'[h] = IF h = f \/ disk[h] = "synced"
                                       THEN "durable" ELSE disk[h]
    BY <1>2, <2>1 DEF WriteDurable, sync_dir
  <2>3. \A t : Past(t)' <=> (Past(t) \/ t = f)
    BY <1>1, <1>3, <2>1, StepMoves DEF Moved
  <2>4. mode = "continue" /\ f = "parent_candidate" => Past("RunStarted")
    BY <1>1, <2>1, ContinueOrder
  <2> QED
    BY <1>1, <1>2, <2>1, <2>2, <2>3, <2>4 DEF OnDisk
<1>4. CASE PowerLoss
  <2>1. /\ alive' = FALSE /\ torn' = torn
        /\ \A h \in Files : /\ disk[h] \in {"absent", "durable"} => disk'[h] = disk[h]
                            /\ disk[h] # "absent" => disk'[h] # "absent"
    BY <1>2, <1>4 DEF PowerLoss
  <2>2. Rested
    BY <1>1, <1>4, StepMoves
  <2> QED
    BY <1>1, <1>2, <2>1, <2>2 DEF OnDisk, Rested
<1>5. CASE Die
  <2>1. /\ alive' = FALSE /\ (torn' = torn \/ torn' = TRUE)
        /\ (disk' = disk \/ (/\ torn' = TRUE /\ disk["events"] = "absent"
                             /\ disk' = [disk EXCEPT !["events"] = "cached"]))
    BY <1>5 DEF Die
  <2>2. Rested
    BY <1>1, <1>5, StepMoves
  <2> QED
    BY <1>1, <1>2, <2>1, <2>2 DEF OnDisk, Rested
<1>6. ASSUME NEW f \in Files,
             \/ mode = "posthoc"
             \/ f \notin {"events", "ledger_binding", "task", "command_binding",
                          "parent_candidate"},
             \A h \in Files : h # f => disk'[h] = disk[h],
             disk'["events"] = disk["events"] \/ mode = "posthoc",
             torn' = torn, alive' => alive, \A t \in Kept : Past(t)' <=> Past(t)
      PROVE  OnDisk'
  BY <1>1, <1>2, <1>6 DEF OnDisk, Kept
<1>7. CASE PlainStage
  <2> DEFINE f == IF Stage = "diff" THEN "diff" ELSE "task"
  <2>1. /\ torn' = torn /\ alive' = alive
        /\ Stage \in {"task_plain", "diff"}
        /\ \A h \in Files : h # f => disk'[h] = disk[h]
    BY <1>2, <1>7 DEF PlainStage, At, Stage, Stays
  <2>2. \A t \in Kept : Past(t)' <=> Past(t)
    BY <1>1, <1>7, <2>1, StepMoves DEF Moved, Kept
  <2>3. f = "diff" \/ (f = "task" /\ mode = "posthoc")
    BY <1>1, <2>1, LedgerOrder
  <2> HIDE DEF f
  <2> QED
    BY <1>6, <2>1, <2>2, <2>3
<1>8. CASE SessionReceipt
  <2>1. /\ torn' = torn /\ alive' = alive /\ Stage = "session_receipt" /\ alive
        /\ mode' = mode /\ manifest' = manifest /\ (pc' = pc + 1 \/ pc' = pc + 2)
        /\ \A h \in Files : h # "session_receipt" => disk'[h] = disk[h]
    BY <1>2, <1>8 DEF SessionReceipt, At, Stage, Stays
  <2>2. \A t \in Kept : Past(t)' <=> Past(t)
    BY <1>1, <2>1, Moves, Skips DEF Moved, Kept
  <2> QED
    BY <1>6, <2>1, <2>2
<1>9. CASE WriteText
  <2>1. /\ torn' = torn /\ alive' = alive
        /\ \A h \in Files : h # "events" => disk'[h] = disk[h]
    BY <1>2, <1>9 DEF WriteText, Stays
  <2>2. mode = "posthoc" /\ \A t \in Kept : Past(t)' <=> Past(t)
    BY <1>1, <1>9, StepMoves, LedgerOrder DEF Moved, Kept
  <2> QED
    BY <1>6, <2>1, <2>2
<1>10. CASE RunOneStep
  <2>1. /\ torn' = torn /\ alive' = alive
        /\ \A h \in Files : h # "gate_log" => disk'[h] = disk[h]
    BY <1>2, <1>10 DEF RunOneStep, Stays
  <2>2. \A t \in Kept : Past(t)' <=> Past(t)
    BY <1>1, <1>10, StepMoves DEF Rested
  <2> QED
    BY <1>6, <2>1, <2>2
<1>11. CASE AppendRunStarted
  <2>1. /\ torn' = torn /\ alive' = alive /\ alive
        /\ \A h \in Files : h # "events" => disk'[h] = disk[h]
        /\ mode # "posthoc" => 
             disk'["events"] = IF disk["events"] = "absent" THEN "synced" ELSE disk["events"]
    BY <1>2, <1>11 DEF AppendRunStarted, AppendEvent, At, EventsAppended, Stays
  <2> QED
    BY <1>1, <1>2, <1>11, <2>1, AppendPast DEF OnDisk, Moved
<1>12. ASSUME \/ AppendGateStarted \/ AppendGateFinished
              \/ \E s \in Later : AppendEvent(s)
       PROVE  OnDisk'
  <2>1. /\ torn' = torn /\ alive' = alive /\ EventsAppended
        /\ Stage \in Later \cup {"gates"}
    BY <1>12 DEF AppendGateStarted, AppendGateFinished, AppendEvent, At, Stage,
                 Stays
  <2>2. Past("RunStarted")
    BY <1>1, <2>1, LaterOrder
  <2>3. disk' = disk
    BY <1>1, <1>2, <2>1, <2>2 DEF EventsAppended, OnDisk
  <2>4. \A t \in Kept : Past(t)' <=> Past(t)
    BY <1>1, <1>12, StepMoves DEF Moved, Rested, Kept, Later
  <2> QED
    BY <1>6, <2>1, <2>3, <2>4
<1>13. CASE \/ CheckManifest \/ AttachRun \/ Invoke \/ RunGatesDone \/ SkipStep
            \/ GatesDone \/ UNCHANGED allvars
  <2>1. torn' = torn /\ disk' = disk /\ (alive' => alive)
    BY <1>13 DEF CheckManifest, AttachRun, Invoke, RunGatesDone, SkipStep,
                 GatesDone, Stays, allvars, writer
  <2>2. \A t \in Kept : Past(t)' <=> Past(t)
    BY <1>1, <1>13, StepMoves DEF Moved, Rested, Kept
  <2> QED
    BY <1>6, <2>1, <2>2
<1> QED
  BY <1>3, <1>4, <1>5, <1>7, <1>8, <1>9, <1>10, <1>11, <1>12, <1>13
     DEF WriterNext, AppendEvidence, AppendMaterialized, AppendAgentStarted,
         AppendAgentExited, AppendCandidateState, AppendRunSealed, Later

\* The verdict is given once, when every step has its event.
LEMMA NextPass ==
  ASSUME WriterInv, WriterNext \/ UNCHANGED allvars
  PROVE  PassMeansStepsRan'
<1>1. /\ OnLine /\ TypeOK /\ manifest' = manifest /\ mode' = mode
      /\ manifest \in Seq(GateStep) /\ steps \in Seq(GateOutcomes)
      /\ emitted \in Nat
  BY StepMonotone DEF WriterInv, Typed
<1>2. CASE AppendRunSealed /\ RunSealed
  <2>1. steps' = steps /\ outcome' = outcome /\ verdict' = compute_verdict
    BY <1>2 DEF AppendRunSealed, AppendEvent, RunSealed
  <2>2. /\ Past("gates") /\ Past("AgentExited") /\ Past("RunStarted")
        /\ Past("PatchCaptured")
    <3>1. Stage = "RunSealed"
      BY <1>1, <1>2, AppendPast DEF Moved
    <3> QED
      BY <1>1, <3>1, Order
  <2>3. emitted = Len(manifest) /\ Len(steps) = Len(manifest)
    BY <1>1, <2>2 DEF WriterInv, StepProgress
  <2>4. agent = outcome /\ contract = build_contract
    BY <2>2 DEF WriterInv, Folded
  <2> SUFFICES ASSUME compute_verdict = "Pass" PROVE PassMeansStepsRan'
    BY <2>1 DEF PassMeansStepsRan
  <2>5. /\ agent = "ExitedZero"
        /\ \A o \in contract.gates :
             o.requirement = "Required" /\ o.applicability = "Applicable"
               => gates[o.gate] \in {"Pass", "Warn"}
    BY <1>1, <2>4, Fields, PassDischarges
  <2>6. ASSUME NEW i \in DOMAIN manifest, manifest[i].required
        PROVE  i <= Len(steps) /\ (steps[i] = "Pass" \/ Waived(manifest[i]))
    <3>1. i <= Len(steps) /\ i <= emitted /\ i \in 1 .. Len(steps)
      BY <1>1, <2>3
    <3> SUFFICES ASSUME ~Waived(manifest[i]) PROVE steps[i] = "Pass"
      BY <3>1
    <3>2. Obligation(manifest[i]) \in contract.gates
      BY <2>4, Fields
    <3>3. gates[manifest[i].name] \in {"Pass", "Warn"}
      BY <2>5, <2>6, <3>2 DEF Obligation
    <3>4. ~manifest[i].windows /\ gates[manifest[i].name] = steps[i]
      BY <1>1, <3>1, <3>3 DEF WriterInv, GateProgress
    <3>5. steps[i] \in StepVerdicts(manifest[i])
      BY <3>1 DEF WriterInv, StepProgress
    <3> QED
      BY <3>3, <3>4, <3>5 DEF StepVerdicts
  <2>7. outcome = "ExitedZero"
    BY <2>4, <2>5
  <2> QED
    BY <1>1, <2>1, <2>6, <2>7 DEF PassMeansStepsRan, Waived
<1>3. CASE ~(AppendRunSealed /\ RunSealed) /\ phase # "Sealed"
  <2>1. verdict' = verdict
    BY <1>3, EventsAccepted, QuietFold
       DEF Appended, Evidence, RunStarted, EvidenceCaptured,
           CandidateStateMaterialized, AgentStarted, AgentExited,
           CandidateStateCaptured, GateStarted, GateFinished, vars
  <2> QED
    BY <1>1, <1>3, <2>1 DEF TypeOK, PassMeansStepsRan
<1>4. CASE phase = "Sealed"
  <2>1. Past("RunSealed")
    BY <1>4 DEF WriterInv, Folded
  <2>2. Quiet
    <3>1. ~Appended
      BY <1>4 DEF Appended, Evidence, RunStarted, RunStartedOk, EvidenceCaptured,
         EvidenceOk, CandidateStateMaterialized, CandidateStateMaterializedOk,
         AgentStarted, AgentStartedOk, AgentExited, AgentExitedOk,
         CandidateStateCaptured, CandidateStateCapturedOk, RunSealed, RunSealedOk,
         GateStarted, GateStartedOk, GateFinished, GateFinishedOk
    <3> QED
      BY <3>1, EventsAccepted
  <2>3. verdict' = verdict
    BY <2>2, QuietFold DEF vars
  <2>4. Past("AgentExited") /\ Stage # "run_gates" /\ Stage # "gates"
    BY <1>1, <2>1, Order, Once, LedgerOrder
  <2>5. outcome' = outcome
    BY <1>1, <2>2, <2>4, QuietPast
  <2>6. steps' = steps
    BY <1>1, <2>4, StepsRest, GateStepsAt
  <2> QED
    BY <1>1, <2>3, <2>5, <2>6 DEF WriterInv, PassMeansStepsRan, Waived
<1> QED
  BY <1>2, <1>3, <1>4

\* A writer at its first stage.
LEMMA WriterInitInv == WriterInit => WriterInv
<1> SUFFICES ASSUME WriterInit PROVE WriterInv
  OBVIOUS
<1> USE DEF WriterInit
<1>1. Typed
  <2>1. TypeOK
    BY InitInv DEF Inv
  <2>2. OnLine
    <3>1. mode \in {"live", "continue", "posthoc"} /\ pc = 1
      BY ModesAreWriters
    <3>2. /\ 1 \in 1 .. Len(Program["live"]) /\ 1 \in 1 .. Len(Program["continue"])
          /\ 1 \in 1 .. Len(Program["posthoc"])
      <4>1. Len(Program["live"]) = 17
        BY LiveLine
      <4>2. Len(Program["posthoc"]) = 13
        BY PosthocLine
      <4>3. Len(Program["continue"]) = 21
        BY ContinueLine
      <4> QED
        BY <4>1, <4>2, <4>3
    <3> QED
      BY <3>1, <3>2 DEF OnLine
  <2>3. manifest \in Seq(GateStep) /\ steps \in Seq(GateOutcomes)
    BY ManifestsAreManifests
  <2> QED
    BY <2>1, <2>2, <2>3 DEF Typed, FileStates
<1>2. \A t : ~Past(t)
  BY DEF Past
<1>3. Folded /\ Captured /\ Ran
  BY <1>2 DEF Init, Folded, Captured, Ran
<1>4. StepProgress
  BY <1>1, <1>2 DEF Typed, StepProgress
<1>5. GateProgress
  <2>1. \A i \in DOMAIN manifest : i >= 1 /\ manifest[i].name \in Gates
    <3> SUFFICES ASSUME NEW i \in DOMAIN manifest
                 PROVE  i >= 1 /\ manifest[i].name \in Gates
      OBVIOUS
    <3>1. manifest[i] \in GateStep /\ i >= 1
      BY <1>1 DEF Typed
    <3> QED
      BY <3>1 DEF GateStep
  <2> QED
    BY <2>1 DEF Init, GateProgress
<1>6. OnDisk
  BY <1>2 DEF OnDisk, Files
<1>7. PassMeansStepsRan
  BY DEF Init, PassMeansStepsRan
<1> QED
  BY <1>1, <1>3, <1>4, <1>5, <1>6, <1>7 DEF WriterInv

\* The invariant holds in every state of every writer.
LEMMA WriterInvariance == WriterSpec => []WriterInv
<1>1. WriterInv /\ [WriterNext]_allvars => WriterInv'
  BY NextTyped, NextFolded, NextRan, NextSteps, NextGates, NextOnDisk, NextPass
     DEF WriterInv
<1> QED
  BY WriterInitInv, <1>1, PTL DEF WriterSpec

\* No writer appends an event that reduce() refuses, for any valid or invalid
\* manifest and any outcome, and no ledger row is attached ahead of RunStarted.
THEOREM TheRecordLeads == WriterSpec => []RecordLeads
<1>1. WriterInv => RecordLeads
  BY DEF WriterInv, Folded, Ran, OnDisk, RecordLeads, RecordAccepted, RowHasRecord
<1> QED
  BY WriterInvariance, <1>1, PTL

\* A continuation that has started its provider is never found Absent or
\* PreDispatch by classify_command_child, whatever a crash or a power failure left.
THEOREM OneProviderStart == WriterSpec => []NeverRedrivenOnceInvoked
<1>1. WriterInv => NeverRedrivenOnceInvoked
  <2> SUFFICES ASSUME WriterInv, mode = "continue", invoked
               PROVE  classify_command_child \notin {"Absent", "PreDispatch"}
    BY DEF NeverRedrivenOnceInvoked
  <2>1. OnLine /\ Past("invoke")
    BY DEF WriterInv, Typed, Ran
  <2>2. Past("AgentStarted") /\ Past("parent_candidate")
    BY <2>1, ContinueOrder
  <2>3. Intact("events")
    BY <2>2 DEF WriterInv, OnDisk, Intact
  <2>4. dispatch_progress
    BY <2>1, <2>2 DEF WriterInv, Folded, Ran, dispatch_progress
  <2> QED
    BY <2>3, <2>4 DEF classify_command_child
<1> QED
  BY WriterInvariance, <1>1, PTL

\* A continuation that ended before AgentStarted, with no torn line, can be
\* redriven under the same key (continue_execute).
THEOREM RedrivableUntilDispatch ==
  WriterSpec => []DeadBeforeDispatchIsRedrivable
<1>1. WriterInv => DeadBeforeDispatchIsRedrivable
  <2> SUFFICES ASSUME WriterInv, mode = "continue", ~torn, agent = "NotObserved",
                      Intact("events")
               PROVE  classify_command_child = "PreDispatch"
    BY DEF DeadBeforeDispatchIsRedrivable, classify_command_child
  <2>1. OnLine
    BY DEF WriterInv, Typed
  <2>2. ~Past("AgentStarted")
    <3>1. ~Past("AgentExited") => ~Past("AgentStarted")
      BY DEF WriterInv, Folded
    <3>2. ~Past("AgentExited")
      BY <2>1, Order DEF WriterInv, Folded, Ran
    <3> QED
      BY <3>1, <3>2
  <2>3. Past("RunStarted")
    BY DEF WriterInv, OnDisk, Intact
  <2>4. /\ ~Past("PatchCaptured") /\ ~Past("RunSealed")
        /\ ~Past("CandidateStateCaptured") /\ ~Past("ProviderSessionCaptured")
    BY <2>1, <2>2, Order, LedgerOrder
  <2>5. ~dispatch_progress /\ phase # "Sealed" /\ ~refused
    BY <2>4 DEF WriterInv, Folded, Captured, GateProgress, dispatch_progress
  <2>6. /\ disk["ledger_binding"] = "durable" /\ disk["task"] = "durable"
        /\ disk["command_binding"] = "durable"
        /\ "candidate_materialized" \in receipts =>
             disk["parent_candidate"] = "durable"
    BY <2>1, <2>3, ContinueOrder DEF WriterInv, OnDisk, Captured
  <2>7. /\ ~\E g \in Gates : gates[g] \in GateOutcomes
        /\ "provider_session_receipt" \notin receipts /\ "patch" \notin receipts
        /\ "candidate_state" \notin receipts
    BY <2>4 DEF WriterInv, GateProgress, Captured, GateOutcomes
  <2>8. \A f \in Referenced \cup {"ledger_binding", "command_binding"} : Intact(f)
    BY <2>6, <2>7 DEF Referenced, Intact
  <2> QED
    BY <2>5, <2>8 DEF classify_command_child
<1> QED
  BY WriterInvariance, <1>1, PTL

\* A Pass in the record of any writer means that the provider exited with code 0
\* and that every required step of the manifest ran and passed, or was waived.
THEOREM PassIsEarned == WriterSpec => []PassMeansStepsRan
<1>1. WriterInv => PassMeansStepsRan
  BY DEF WriterInv
<1> QED
  BY WriterInvariance, <1>1, PTL

=============================================================================
