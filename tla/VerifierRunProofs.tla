------------------------- MODULE VerifierRunProofs --------------------------
(***************************************************************************)
(* What the verifier promises, for any commands, contents and exit codes,  *)
(* and any number of changes to the file, the trust store and the fields   *)
(* of the stored evidence.                                                 *)
(*                                                                         *)
(* The two properties are about steps, and rest on what a running worker   *)
(* was started with: the sealed memfd is trusted for the command from the  *)
(* trust check on (Vetted), and it is what the worker executed (Executed). *)
(* Evidence of a completed run then binds the command, the bytes and their *)
(* digest, each until it is edited (Stored), and any two of them determine *)
(* the third.                                                              *)
(***************************************************************************)
EXTENDS VerifierRun, TLAPS

Before == {"called", "open", "read", "write", "unsealed", "sealed"}

EvidenceFields == {"outcome", "code", "cmd", "exe", "digest", "level", "trusted"}

\* The parts of the state's type that the argument needs, and that no worker
\* exists before the trust check.
Shape ==
    /\ cmd \in Commands
    /\ trust \subseteq Digests
    /\ total \in Nat /\ total <= cmd.budget
    /\ stage \in Before \cup {"running", "cancelled", "done"}
    /\ stage \in Before => status = "created" /\ outcome = "none"
    /\ DOMAIN evidence = EvidenceFields
    /\ stage # "done" => altered = {}

\* What a worker may be started with was trusted after it was sealed.
Vetted == Running => is_trusted(cmd, mem)

\* What a worker executed is what it was started with.
Executed == (status = "running" \/ outcome = "Exited") => ran = mem

\* Evidence of a completed run whose observations were not edited tells what the run
\* did, and binds the run in each of the three bindings that was not edited.
Stored ==
    stage = "done" /\ altered \cap {"outcome", "code", "level"} = {}
      /\ evidence.outcome = "Completed" =>
      /\ ~timedOut /\ ~exceeded
      /\ evidence.code = code /\ evidence.level = att
      /\ evidence.cmd \in Commands
      /\ "cmd" \notin altered => evidence.cmd = cmd
      /\ "exe" \notin altered => evidence.exe = ran
      /\ "digest" \notin altered => evidence.digest = command_digest(cmd, ran)

Inv == Shape /\ Vetted /\ Executed /\ Stored

\* No worker and no evidence yet; an output budget is a natural number.
LEMMA InitInv == Init => Inv
BY VerifierAssumption DEF Init, ContractInit, Inv, Shape, Vetted, Executed, Stored, Before,
   EvidenceFields, Running, NoEvidence

\* The steps of `verify` up to the trust check: no worker, no completed evidence.
LEMMA VerifySteps ==
    ASSUME Inv,
           Gates \/ AcquireOpen \/ AcquireRead \/ StageWrite \/ WrittenBeforeSeal \/
              StageSeal \/ CheckTrust
    PROVE  Inv'
<1> USE DEF contractVars, inputVars, trustVars, fileVars, execVars, runVars, judgeVars
<1>1. CASE Gates
  BY <1>1 DEF Inv, Shape, EvidenceFields, Before, Vetted, Running, is_trusted,
     Executed, Stored, Finish, not_run, evidence_of, Goto, Gates
<1>2. CASE AcquireOpen
  BY <1>2 DEF Inv, Shape, EvidenceFields, Before, Vetted, Running, is_trusted,
     Executed, Stored, Finish, not_run, evidence_of, Goto, AcquireOpen
<1>3. CASE AcquireRead
  BY <1>3 DEF Inv, Shape, EvidenceFields, Before, Vetted, Running, is_trusted,
     Executed, Stored, Finish, not_run, evidence_of, Goto, AcquireRead
<1>4. CASE StageWrite
  BY <1>4 DEF Inv, Shape, EvidenceFields, Before, Vetted, Running, is_trusted,
     Executed, Stored, Finish, not_run, evidence_of, Goto, StageWrite
<1>5. CASE WrittenBeforeSeal
  BY <1>5 DEF Inv, Shape, EvidenceFields, Before, Vetted, Running, is_trusted,
     Executed, Stored, WrittenBeforeSeal
<1>6. CASE StageSeal
  BY <1>6 DEF Inv, Shape, EvidenceFields, Before, Vetted, Running, is_trusted,
     Executed, Stored, Finish, not_run, evidence_of, Goto, StageSeal
<1>7. CASE CheckTrust
  BY <1>7 DEF Inv, Shape, EvidenceFields, Before, Vetted, Running, is_trusted,
     Executed, Stored, Finish, not_run, evidence_of, Goto, CheckTrust
<1> QED
  BY <1>1, <1>2, <1>3, <1>4, <1>5, <1>6, <1>7

\* The worker runs, and the evidence is collected.
LEMMA WorkerSteps ==
    ASSUME Inv,
           WorkerLaunches \/ WorkerWrites \/ WorkerExits \/ WorkerEnds \/ Timeout \/
              Collect
    PROVE  Inv'
<1> USE DEF contractVars, inputVars, trustVars, fileVars, execVars, runVars, judgeVars
<1>1. CASE WorkerLaunches
  BY <1>1 DEF Inv, Shape, EvidenceFields, Before, Vetted, Running, is_trusted,
     Executed, Stored, Launches, WorkerLaunches
<1>2. CASE WorkerWrites
  <2>1. Shape'
    <3>1. PICK n \in 1..2 : CollectingSink(n)
      BY <1>2 DEF WorkerWrites
    <3>2. cmd.budget \in Nat /\ n \in Nat /\ total \in Nat /\ total <= cmd.budget
      BY VerifierAssumption DEF Inv, Shape
    <3>3. total' = total \/ (total' = total + n /\ total + n <= cmd.budget)
      BY <3>1 DEF CollectingSink
    <3>4. total' \in Nat /\ total' <= cmd.budget
      BY <3>2, <3>3
    <3>5. stage' \notin Before
      BY <1>2 DEF WorkerWrites, Running, Before
    <3> QED
      BY <1>2, <3>4, <3>5 DEF Inv, Shape, WorkerWrites
  <2>2. Vetted' /\ Executed' /\ Stored'
    BY <1>2 DEF Inv, Vetted, Running, is_trusted, Executed, Stored, CollectingSink,
       LosesSink, WorkerWrites
  <2> QED
    BY <2>1, <2>2 DEF Inv
<1>3. CASE WorkerExits
  BY <1>3 DEF Inv, Shape, EvidenceFields, Before, Vetted, Running, is_trusted,
     Executed, Stored, ProcessExits, WorkerExits
<1>4. CASE WorkerEnds
  <2>1. Shape'
    BY <1>4 DEF Inv, Shape, EvidenceFields, Before, Ends, Running, WorkerEnds
  <2>2. Vetted' /\ Executed' /\ Stored'
    BY <1>4 DEF Inv, Vetted, Running, is_trusted, Executed, Stored, Ends, Shape,
       Before, WorkerEnds
  <2> QED
    BY <2>1, <2>2 DEF Inv
<1>5. CASE Timeout
  BY <1>5 DEF Inv, Shape, EvidenceFields, Before, Vetted, Running, is_trusted,
     Executed, Stored, Asks, Goto, Timeout
<1>6. CASE Collect
  <2>1. Shape' /\ Vetted' /\ Executed'
    BY <1>6 DEF Inv, Shape, EvidenceFields, Before, Vetted, Running, is_trusted,
       Executed, Finish, evidence_of, Collect
  <2>2. Stored'
    <3>1. mem # Absent
      BY <1>6, VerifierAssumption DEF Inv, Shape, Vetted, is_trusted, Digests,
         command_digest, Collect
    <3>2. CASE map_outcome(outcome, timedOut, exceeded) = "Completed"
      <4>1. ~timedOut /\ ~exceeded /\ outcome = "Exited"
        BY <3>2 DEF map_outcome
      <4>2. ran = mem
        BY <4>1 DEF Inv, Executed
      <4> QED
        BY <1>6, <3>1, <4>1, <4>2 DEF Inv, Shape, Stored, Finish, evidence_of, Collect
    <3>3. CASE map_outcome(outcome, timedOut, exceeded) # "Completed"
      BY <1>6, <3>3 DEF Stored, Finish, evidence_of, Collect
    <3> QED
      BY <3>2, <3>3
  <2> QED
    BY <2>1, <2>2 DEF Inv
<1> QED
  BY <1>1, <1>2, <1>3, <1>4, <1>5, <1>6

\* What changes around a verification.
LEMMA WorldSteps ==
    ASSUME Inv,
           SwapExecutable \/ TrustChanges \/ Altered \/ Adjudicate
    PROVE  Inv'
<1> USE DEF contractVars, inputVars, trustVars, fileVars, execVars, runVars, judgeVars
<1>1. CASE SwapExecutable
  BY <1>1 DEF Inv, Shape, EvidenceFields, Before, Vetted, Running, is_trusted,
     Executed, Stored, SwapExecutable
<1>2. CASE TrustChanges
  BY <1>2 DEF Inv, Shape, EvidenceFields, Before, Vetted, Running, is_trusted,
     Executed, Stored, TrustChanges
<1>3. CASE Altered
  <2>1. Shape' /\ Vetted' /\ Executed'
    BY <1>3 DEF Inv, Shape, EvidenceFields, Before, Vetted, Running, is_trusted,
       Executed, Altered
  <2>2. Stored'
    <3> SUFFICES ASSUME altered' \cap {"outcome", "code", "level"} = {},
                        evidence'.outcome = "Completed"
                 PROVE  Stored'
      BY DEF Stored
    <3>1. altered \subseteq altered' /\ altered \cap {"outcome", "code", "level"} = {}
      BY <1>3 DEF Altered
    <3>2. CASE \E c \in Commands : evidence' = [evidence EXCEPT !.cmd = c] /\ "cmd" \in altered'
      BY <1>3, <3>1, <3>2 DEF Inv, Stored, Shape, EvidenceFields, Altered
    <3>3. CASE \E x \in Contents : evidence' = [evidence EXCEPT !.exe = x] /\ "exe" \in altered'
      BY <1>3, <3>1, <3>3 DEF Inv, Stored, Shape, EvidenceFields, Altered
    <3>4. CASE \E d \in Digests : evidence' = [evidence EXCEPT !.digest = d] /\ "digest" \in altered'
      BY <1>3, <3>1, <3>4 DEF Inv, Stored, Shape, EvidenceFields, Altered
    <3>5. CASE evidence' = [evidence EXCEPT !.trusted = ~@]
      BY <1>3, <3>1, <3>5 DEF Inv, Stored, Shape, EvidenceFields, Altered
    <3> QED
      BY <1>3, <3>2, <3>3, <3>4, <3>5 DEF Altered
  <2> QED
    BY <2>1, <2>2 DEF Inv
<1>4. CASE Adjudicate
  BY <1>4 DEF Inv, Shape, EvidenceFields, Before, Vetted, Running, is_trusted,
     Executed, Stored, Adjudicate
<1> QED
  BY <1>1, <1>2, <1>3, <1>4

\* Each step keeps the invariant.
LEMMA NextInv == Inv /\ [Next]_vars => Inv'
<1> SUFFICES ASSUME Inv, [Next]_vars PROVE Inv'
  OBVIOUS
<1>1. CASE UNCHANGED vars
  BY <1>1 DEF Inv, Shape, Vetted, Executed, Stored, Running, is_trusted, vars, contractVars,
     inputVars, trustVars, fileVars, execVars, runVars, judgeVars
<1>2. CASE Next
  BY <1>2, VerifySteps, WorkerSteps, WorldSteps DEF Next, Steps
<1> QED
  BY <1>1, <1>2

LEMMA Invariance == Spec => []Inv
<1> QED
  BY InitInv, NextInv, PTL DEF Spec

\* Bytes are executed only if they were trusted for the command when they could no
\* longer change (Verifier::verify: seal, read back, check, run).
THEOREM OnlyTrustedRuns == Spec => NeverRunsUntrusted
<1>1. Inv /\ [Next]_vars => [RunsTrusted]_vars
  <2> SUFFICES ASSUME Inv, Next PROVE RunsTrusted
    BY DEF RunsTrusted, vars, runVars
  <2>1. CASE WorkerLaunches
    BY <2>1 DEF Inv, Vetted, WorkerLaunches, RunsTrusted
  <2>2. CASE ~WorkerLaunches
    BY <2>2 DEF Next, Steps, Gates, AcquireOpen, AcquireRead, StageWrite, WrittenBeforeSeal,
       StageSeal, CheckTrust, WorkerWrites, WorkerExits, WorkerEnds, Timeout, Collect,
       SwapExecutable, TrustChanges, Altered, Adjudicate, runVars, RunsTrusted
  <2> QED
    BY <2>1, <2>2
<1> QED
  BY <1>1, Invariance, PTL DEF Spec, NeverRunsUntrusted

\* What is accepted is trusted now, and unless the edits of the stored evidence left
\* no trace (its observations, or two of its bindings) it was earned by a run in time
\* and within its budget of the very bytes that are trusted (adjudicate).
THEOREM AcceptanceIsEarned == Spec => AcceptedIsEarned
<1>1. Inv /\ [Next]_vars => [Earned]_vars
  <2> SUFFICES ASSUME Inv, Adjudicate, verdict' = "Accepted"
               PROVE  Earned
    BY DEF Earned
  <2>1. adjudicate(evidence) /\ stage = "done" /\ evidence.outcome = "Completed"
    BY DEF Adjudicate, adjudicate
  <2>2. is_trusted(evidence.cmd, evidence.exe)
    BY <2>1 DEF adjudicate
  <2>3. ASSUME Telling
        PROVE  evidence.cmd = cmd /\ evidence.exe = ran
    <3>1. command_digest(evidence.cmd, evidence.exe) = evidence.digest
      BY <2>1 DEF adjudicate
    <3>2. /\ evidence.cmd \in Commands /\ cmd \in Commands
          /\ "cmd" \notin altered => evidence.cmd = cmd
          /\ "exe" \notin altered => evidence.exe = ran
          /\ "digest" \notin altered => evidence.digest = command_digest(cmd, ran)
      BY <2>1, <2>3 DEF Inv, Stored, Shape, Telling
    <3>3. CASE "cmd" \notin altered /\ "exe" \notin altered
      BY <3>2, <3>3
    <3>4. CASE "cmd" \notin altered /\ "digest" \notin altered
      BY <3>1, <3>2, <3>4 DEF command_digest
    <3>5. CASE "exe" \notin altered /\ "digest" \notin altered
      <4>1. structural_command_digest(evidence.cmd) = structural_command_digest(cmd)
        BY <3>1, <3>2, <3>5 DEF command_digest
      <4> QED
        BY <3>2, <3>5, <4>1, DigestInjective
    <3> QED
      BY <2>3, <3>3, <3>4, <3>5 DEF Telling
  <2>4. ASSUME Telling
        PROVE  /\ is_success(cmd, code) /\ ~timedOut /\ ~exceeded /\ total <= cmd.budget
               /\ is_satisfied_by(cmd.req, att)
    BY <2>1, <2>3, <2>4 DEF Inv, Shape, Stored, Telling, adjudicate
  <2> QED
    BY <2>2, <2>3, <2>4 DEF Earned
<1> QED
  BY <1>1, Invariance, PTL DEF Spec, AcceptedIsEarned
=============================================================================
