---------------------------- MODULE VerifierRun ----------------------------
(***************************************************************************)
(* One verification (crates/o7-verifier): the gates before anything runs,  *)
(* the acquisition and the sealing of the executable, the trust check, the *)
(* run under a worker within its time and output budget, the evidence, and *)
(* the verdicts over that evidence while the trust store changes.          *)
(*                                                                         *)
(* The worker is the contract of WorkerContract, which WorkerSupervisor    *)
(* implements.  A digest is injective: it is the tuple of what is folded   *)
(* into it.  A command's id stands for its repository, path, arguments,    *)
(* directory, environment and timeout.                                     *)
(***************************************************************************)
EXTENDS Naturals, FiniteSets, WorkerContract

CONSTANTS
    Commands,   \* TrustedCommands: records [id, req, success, valid, budget]
    Contents,   \* the bytes an executable file may hold
    Codes,      \* exit codes
    Torn,       \* a read that mixed two contents
    Absent,     \* no file that may be executed; no bytes, no code, no binding
    MaxSwaps,   \* how often the executable's file may change
    MaxTrust,   \* how many commands are trusted at a time
    MaxChanges, \* how often the trust store changes once there is evidence
    MaxEdits    \* how many fields of the stored evidence are edited

ASSUME VerifierAssumption ==
    /\ Torn \notin Contents /\ Absent \notin Contents \cup Codes
    /\ \A c \in Commands : c.success \subseteq Codes /\ c.budget \in Nat

Requirements == {"AllowUnconfined", "RequireFullyEnforced"}
Levels == {"None", "Partial", "FullyEnforced"}

\* The whole command but for the bytes of its executable (fold_structural).
structural_command_digest(c) == <<c.id, c.success, c.budget, c.req>>

\* command_digest: the trust key, which binds the executable's bytes as well.
command_digest(c, exe) == <<structural_command_digest(c), exe>>

\* Whether a command is well formed depends on nothing its digest leaves out.
ASSUME DigestInjective ==
    \A c, d \in Commands : structural_command_digest(c) = structural_command_digest(d) => c = d

\* What may be trusted: a TrustAnchor over the bytes of a whole file.
Digests == {command_digest(c, exe) : c \in Commands, exe \in Contents}

\* ExitPolicy::is_success
is_success(c, exit) == exit \in c.success

VARIABLES
    stage,      \* where `verify` is
    vreq,       \* the verifier's own requirement
    cmd,        \* the command under verification
    att,        \* the enforcement the boundary attests
    trust,      \* the TrustStore
    disk,       \* what is at the executable's path
    fd,         \* what it was when it was opened
    bytes,      \* the bytes read from it
    mem,        \* what the memfd holds
    ran,        \* the bytes the worker executed, Absent if it never did
    total,      \* retained output
    exceeded,   \* the sink refused a chunk over the budget
    timedOut,   \* the timeout fired before the worker's result was seen
    code,       \* how the process exited: a code, or Absent for a signal
    evidence,   \* the VerifierEvidence
    altered,    \* the fields of the stored evidence that were edited
    verdict,    \* the last adjudication of this evidence under this trust store
    swaps, changes

inputVars == <<vreq, cmd, att>>
fileVars  == <<disk, swaps>>
execVars  == <<fd, bytes, mem>>
runVars   == <<ran, total, exceeded, timedOut, code>>
judgeVars == <<evidence, altered, verdict>>
trustVars == <<trust, changes>>
vars == <<contractVars, stage, inputVars, trustVars, fileVars, execVars, runVars, judgeVars>>

-----------------------------------------------------------------------------
\* BoundaryRequirement::is_satisfied_by
is_satisfied_by(req, level) == req = "RequireFullyEnforced" => level = "FullyEnforced"

\* TrustStore::is_trusted over a TrustAnchor of the command and an executable.
is_trusted(c, exe) == command_digest(c, exe) \in trust

NoEvidence == [outcome |-> "none", code |-> Absent, cmd |-> Absent, exe |-> Absent,
               digest |-> Absent, level |-> "None", trusted |-> FALSE]

\* evidence_of: the outcome with the binding it was reached under.
evidence_of(result, exit, exe, bound) ==
    [outcome |-> result, code |-> exit, cmd |-> cmd, exe |-> exe,
     digest |-> IF exe = Absent THEN Absent ELSE command_digest(cmd, exe),
     level |-> att, trusted |-> bound]

Finish(e) ==
    /\ stage' = "done"
    /\ evidence' = e
    /\ UNCHANGED <<altered, verdict>>

not_run(exe) == Finish(evidence_of("NotRun", Absent, exe, FALSE))

Goto(s) == stage' = s /\ UNCHANGED judgeVars

-----------------------------------------------------------------------------
\* Verifier::verify, step by step

\* Gates 0 and 1: the command's requirement is the verifier's, and the command
\* is well formed.
Gates ==
    /\ stage = "called"
    /\ \/ vreq # cmd.req /\ not_run(Absent)
       \/ vreq = cmd.req /\ ~cmd.valid /\ not_run(Absent)
       \/ vreq = cmd.req /\ cmd.valid /\ Goto("open")
    /\ UNCHANGED <<contractVars, inputVars, trustVars, fileVars, execVars, runVars>>

\* acquire_executable opens without following links and proves a regular file.
AcquireOpen ==
    /\ stage = "open"
    /\ \/ /\ disk = Absent
          /\ not_run(Absent)
          /\ UNCHANGED fd
       \/ /\ disk # Absent
          /\ fd' = disk
          /\ Goto("read")
    /\ UNCHANGED <<contractVars, inputVars, trustVars, fileVars, bytes, mem, runVars>>

\* It reads the size it saw, or refuses; a file that was rewritten meanwhile may
\* keep its size and yield the old bytes, the new ones or a mixture.
AcquireRead ==
    /\ stage = "read"
    /\ \/ /\ not_run(Absent)
          /\ UNCHANGED bytes
       \/ /\ bytes' \in {fd} \cup (IF disk = fd THEN {} ELSE ({disk, Torn} \ {Absent}))
          /\ Goto("write")
    /\ UNCHANGED <<contractVars, inputVars, trustVars, fileVars, fd, mem, runVars>>

\* stage_executable: the memfd is written, and is writable until it is sealed.
StageWrite ==
    /\ stage = "write"
    /\ \/ mem' = bytes /\ Goto("unsealed")
       \/ not_run(Absent) /\ UNCHANGED mem
    /\ UNCHANGED <<contractVars, inputVars, trustVars, fileVars, fd, bytes, runVars>>

\* Another process of the same user writes to the memfd before it is sealed.
WrittenBeforeSeal ==
    /\ stage = "unsealed"
    /\ mem' \in Contents \cup {Torn}
    /\ UNCHANGED <<contractVars, stage, inputVars, trustVars, fileVars, fd, bytes, runVars, judgeVars>>

\* The seals are added and proven in force.
StageSeal ==
    /\ stage = "unsealed"
    /\ Goto("sealed") \/ not_run(Absent)
    /\ UNCHANGED <<contractVars, inputVars, trustVars, fileVars, execVars, runVars>>

\* Mutant: trust is checked over the bytes that were read from the file.
CheckTrust_bug ==
    /\ stage = "sealed"
    /\ \/ ~is_trusted(cmd, bytes) /\ not_run(bytes)
       \/ /\ is_trusted(cmd, bytes)
          /\ is_satisfied_by(vreq, att)
          /\ Goto("running")
    /\ UNCHANGED <<contractVars, inputVars, trustVars, fileVars, execVars, runVars>>

\* Trust binds the bytes read back from the sealed memfd; then the requirement
\* must be met by what the boundary attests; only then a worker is started.
CheckTrust ==
    /\ stage = "sealed"
    /\ \/ not_run(Absent)
       \/ ~is_trusted(cmd, mem) /\ not_run(mem)
       \/ /\ is_trusted(cmd, mem)
          /\ \/ /\ ~is_satisfied_by(vreq, att)
                /\ Finish(evidence_of("BoundaryUnavailable", Absent, mem, TRUE))
             \/ /\ is_satisfied_by(vreq, att)
                /\ Goto("running")
    /\ UNCHANGED <<contractVars, inputVars, trustVars, fileVars, execVars, runVars>>

Running == stage \in {"running", "cancelled"}

\* The worker executes the memfd through its held descriptor.
WorkerLaunches ==
    /\ Running
    /\ Launches /\ sink' = sink
    /\ ran' = mem
    /\ UNCHANGED <<stage, inputVars, trustVars, fileVars, execVars, total, exceeded, timedOut, code, judgeVars>>

\* CollectingSink::publish of n bytes: retained, or refused for good.
CollectingSink(n) ==
    /\ status = "running" /\ sink
    /\ \/ /\ total + n <= cmd.budget
          /\ total' = total + n
          /\ UNCHANGED <<contractVars, exceeded>>
       \/ /\ total + n > cmd.budget
          /\ exceeded' = TRUE
          /\ LosesSink
          /\ UNCHANGED total

WorkerWrites ==
    /\ Running
    /\ \E n \in 1..2 : CollectingSink(n)
    /\ UNCHANGED <<stage, inputVars, trustVars, fileVars, execVars, ran, timedOut, code, judgeVars>>

\* The process exits with a code or by a signal.
WorkerExits ==
    /\ Running
    /\ status = "running" /\ ProcessExits
    /\ code' \in Codes \cup {Absent}
    /\ UNCHANGED <<stage, inputVars, trustVars, fileVars, execVars, ran, total, exceeded, timedOut, judgeVars>>

\* The worker ends; a normal result is that of its process.
WorkerEnds ==
    /\ Running
    /\ \E r \in Outcomes : Ends(r) /\ (r = "Exited" => exits)
    /\ sink' = sink
    /\ UNCHANGED <<stage, inputVars, trustVars, fileVars, execVars, runVars, judgeVars>>

\* Mutant: the timeout is noted and the worker left alone.
Timeout_bug ==
    /\ stage = "running" /\ status # "ended"
    /\ timedOut' = TRUE
    /\ Goto("cancelled")
    /\ UNCHANGED <<contractVars, inputVars, trustVars, fileVars, execVars, ran, total, exceeded, code>>

\* The timeout fires while the result is not there: the worker is cancelled and
\* the same join is awaited.
Timeout ==
    /\ stage = "running" /\ status # "ended"
    /\ timedOut' = TRUE
    /\ Asks
    /\ Goto("cancelled")
    /\ UNCHANGED <<inputVars, trustVars, fileVars, execVars, ran, total, exceeded, code>>

\* Mutant: a worker that exited is complete, whenever it did.
map_outcome_bug(result, late, over) ==
    IF result = "Exited" THEN IF code = Absent THEN "Signalled" ELSE "Completed"
    ELSE "Faulted"

\* map_outcome
map_outcome(result, late, over) ==
    CASE late /\ result = "CleanupFailure" -> "Faulted"
      [] late /\ result # "CleanupFailure" -> "TimedOut"
      [] ~late /\ over -> "OutputLost"
      [] ~late /\ ~over /\ result = "Exited" ->
            IF code = Absent THEN "Signalled" ELSE "Completed"
      [] ~late /\ ~over /\ result = "FailedToStart" -> "SpawnFailed"
      [] ~late /\ ~over /\ result = "OutputFailure" -> "OutputLost"
      [] OTHER -> "Faulted"

\* The result is seen, the staged executable dropped and the evidence built.
Collect ==
    /\ Running /\ status = "ended"
    /\ Finish(evidence_of(map_outcome(outcome, timedOut, exceeded),
                          IF outcome = "Exited" THEN code ELSE Absent, mem, TRUE))
    /\ UNCHANGED <<contractVars, inputVars, trustVars, fileVars, execVars, runVars>>

-----------------------------------------------------------------------------
\* Around a verification

\* The operator trusts or revokes; `verify` borrows the store while it runs.
TrustChanges ==
    /\ stage = "done" /\ changes < MaxChanges
    /\ changes' = changes + 1
    /\ \E d \in Digests : trust' \in {trust \cup {d}, trust \ {d}} \ {trust}
    /\ Cardinality(trust') <= MaxTrust
    /\ verdict' = "none"
    /\ UNCHANGED <<contractVars, stage, inputVars, fileVars, execVars, runVars, evidence, altered>>

\* The executable's file is replaced, rewritten or removed at any time.
SwapExecutable ==
    /\ swaps < MaxSwaps /\ stage # "done"
    /\ swaps' = swaps + 1
    /\ disk' \in (Contents \cup {Absent}) \ {disk}
    /\ UNCHANGED <<contractVars, stage, inputVars, trustVars, execVars, runVars, judgeVars>>

\* The evidence is stored, and edited before it is read again: any field, as often
\* as one likes.  The digest covers the command and the executable; what the run
\* was observed to do (outcome, exit code, attested level) is bound to nothing.
\* "Faulted" stands for every outcome but completion, which adjudicate refuses alike.
Altered ==
    /\ stage = "done"
    /\ \/ /\ altered' = altered \cup {"cmd"}
          /\ \E c \in Commands : evidence' = [evidence EXCEPT !.cmd = c]
       \/ /\ altered' = altered \cup {"exe"}
          /\ \E x \in Contents : evidence' = [evidence EXCEPT !.exe = x]
       \/ /\ altered' = altered \cup {"digest"}
          /\ \E d \in Digests : evidence' = [evidence EXCEPT !.digest = d]
       \/ /\ altered' = altered \cup {"outcome"}
          /\ \E o \in {"Completed", "Faulted"} : evidence' = [evidence EXCEPT !.outcome = o]
       \/ /\ altered' = altered \cup {"code"}
          /\ \E x \in Codes : evidence' = [evidence EXCEPT !.code = x]
       \/ /\ altered' = altered \cup {"level"}
          /\ \E l \in Levels : evidence' = [evidence EXCEPT !.level = l]
       \/ /\ altered' = altered \cup {"trusted"}
          /\ evidence' = [evidence EXCEPT !.trusted = ~@]
    /\ Cardinality(altered') <= MaxEdits
    /\ verdict' = "none"
    /\ UNCHANGED <<contractVars, stage, inputVars, trustVars, fileVars, execVars, runVars>>

\* adjudicate: there is a binding, it gives the claimed digest, the digest is
\* trusted now, the bound requirement was attested and the bound policy met.
adjudicate(e) ==
    /\ e.exe # Absent /\ e.digest # Absent
    /\ command_digest(e.cmd, e.exe) = e.digest
    /\ is_trusted(e.cmd, e.exe)
    /\ is_satisfied_by(e.cmd.req, e.level)
    /\ e.outcome = "Completed" /\ is_success(e.cmd, e.code)

Adjudicate ==
    /\ stage = "done"
    /\ verdict' = IF adjudicate(evidence) THEN "Accepted" ELSE "Rejected"
    /\ UNCHANGED <<contractVars, stage, inputVars, trustVars, fileVars, execVars, runVars, evidence, altered>>

-----------------------------------------------------------------------------
Init ==
    /\ ContractInit
    /\ stage = "called"
    /\ vreq \in Requirements /\ cmd \in Commands /\ att \in Levels
    /\ trust \in {t \in SUBSET Digests : Cardinality(t) <= MaxTrust}
    /\ disk \in Contents \cup {Absent}
    /\ fd = Absent /\ bytes = Absent /\ mem = Absent /\ ran = Absent
    /\ total = 0 /\ exceeded = FALSE /\ timedOut = FALSE /\ code = Absent
    /\ evidence = NoEvidence /\ altered = {} /\ verdict = "none"
    /\ swaps = 0 /\ changes = 0

Steps == Gates \/ AcquireOpen \/ AcquireRead \/ StageWrite \/ StageSeal \/ CheckTrust \/ Collect

Next ==
    \/ Steps \/ Timeout
    \/ WorkerLaunches \/ WorkerWrites \/ WorkerExits \/ WorkerEnds
    \/ WrittenBeforeSeal \/ SwapExecutable
    \/ TrustChanges \/ Altered \/ Adjudicate

\* `verify` takes its next step, its timer fires, and the worker keeps its
\* promise: a worker that was asked to stop, or whose process exited, ends.
Fairness ==
    /\ WF_vars(Steps) /\ WF_vars(Timeout)
    /\ WF_vars((asked \/ exits) /\ WorkerEnds)

Spec == Init /\ [][Next]_vars /\ Fairness

-----------------------------------------------------------------------------
\* Properties

\* The edits that an adjudication can tell: of the command, the executable and the
\* digest that covers both one at most was edited, and what was observed of the run
\* was not.  (`trusted` is for display: adjudicate does not read it.)
Telling ==
    /\ altered \cap {"outcome", "code", "level"} = {}
    /\ \E f \in {"cmd", "exe", "digest"} : altered \subseteq {f, "trusted"}

\* A step that accepts: the evidence names a command and an executable that are
\* trusted now; and if its edits are telling, that command and those bytes ran, and
\* the run met every condition of the command.
Earned ==
    verdict' = "Accepted" /\ Adjudicate =>
      /\ is_trusted(evidence.cmd, evidence.exe)
      /\ Telling =>
           /\ evidence.cmd = cmd /\ evidence.exe = ran
           /\ is_success(cmd, code)
           /\ ~timedOut /\ ~exceeded /\ total <= cmd.budget
           /\ is_satisfied_by(cmd.req, att)

\* A verdict is earned: what is accepted is a command that the trust store holds
\* at that moment, together with the very bytes that were executed, which ran to
\* a success code of its own policy, in time, within its output budget and under
\* the enforcement it is bound to, whatever happened to the file, to the memfd and
\* to the trust store in between, and although one of the three bindings of the
\* stored evidence was rewritten.  Evidence whose outcome, exit code or attested
\* level was edited, or two of its bindings, is believed (adjudicate, verdict.rs
\* 92-108): then it is only known that what it names is trusted.
AcceptedIsEarned == [][Earned]_vars

\* A step that starts to execute bytes executes trusted ones.
RunsTrusted == ran' # ran => is_trusted(cmd, ran')

\* No worker executes bytes that were not trusted for the command: the file may
\* change after it was read, the memfd before it is sealed.
NeverRunsUntrusted == [][RunsTrusted]_vars

\* A verification ends with evidence: the timeout bounds a process that does not
\* stop by itself, and the cancelled worker ends.
VerifyEnds == (stage # "done") ~> (stage = "done")
=============================================================================
