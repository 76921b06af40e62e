--------------------------- MODULE LedgerProjection ---------------------------
(***************************************************************************)
(* The ledger's runs, attempts, events and idempotency records             *)
(* (crates/o7-ledger), and the processes that project canonical records    *)
(* into them (src/ledger_projector.rs):                                    *)
(*   - the live writer of a run, which appends an event to its record and  *)
(*     then projects it;                                                   *)
(*   - catch-ups (catch_up_record, from `o7 recover --run-dir` or o7d),    *)
(*     which project a whole record again, at any time;                    *)
(*   - `o7 recover`, which scans for running rows and marks them.          *)
(* A step is one ledger transaction, one read or one append to a record.   *)
(*                                                                         *)
(* One conversation.  A canonical event is its position in the record; the *)
(* last position is RunSealed, which fixes the verdict.  An attempt is its *)
(* number within the run, 0 for None.  An event of the ledger is the       *)
(* status it reports or a system note; how the two interleave in the       *)
(* conversation's sequence is left out.  The idempotency record of a note  *)
(* keeps the only part of the request digest that can differ between two   *)
(* projections of one event: the attempt.  That of a run is its row.       *)
(***************************************************************************)
EXTENDS Naturals, Sequences

CONSTANTS
  Runs,        \* run ids
  NoRun,
  Missing,     \* the record of a note that was never written
  Projectors,  \* processes: live writers and catch-ups
  Last,        \* position of RunSealed in a record
  Targets,     \* statuses a verdict maps to
  MaxCalls     \* bound on calls nothing in this repository makes

Sealed == {"completed", "failed", "blocked", "error"}

ASSUME Parameters ==
  /\ NoRun \notin Runs /\ Missing \notin Nat
  /\ Last \in Nat \ {0, 1}
  /\ Targets \subseteq Sealed /\ Targets # {}
  /\ MaxCalls \in Nat

VARIABLES
  canon,     \* how many events each record has
  verdict,   \* the status its verdict maps to, "none" until it is sealed
  row,       \* the run table: status of each run
  attempts,  \* the attempt table: statuses of a run's attempts by number
  log,       \* the event table: a run's status events, and notes by position
  notes,     \* idempotency records of the system notes: their attempt
  proj,      \* the projecting processes
  recover,   \* the `o7 recover` process
  conflicts, \* runs for which a projection met an idempotency conflict
  calls

vars == <<canon, verdict, row, attempts, log, notes, proj, recover, conflicts,
          calls>>

-----------------------------------------------------------------------------
(* Types *)

AttemptStatus == {"running", "interrupted", "cancelled"} \cup Sealed
RunStatus == {"queued"} \cup AttemptStatus
Terminal == {"cancelled"} \cup Sealed

Positions == 1..Last

ProjectorPc == {"idle", "check", "create", "start", "running_attempt",
                "create_attempt", "latest_attempt", "project", "append",
                "seal", "set", "repair", "done"}
Idle == [pc |-> "idle", live |-> FALSE, run |-> NoRun, attempt |-> 0,
         next |-> 1, upto |-> 0, target |-> "none", ok |-> TRUE]
IdleRecover == [pc |-> "idle", runs |-> {}, attempts |-> {}]

\* A projecting process, and the events of a run.
ProjectorState ==
  [pc : ProjectorPc, live : BOOLEAN, run : Runs \cup {NoRun}, attempt : Nat,
   next : 1..(Last + 1), upto : 0..Last, target : Targets \cup {"none"},
   ok : BOOLEAN]
LogRow == [status : Seq(RunStatus), notes : [Positions -> Seq(Nat)]]

TypeOK ==
  /\ canon \in [Runs -> 0..Last]
  /\ verdict \in [Runs -> Targets \cup {"none"}]
  /\ row \in [Runs -> RunStatus \cup {"none"}]
  /\ attempts \in [Runs -> Seq(AttemptStatus)]
  /\ log \in [Runs -> LogRow]
  /\ notes \in [Runs -> [Positions -> Nat \cup {Missing}]]
  /\ proj \in [Projectors -> ProjectorState]
  /\ recover \in [pc : {"idle", "scan_attempts", "mark"}, runs : SUBSET Runs,
                  attempts : SUBSET (Runs \X Nat)]
  /\ conflicts \subseteq Runs
  /\ calls \in 0..MaxCalls

-----------------------------------------------------------------------------
(* Transactions *)

run_transition_allowed(from, to) ==
  \/ from = "queued" /\ to = "running"
  \/ from = "running" /\ to \in AttemptStatus \ {"running"}

\* emit_event, of a status and of a note.
EmitStatus(r, status) ==
  log' = [log EXCEPT ![r].status = Append(@, status)]
EmitNote(r, i, attempt) == log' = [log EXCEPT ![r].notes[i] = Append(@, attempt)]

\* The numbers of a run's running attempts, and closing them.
RunningAttempts(r) == {n \in DOMAIN attempts[r] : attempts[r][n] = "running"}
CloseRunning(r, status) ==
  [n \in DOMAIN attempts[r] |->
     IF attempts[r][n] = "running" THEN status ELSE attempts[r][n]]

Closed(r, to) == IF to = "running" THEN attempts
                 ELSE [attempts EXCEPT ![r] = CloseRunning(r, to)]

\* set_run_status past its validation.
SetRunStatus(r, to) ==
  /\ row' = [row EXCEPT ![r] = to]
  /\ attempts' = Closed(r, to)
  /\ EmitStatus(r, to)

\* create_run_with_id past its idempotency check.
CreateRun(r) ==
  /\ row' = [row EXCEPT ![r] = "queued"]
  /\ EmitStatus(r, "queued")

CanCreateAttempt(r) == row[r] = "running" /\ RunningAttempts(r) = {}

\* The run's most recent interrupted attempt, 0 without one.
LatestInterrupted(r) ==
  LET s == {n \in DOMAIN attempts[r] : attempts[r][n] = "interrupted"}
  IN  IF s = {} THEN 0 ELSE CHOOSE n \in s : \A m \in s : m <= n

\* LedgerAgrees: a repair that no event reports.
RepairInterrupted_bug(r, target) ==
  /\ row' = [row EXCEPT ![r] = target]
  /\ attempts' = [attempts EXCEPT ![r] =
       [n \in DOMAIN @ |-> IF n = LatestInterrupted(r) THEN target ELSE @[n]]]
  /\ UNCHANGED log

\* repair_interrupted_run_to_terminal past its check.
RepairInterrupted(r, target) ==
  /\ row' = [row EXCEPT ![r] = target]
  /\ attempts' = [attempts EXCEPT ![r] =
       [n \in DOMAIN @ |-> IF n = LatestInterrupted(r) THEN target ELSE @[n]]]
  /\ EmitStatus(r, target)

-----------------------------------------------------------------------------
(* A process that projects: attach_run, project, seal_inner *)

Goto(p, pc) == proj' = [proj EXCEPT ![p].pc = pc]

\* The writer of a run: RunStarted is in the record before the row exists.
StartLive(p, r) ==
  /\ proj[p].pc = "idle"
  /\ canon[r] = 0
  /\ canon' = [canon EXCEPT ![r] = 1]
  /\ proj' = [proj EXCEPT ![p] = [Idle EXCEPT !.pc = "create", !.live = TRUE,
                                              !.run = r, !.upto = 1]]
  /\ UNCHANGED <<verdict, row, attempts, log, notes, recover, conflicts, calls>>

\* catch_up_record: the stream and its verdict are read once, here.
StartCatchUp(p, r) ==
  /\ proj[p].pc = "idle"
  /\ canon[r] > 0
  /\ proj' = [proj EXCEPT ![p] = [Idle EXCEPT !.pc = "check", !.run = r,
                                    !.upto = canon[r], !.target = verdict[r]]]
  /\ UNCHANGED <<canon, verdict, row, attempts, log, notes, recover, conflicts,
                 calls>>

\* An unsealed record is refused under a sealed row.
CheckExisting(p) ==
  /\ proj[p].pc = "check"
  /\ IF proj[p].target = "none" /\ row[proj[p].run] \in Terminal
     THEN proj' = [proj EXCEPT ![p] = Idle]
     ELSE Goto(p, "create")
  /\ UNCHANGED <<canon, verdict, row, attempts, log, notes, recover, conflicts,
                 calls>>

\* create_run_with_id: the row as it is, or a queued one.
CreateRunWithId(p) ==
  LET r == proj[p].run
      seen == IF row[r] = "none" THEN "queued" ELSE row[r]
  IN
  /\ proj[p].pc = "create"
  /\ IF row[r] = "none" THEN CreateRun(r) ELSE UNCHANGED <<row, log>>
  /\ Goto(p, CASE seen = "queued" -> "start"
               [] seen = "running" -> "running_attempt"
               [] OTHER -> "latest_attempt")
  /\ UNCHANGED <<canon, verdict, attempts, notes, recover, conflicts, calls>>

\* start_run; a forbidden transition fails the attach.
StartRun(p) ==
  LET r == proj[p].run IN
  /\ proj[p].pc = "start"
  /\ IF run_transition_allowed(row[r], "running")
     THEN SetRunStatus(r, "running") /\ Goto(p, "running_attempt")
     ELSE proj' = [proj EXCEPT ![p] = Idle] /\ UNCHANGED <<row, attempts, log>>
  /\ UNCHANGED <<canon, verdict, notes, recover, conflicts, calls>>

Attached(p, n) ==
  proj' = [proj EXCEPT ![p] = [@ EXCEPT !.attempt = n, !.pc = "project"]]

RunningAttempt(p) ==
  LET r == proj[p].run IN
  /\ proj[p].pc = "running_attempt"
  /\ IF RunningAttempts(r) = {} THEN Goto(p, "create_attempt")
     ELSE \E n \in RunningAttempts(r) : Attached(p, n)
  /\ UNCHANGED <<canon, verdict, row, attempts, log, notes, recover, conflicts,
                 calls>>

\* latest_attempt: whatever its status, or None.
LatestAttempt(p) ==
  /\ proj[p].pc = "latest_attempt"
  /\ Attached(p, Len(attempts[proj[p].run]))
  /\ UNCHANGED <<canon, verdict, row, attempts, log, notes, recover, conflicts,
                 calls>>

CreateAttempt(p) ==
  LET r == proj[p].run IN
  /\ proj[p].pc = "create_attempt"
  /\ IF CanCreateAttempt(r)
     THEN /\ attempts' = [attempts EXCEPT ![r] = Append(@, "running")]
          /\ Attached(p, Len(attempts[r]) + 1)
     ELSE proj' = [proj EXCEPT ![p] = Idle] /\ UNCHANGED attempts
  /\ UNCHANGED <<canon, verdict, row, log, notes, recover, conflicts, calls>>

\* What is left of a finished projection: the receipt its caller gets.
Finished(p, ok) ==
  proj' = [proj EXCEPT ![p] = [Idle EXCEPT !.pc = "done", !.run = proj[p].run,
             !.upto = proj[p].upto, !.target = proj[p].target,
             !.ok = proj[p].ok /\ ok]]

\* What follows the projection of an event: a live writer works on, a catch-up
\* takes the next one.
AfterProject(p) ==
  IF proj[p].next < proj[p].upto THEN "project"
  ELSE IF proj[p].target # "none" THEN "seal"
  ELSE IF proj[p].live THEN "append" ELSE "done"
Projected(p, ok) ==
  IF AfterProject(p) = "done" THEN Finished(p, ok)
  ELSE proj' = [proj EXCEPT ![p] = [@ EXCEPT !.next = proj[p].next + 1,
                 !.ok = proj[p].ok /\ ok, !.pc = AfterProject(p)]]

\* NotesAgree: a note with another digest is taken for a new one.
NoteRecorded_bug(r, i, attempt) == notes[r][i] = attempt
NoteRecorded(r, i, attempt) == notes[r][i] # Missing

\* append_system_note: recorded, replayed, or in conflict with its record.
Project(p) ==
  LET r == proj[p].run
      i == proj[p].next
      attempt == proj[p].attempt
  IN
  /\ proj[p].pc = "project"
  /\ \/ /\ ~NoteRecorded(r, i, attempt)
        /\ notes' = [notes EXCEPT ![r] = [@ EXCEPT ![i] = attempt]]
        /\ EmitNote(r, i, attempt)
        /\ Projected(p, TRUE)
        /\ UNCHANGED conflicts
     \/ /\ NoteRecorded(r, i, attempt)
        /\ Projected(p, notes[r][i] = attempt)
        /\ conflicts' = IF notes[r][i] = attempt THEN conflicts
                        ELSE conflicts \cup {r}
        /\ UNCHANGED <<notes, log>>
  /\ UNCHANGED <<canon, verdict, row, attempts, recover, calls>>

\* The sink fails: a warning, and the process goes on with the next event.
ProjectFails(p) ==
  /\ proj[p].pc = "project"
  /\ Projected(p, FALSE)
  /\ UNCHANGED <<canon, verdict, row, attempts, log, notes, recover, conflicts,
                 calls>>

\* The live writer's next canonical event; RunSealed comes with its verdict.
AppendCanonical(p) ==
  LET r == proj[p].run
      n == canon[r] + 1
  IN
  /\ proj[p].pc = "append"
  /\ canon' = [canon EXCEPT ![r] = n]
  /\ \E t \in IF n = Last THEN Targets ELSE {"none"} :
       /\ verdict' = [verdict EXCEPT ![r] = t]
       /\ proj' = [proj EXCEPT ![p] = [@ EXCEPT !.pc = "project", !.upto = n,
                                                !.target = t]]
  /\ UNCHANGED <<row, attempts, log, notes, recover, conflicts, calls>>

\* CaughtUp: any settled row will do.
AlreadySealed_bug(r, target) == row[r] \in Terminal \cup {"interrupted"}
AlreadySealed(r, target) == row[r] = target

\* seal_inner reads the row first; only a catch-up may repair.
SealRead(p) ==
  LET r == proj[p].run IN
  /\ proj[p].pc = "seal"
  /\ IF AlreadySealed(r, proj[p].target) THEN Finished(p, TRUE)
     ELSE IF ~proj[p].live /\ row[r] = "interrupted" THEN Goto(p, "repair")
     ELSE IF row[r] \in Terminal \cup {"interrupted"} THEN Finished(p, FALSE)
     ELSE Goto(p, "set")
  /\ UNCHANGED <<canon, verdict, row, attempts, log, notes, recover, conflicts,
                 calls>>

\* complete_run, fail_run, block_run, error_run.
SealSet(p) ==
  LET r == proj[p].run IN
  /\ proj[p].pc = "set"
  /\ IF run_transition_allowed(row[r], proj[p].target)
     THEN SetRunStatus(r, proj[p].target) /\ Finished(p, TRUE)
     ELSE Finished(p, FALSE) /\ UNCHANGED <<row, attempts, log>>
  /\ UNCHANGED <<canon, verdict, notes, recover, conflicts, calls>>

SealRepair(p) ==
  LET r == proj[p].run IN
  /\ proj[p].pc = "repair"
  /\ IF row[r] = "interrupted"
     THEN RepairInterrupted(r, proj[p].target) /\ Finished(p, TRUE)
     ELSE Finished(p, FALSE) /\ UNCHANGED <<row, attempts, log>>
  /\ UNCHANGED <<canon, verdict, notes, recover, conflicts, calls>>

\* A ledger call of the seal fails: a warning too.
SealFails(p) ==
  /\ proj[p].pc \in {"seal", "set", "repair"}
  /\ Finished(p, FALSE)
  /\ UNCHANGED <<canon, verdict, row, attempts, log, notes, recover, conflicts,
                 calls>>

\* The result of a catch-up has been used.
Return(p) ==
  /\ proj[p].pc = "done"
  /\ proj' = [proj EXCEPT ![p] = Idle]
  /\ UNCHANGED <<canon, verdict, row, attempts, log, notes, recover, conflicts,
                 calls>>

\* A kill, or an error of a ledger call that is not a warning.
Die(p) ==
  /\ proj[p].pc \notin {"idle", "done"}
  /\ proj' = [proj EXCEPT ![p] = Idle]
  /\ UNCHANGED <<canon, verdict, row, attempts, log, notes, recover, conflicts, calls>>

-----------------------------------------------------------------------------
(* `o7 recover` *)

\* scan asks for the running rows and then, in a second query that sees a later
\* state of the ledger, for the running attempts.
ScanRuns ==
  /\ recover.pc = "idle"
  /\ recover' = [IdleRecover EXCEPT !.pc = "scan_attempts",
                   !.runs = {r \in Runs : row[r] = "running"}]
  /\ UNCHANGED <<canon, verdict, row, attempts, log, notes, proj, conflicts,
                 calls>>

ScanAttempts ==
  /\ recover.pc = "scan_attempts"
  /\ recover' = [recover EXCEPT !.pc = "mark",
                   !.attempts = UNION {{r} \X RunningAttempts(r) : r \in Runs}]
  /\ UNCHANGED <<canon, verdict, row, attempts, log, notes, proj, conflicts,
                 calls>>

\* mark_interrupted: all the runs of the scan or none, and an event for each.
MarkInterrupted ==
  /\ recover.pc = "mark"
  /\ IF \A r \in recover.runs : run_transition_allowed(row[r], "interrupted")
     THEN /\ row' = [r \in Runs |-> IF r \in recover.runs THEN "interrupted"
                                    ELSE row[r]]
          /\ attempts' = [r \in Runs |-> [n \in DOMAIN attempts[r] |->
               IF /\ attempts[r][n] = "running"
                  /\ r \in recover.runs \/ <<r, n>> \in recover.attempts
               THEN "interrupted" ELSE attempts[r][n]]]
          /\ log' = [r \in Runs |-> IF r \notin recover.runs THEN log[r]
               ELSE [log[r] EXCEPT !.status = Append(@, "interrupted")]]
     ELSE UNCHANGED <<row, attempts, log>>
  /\ recover' = IdleRecover
  /\ UNCHANGED <<canon, verdict, notes, proj, conflicts, calls>>

-----------------------------------------------------------------------------
(* Calls of the library that no process of this repository makes *)

Call == calls < MaxCalls /\ calls' = calls + 1

\* cancel_run; interrupt_run does to a run what a recovery does.
CancelRun(r) ==
  /\ Call
  /\ run_transition_allowed(row[r], "cancelled")
  /\ SetRunStatus(r, "cancelled")
  /\ UNCHANGED <<canon, verdict, notes, proj, recover, conflicts>>

\* set_attempt_status: the row of the run is not looked at.  To "interrupted" is
\* what a recovery does to a listed attempt.
SetAttemptStatus(r, n) ==
  /\ Call
  /\ attempts[r][n] = "running"
  /\ attempts' = [attempts EXCEPT ![r] = [@ EXCEPT ![n] = "cancelled"]]
  /\ UNCHANGED <<canon, verdict, row, log, notes, proj, recover, conflicts>>

\* resume_interrupted_run: the row, and a new attempt.
ResumeInterruptedRun(r) ==
  /\ Call
  /\ row[r] = "interrupted"
  /\ row' = [row EXCEPT ![r] = "running"]
  /\ attempts' = [attempts EXCEPT ![r] =
                    Append(CloseRunning(r, "interrupted"), "running")]
  /\ EmitStatus(r, "running")
  /\ UNCHANGED <<canon, verdict, notes, proj, recover, conflicts>>

-----------------------------------------------------------------------------
(* Specification *)

Init ==
  /\ canon = [r \in Runs |-> 0] /\ verdict = [r \in Runs |-> "none"]
  /\ row = [r \in Runs |-> "none"] /\ attempts = [r \in Runs |-> << >>]
  /\ log = [r \in Runs |-> [status |-> << >>,
                            notes |-> [i \in Positions |-> << >>]]]
  /\ notes = [r \in Runs |-> [i \in Positions |-> Missing]]
  /\ proj = [p \in Projectors |-> Idle] /\ recover = IdleRecover
  /\ conflicts = {} /\ calls = 0

Next ==
  \/ \E p \in Projectors, r \in Runs : StartLive(p, r) \/ StartCatchUp(p, r)
  \/ \E p \in Projectors :
       \/ CheckExisting(p)
       \/ CreateRunWithId(p)
       \/ StartRun(p)
       \/ RunningAttempt(p)
       \/ LatestAttempt(p)
       \/ CreateAttempt(p)
       \/ Project(p)
       \/ ProjectFails(p)
       \/ AppendCanonical(p)
       \/ SealRead(p)
       \/ SealSet(p)
       \/ SealRepair(p)
       \/ SealFails(p)
       \/ Return(p)
       \/ Die(p)
  \/ ScanRuns
  \/ ScanAttempts
  \/ MarkInterrupted
  \/ \E r \in Runs :
       \/ CancelRun(r)
       \/ \E n \in DOMAIN attempts[r] : SetAttemptStatus(r, n)
       \/ ResumeInterruptedRun(r)

Spec == Init /\ [][Next]_vars

-----------------------------------------------------------------------------
(* Properties *)

\* A running attempt is the newest of a run that is running, and alone: no row
\* is settled, whichever way, with an attempt left running under it.
OneRunningAttempt ==
  \A r \in Runs : RunningAttempts(r) # {} =>
    row[r] = "running" /\ RunningAttempts(r) = {Len(attempts[r])}

\* A reader of the event table alone knows every row: the last event of a run
\* that is not a note reports the status the row has.
EventsTellStatus ==
  \A r \in Runs :
    LET events == log[r].status
    IN  row[r] = IF events = << >> THEN "none" ELSE events[Len(events)]

\* A sealed row tells the verdict of the sealed record, never anything else.
VerdictFidelity == \A r \in Runs : row[r] \in Sealed => row[r] = verdict[r]

\* The rows, attempts and events of a run and the record they stand for agree
\* with each other after every transaction.
LedgerAgrees == TypeOK /\ OneRunningAttempt /\ EventsTellStatus /\ VerdictFidelity

\* However many projections run over one record, and die, an event of it has at
\* most one note, under the attempt its idempotency record names.
NotedOnce ==
  \A r \in Runs, i \in Positions :
    log[r].notes[i] = IF notes[r][i] = Missing THEN << >> ELSE <<notes[r][i]>>

\* Projecting an event again conflicts with its record only in a run that was
\* attempted twice or resumed: otherwise every projector finds the attempt the
\* notes were recorded under.
ConflictNeedsSecondAttempt ==
  \A r \in conflicts :
    \/ Len(attempts[r]) > 1
    \/ \E i, j \in DOMAIN log[r].status :
         i < j /\ log[r].status[i] = "running" /\ log[r].status[j] = "running"

\* Replaying a record is harmless: no event is noted twice, and none conflicts
\* with itself in a run of one attempt.
NotesAgree == NotedOnce /\ ConflictNeedsSecondAttempt

\* What a finished projection that reports success promises: each event it read
\* has its note and the row has the status of the verdict it read.
CaughtUp ==
  \A p \in Projectors : proj[p].pc = "done" /\ proj[p].ok =>
    /\ \A i \in 1..proj[p].upto : notes[proj[p].run][i] # Missing
    /\ proj[p].target # "none" => row[proj[p].run] = proj[p].target

=============================================================================
