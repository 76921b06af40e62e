--------------------------- MODULE CommandDispatch ---------------------------
(***************************************************************************)
(* One conversation's commands, from the POST that accepts one to the      *)
(* child run that carries it out (docs/q-deck/r1-command.md).              *)
(*                                                                         *)
(* Three kinds of process share the ledger, the run records and one flock  *)
(* per run id:                                                             *)
(*   - a request: o7d's create_command, with redrive_or_recover_locked     *)
(*     behind it; several may be in progress, and each may be abandoned    *)
(*     between two of its steps;                                           *)
(*   - a child: the `o7 continue` spawned for one run id (continue_run);   *)
(*   - `o7 recover`, which takes no lock at all.                           *)
(* A step is one ledger transaction, one lock call or one stretch of the   *)
(* record.  How the record of a child grows is RunWriter's subject; here   *)
(* it is what classify_command_child tells apart.                          *)
(*                                                                         *)
(* A command is its idempotency key.  Run ids are minted fresh, so a bound *)
(* run belongs to one command for good (`owner`).  updated_at appears only *)
(* as `stale`: every write that changes it also changes the child or the   *)
(* status, which rebind_command_child_run_if_current compares anyway.      *)
(* Requests that are answered without changing anything (malformed, 404,   *)
(* 409, 422, 503, a lost lock) are not steps.                              *)
(***************************************************************************)
EXTENDS Naturals

CONSTANTS
  Commands, NoCommand,  \* idempotency keys
  Runs, NoRun,          \* run ids
  Root,                 \* the finished run the conversation starts from
  Requests,             \* concurrent POST handlers
  RunDirs,              \* the records `o7 recover --run-dir` is given
  MaxFaults             \* bound on failures of any kind

ASSUME Distinct ==
  /\ NoCommand \notin Commands
  /\ NoRun \notin Runs
  /\ Root \in Runs
  /\ RunDirs \subseteq Runs
  /\ MaxFaults \in Nat

VARIABLES
  cmd,       \* the command table: status, parent and child of each key
  owner,     \* which command a run id was minted for
  row,       \* the run table: status of each run, "none" without a row
  tail,      \* the newest row of the conversation
  session,   \* the rows with a provider_session_id
  record,    \* each run's canonical record, as classify_command_child sees it
  returned,  \* the runs whose provider returned a session (its receipt)
  child,     \* the `o7 continue` process of each run id
  invoked,   \* the runs that started their provider
  request,   \* the POST handlers
  recover,   \* the `o7 recover` process
  stale,     \* the commands unchanged for STALE_COMMAND_REDRIVE_MS
  faults     \* failures so far

ledger == <<cmd, owner, row, tail, session>>
vars == <<ledger, record, returned, child, invoked, request, recover, stale,
          faults>>

-----------------------------------------------------------------------------
(* Types *)

CommandStatus == {"none", "accepted", "started", "completed", "rejected"}
RunStatus == {"none", "queued", "running", "interrupted", "terminal"}
RecordState == {"absent", "pre", "dispatched", "sealed", "invalid"}
ChildPc == {"none", "spawned", "locked", "checked", "recorded", "attached",
            "dispatched", "invoked", "sealed", "finishing", "failing", "exited"}
RequestPc == {"idle", "bind", "spawn", "trylock", "classify", "rebind",
              "catchup", "reseal", "complete"}

CommandRow == [status : CommandStatus, parent : Runs \cup {NoRun},
               child : Runs \cup {NoRun}]
RequestState == [pc : RequestPc, key : Commands \cup {NoCommand},
                 run : Runs \cup {NoRun}, lock : Runs \cup {NoRun}]

IdleRequest == [pc |-> "idle", key |-> NoCommand, run |-> NoRun, lock |-> NoRun]
IdleRecover == [pc |-> "idle", run |-> NoRun, scan |-> {}]

TypeOK ==
  /\ cmd \in [Commands -> CommandRow]
  /\ owner \in [Runs -> Commands \cup {NoCommand}]
  /\ row \in [Runs -> RunStatus]
  /\ tail \in Runs
  /\ session \subseteq Runs
  /\ record \in [Runs -> RecordState]
  /\ returned \subseteq Runs
  /\ child \in [Runs -> ChildPc]
  /\ invoked \subseteq Runs
  /\ request \in [Requests -> RequestState]
  /\ recover \in [pc : {"idle", "reseal", "scan", "mark", "reconcile"},
                  run : Runs \cup {NoRun}, scan : SUBSET Runs]
  /\ stale \subseteq Commands
  /\ faults \in 0..MaxFaults
  /\ \A q \in Requests :
       /\ request[q].pc # "idle" => request[q].key \in Commands
       /\ request[q].pc \notin {"idle", "bind"} => request[q].run \in Runs

-----------------------------------------------------------------------------
(* The ledger's conditions *)

\* status IN ('accepted','started')
InFlight(k) == cmd[k].status \in {"accepted", "started"}

\* Run ids are minted by RunId::generate.
Fresh(r) == r # Root /\ owner[r] = NoCommand

parent_candidate_state_usable(p) == record[p] = "sealed"

\* ImplementsCommandContract: any finished run may be continued, the tail or not.
Acceptable_bug(p) ==
  /\ parent_candidate_state_usable(p)
  /\ row[p] = "terminal"
  /\ \A k \in Commands : ~InFlight(k)
  /\ p \in session

\* The candidate state of the parent, then SqliteLedger::create_command.
Acceptable(p) ==
  /\ parent_candidate_state_usable(p)
  /\ row[p] = "terminal"
  /\ tail = p
  /\ \A k \in Commands : ~InFlight(k)
  /\ p \in session

\* attach_run: the row is created once and started if it is queued.
AttachRow(r) ==
  /\ row' = [row EXCEPT ![r] = IF @ \in {"none", "queued"} THEN "running" ELSE @]
  /\ tail' = IF row[r] = "none" THEN r ELSE tail

\* The session of a record's own ProviderSessionCaptured receipt.
Receipt(r) == returned \cap {r}

\* Statuses seal_or_repair_interrupted turns into the record's verdict; the
\* child's own seal does not repair an interrupted row.
Repairable == {"running", "interrupted"}
Sealable == {"running"}

Fault == faults < MaxFaults /\ faults' = faults + 1

\* flock(<runs_dir>/.locks/<run_id>.lock) is held by a child from its first
\* step to its last, and by a request for the whole redrive decision.
Owning == {"locked", "checked", "recorded", "attached", "dispatched",
           "invoked", "sealed", "finishing", "failing"}
LockHeld(r) == \/ child[r] \in Owning
               \/ \E q \in Requests : request[q].lock = r

-----------------------------------------------------------------------------
(* A request: create_command *)

Goto(q, pc) == request' = [request EXCEPT ![q].pc = pc]
Answer(q) == request' = [request EXCEPT ![q] = IdleRequest]

Accept(q, k, p) ==
  /\ request[q].pc = "idle"
  /\ cmd[k].status = "none"
  /\ Acceptable(p)
  /\ cmd' = [cmd EXCEPT ![k] = [status |-> "accepted", parent |-> p,
                                child |-> NoRun]]
  /\ request' = [request EXCEPT ![q] = [IdleRequest EXCEPT !.pc = "bind",
                                                           !.key = k]]
  /\ stale' = stale \ {k}
  /\ UNCHANGED <<owner, row, tail, session, record, returned, child, invoked,
                 recover, faults>>

\* EventuallySettled: a command whose child has a row is left to that child.
Retry_bug(q, k) ==
  /\ request[q].pc = "idle"
  /\ InFlight(k)
  /\ \/ cmd[k].child = NoRun
     \/ k \in stale /\ row[cmd[k].child] = "none"
  /\ request' = [request EXCEPT ![q] =
       [pc |-> IF cmd[k].child = NoRun THEN "bind" ELSE "trylock",
        key |-> k, run |-> cmd[k].child, lock |-> NoRun]]
  /\ UNCHANGED <<ledger, record, returned, child, invoked, recover, stale, faults>>

\* The same key again: the command as it is now, and what to do about it.
Retry(q, k) ==
  /\ request[q].pc = "idle"
  /\ InFlight(k)
  /\ cmd[k].child = NoRun \/ k \in stale
  /\ request' = [request EXCEPT ![q] =
       [pc |-> IF cmd[k].child = NoRun THEN "bind" ELSE "trylock",
        key |-> k, run |-> cmd[k].child, lock |-> NoRun]]
  /\ UNCHANGED <<ledger, record, returned, child, invoked, recover, stale, faults>>

\* bind_command_child_run: only one of several requests finds no child.
Bind(q, r) ==
  LET k == request[q].key IN
  /\ request[q].pc = "bind"
  /\ IF cmd[k].child = NoRun
     THEN /\ Fresh(r)
          /\ cmd' = [cmd EXCEPT ![k] = [@ EXCEPT !.child = r, !.status = "started"]]
          /\ owner' = [owner EXCEPT ![r] = k]
          /\ stale' = stale \ {k}
          /\ request' = [request EXCEPT ![q] = [@ EXCEPT !.pc = "spawn",
                                                         !.run = r]]
     ELSE Answer(q) /\ UNCHANGED <<cmd, owner, stale>>
  /\ UNCHANGED <<row, tail, session, record, returned, child, invoked, recover,
                 faults>>

\* spawn_continue, after a bind or after a rebind.
Spawn(q) ==
  /\ request[q].pc = "spawn"
  /\ child' = [child EXCEPT ![request[q].run] = "spawned"]
  /\ Answer(q)
  /\ UNCHANGED <<ledger, record, returned, invoked, recover, stale, faults>>

-----------------------------------------------------------------------------
(* A request: redrive_or_recover_locked *)

\* ExclusiveContinuation: the lock is probed and not kept.
TryLock_bug(q) ==
  /\ request[q].pc = "trylock"
  /\ IF LockHeld(request[q].run) THEN Answer(q) ELSE Goto(q, "classify")
  /\ UNCHANGED <<ledger, record, returned, child, invoked, recover, stale, faults>>

\* A lock someone else holds: the request reports what it sees and ends.
TryLock(q) ==
  /\ request[q].pc = "trylock"
  /\ IF LockHeld(request[q].run) THEN Answer(q)
     ELSE request' = [request EXCEPT ![q] = [@ EXCEPT !.pc = "classify",
                                             !.lock = request[q].run]]
  /\ UNCHANGED <<ledger, record, returned, child, invoked, recover, stale, faults>>

\* What each classification leads to; an ambiguous or an invalid record is
\* reported and left alone.
Decision(state) ==
  CASE state = "sealed" -> "catchup"
    [] state \in {"absent", "pre"} -> "rebind"
    [] OTHER -> "idle"

Classify(q) ==
  /\ request[q].pc = "classify"
  /\ LET d == Decision(record[request[q].run])
     IN  IF d = "idle" THEN Answer(q) ELSE Goto(q, d)
  /\ UNCHANGED <<ledger, record, returned, child, invoked, recover, stale, faults>>

\* rebind_command_child_run_if_current's comparison.
\* AtMostOneInvocation: any command in flight may be moved to another run.
StillCurrent_bug(k, r) == InFlight(k)
StillCurrent(k, r) == InFlight(k) /\ cmd[k].child = r

Rebind(q, r) ==
  LET k == request[q].key IN
  /\ request[q].pc = "rebind"
  /\ IF StillCurrent(k, request[q].run)
     THEN /\ Fresh(r)
          /\ cmd' = [cmd EXCEPT ![k].child = r]
          /\ owner' = [owner EXCEPT ![r] = k]
          /\ stale' = stale \ {k}
          /\ request' = [request EXCEPT ![q] = [@ EXCEPT !.pc = "spawn",
                                                         !.run = r]]
     ELSE Answer(q) /\ UNCHANGED <<cmd, owner, stale>>
  /\ UNCHANGED <<row, tail, session, record, returned, child, invoked, recover,
                 faults>>

\* recover_sealed_child: attach_run, then seal_or_repair_interrupted and the
\* session of the receipt.
CatchUp(q) ==
  /\ request[q].pc = "catchup"
  /\ AttachRow(request[q].run)
  /\ Goto(q, "reseal")
  /\ UNCHANGED <<cmd, owner, session, record, returned, child, invoked, recover,
                 stale, faults>>

Reseal(q) ==
  LET r == request[q].run IN
  /\ request[q].pc = "reseal"
  /\ row' = [row EXCEPT ![r] = IF @ \in Repairable THEN "terminal" ELSE @]
  /\ session' = session \cup Receipt(r)
  /\ Goto(q, "complete")
  /\ UNCHANGED <<cmd, owner, tail, record, returned, child, invoked, recover,
                 stale, faults>>

\* mark_command_completed_if_bound_and_terminal.
CompleteRecovered(q) ==
  LET k == request[q].key
      r == request[q].run
  IN
  /\ request[q].pc = "complete"
  /\ cmd' = IF InFlight(k) /\ cmd[k].child = r /\ row[r] = "terminal"
            THEN [cmd EXCEPT ![k].status = "completed"] ELSE cmd
  /\ Answer(q)
  /\ UNCHANGED <<owner, row, tail, session, record, returned, child, invoked,
                 recover, stale, faults>>

\* An error, a dropped connection or a crash of o7d between two steps.
Abandon(q) ==
  /\ request[q].pc # "idle"
  /\ Fault
  /\ Answer(q)
  /\ UNCHANGED <<ledger, record, returned, child, invoked, recover, stale>>

-----------------------------------------------------------------------------
(* A child: continue_run and continue_execute *)

ChildGoto(r, pc) == child' = [child EXCEPT ![r] = pc]

\* Another owner of the lock: exit without touching anything.
Lock(r) ==
  /\ child[r] = "spawned"
  /\ ChildGoto(r, IF LockHeld(r) THEN "exited" ELSE "locked")
  /\ UNCHANGED <<ledger, record, returned, invoked, request, recover, stale, faults>>

\* DispatchedStaysBound: a child superseded while it was starting goes on.
CheckBinding_bug(r) ==
  /\ child[r] = "locked"
  /\ ChildGoto(r, "checked")
  /\ UNCHANGED <<ledger, record, returned, invoked, request, recover, stale, faults>>

\* command_still_bound_to_this_run, read with the lock held.
CheckBinding(r) ==
  /\ child[r] = "locked"
  /\ ChildGoto(r, IF cmd[owner[r]].child = r THEN "checked" ELSE "exited")
  /\ UNCHANGED <<ledger, record, returned, invoked, request, recover, stale, faults>>

\* The sidecar files and RunStarted.
StartRecord(r) ==
  /\ child[r] = "checked"
  /\ record' = [record EXCEPT ![r] = "pre"]
  /\ ChildGoto(r, "recorded")
  /\ UNCHANGED <<ledger, returned, invoked, request, recover, stale, faults>>

Attach(r) ==
  /\ child[r] = "recorded"
  /\ AttachRow(r)
  /\ ChildGoto(r, "attached")
  /\ UNCHANGED <<cmd, owner, session, record, returned, invoked, request,
                 recover, stale, faults>>

\* CommandBindingCaptured, materialization and AgentStarted.
AppendAgentStarted(r) ==
  /\ child[r] = "attached"
  /\ record' = [record EXCEPT ![r] = "dispatched"]
  /\ ChildGoto(r, "dispatched")
  /\ UNCHANGED <<ledger, returned, invoked, request, recover, stale, faults>>

\* agent::continue_session, with or without a session id.
Invoke(r) ==
  /\ child[r] = "dispatched"
  /\ invoked' = invoked \cup {r}
  /\ returned' \in {returned, returned \cup {r}}
  /\ ChildGoto(r, "invoked")
  /\ UNCHANGED <<ledger, record, request, recover, stale, faults>>

\* The evidence, the gates and RunSealed.
AppendRunSealed(r) ==
  /\ child[r] = "invoked"
  /\ record' = [record EXCEPT ![r] = "sealed"]
  /\ ChildGoto(r, "sealed")
  /\ UNCHANGED <<ledger, returned, invoked, request, recover, stale, faults>>

\* LiveLedgerProjector::seal: a failure is a warning and the child goes on.
Seal(r) ==
  /\ child[r] = "sealed"
  /\ \/ /\ row' = [row EXCEPT ![r] = IF @ \in Sealable THEN "terminal" ELSE @]
        /\ UNCHANGED faults
     \/ Fault /\ UNCHANGED row
  /\ ChildGoto(r, "finishing")
  /\ UNCHANGED <<cmd, owner, tail, session, record, returned, invoked, request,
                 recover, stale>>

\* set_run_provider_session, then mark_command_completed_if_bound.
PersistSession(r) ==
  /\ child[r] = "finishing"
  /\ Receipt(r) \ session # {}
  /\ session' = session \cup Receipt(r)
  /\ UNCHANGED <<cmd, owner, row, tail, record, returned, child, invoked,
                 request, recover, stale, faults>>

Finish(r) ==
  LET k == owner[r] IN
  /\ child[r] = "finishing"
  /\ Receipt(r) \subseteq session
  /\ cmd' = IF InFlight(k) /\ cmd[k].child = r
            THEN [cmd EXCEPT ![k].status = "completed"] ELSE cmd
  /\ ChildGoto(r, "exited")
  /\ UNCHANGED <<owner, row, tail, session, record, returned, invoked, request,
                 recover, stale, faults>>

\* Where a write to events.jsonl may be under way.
Appending == {"checked", "attached", "invoked"}
TornRecord(r) == \/ UNCHANGED record
                 \/ /\ child[r] \in Appending
                    /\ record' = [record EXCEPT ![r] = "invalid"]

\* An error that continue_run sees: it will try to reject the command.  An
\* attach can fail with its row already there, and not started.
Fail(r) ==
  /\ child[r] \in {"checked", "recorded", "attached", "dispatched", "invoked",
                   "finishing"}
  /\ Fault
  /\ ChildGoto(r, "failing")
  /\ TornRecord(r)
  /\ \/ UNCHANGED <<row, tail>>
     \/ /\ child[r] = "recorded" /\ row[r] = "none"
        /\ row' = [row EXCEPT ![r] = "queued"]
        /\ tail' = r
  /\ UNCHANGED <<cmd, owner, session, returned, invoked, request, recover, stale>>

\* ImplementsCommandContract: the row of the child is not looked at.
Rejectable_bug(k, r) == InFlight(k) /\ cmd[k].child = r

\* mark_command_rejected_if_unattached_and_bound.
Rejectable(k, r) == InFlight(k) /\ cmd[k].child = r /\ row[r] = "none"

Reject(r) ==
  LET k == owner[r] IN
  /\ child[r] = "failing"
  /\ cmd' = IF Rejectable(k, r) THEN [cmd EXCEPT ![k].status = "rejected"]
            ELSE cmd
  /\ ChildGoto(r, "exited")
  /\ UNCHANGED <<owner, row, tail, session, record, returned, invoked, request,
                 recover, stale, faults>>

\* A kill or an early `?`; in the middle of an append the record is torn.
Die(r) ==
  /\ child[r] \in Owning \cup {"spawned"}
  /\ Fault
  /\ ChildGoto(r, "exited")
  /\ TornRecord(r)
  /\ UNCHANGED <<ledger, returned, invoked, request, recover, stale>>

-----------------------------------------------------------------------------
(* Time, and `o7 recover` *)

\* A child that has its lock may take as long as it likes.  One that is not
\* there yet when its command goes stale is slow, which is a fault.
GrowStale(k) ==
  LET r == cmd[k].child IN
  /\ InFlight(k) /\ r # NoRun /\ k \notin stale
  /\ stale' = stale \cup {k}
  /\ IF \/ child[r] = "spawned"
        \/ \E q \in Requests : request[q].pc = "spawn" /\ request[q].run = r
     THEN Fault ELSE UNCHANGED faults
  /\ UNCHANGED <<ledger, record, returned, child, invoked, request, recover>>

\* TerminalMeansSealed: the verdict is not looked at.
AfterAttach_bug(r) == "reseal"
AfterAttach(r) == IF record[r] = "sealed" THEN "reseal" ELSE "scan"

\* recover --run-dir: catch_up_record on a record of any unfinished or
\* finished run, live or dead.  The verdict is read here.
RecoverAttach(r) ==
  /\ recover.pc = "idle"
  /\ r \in RunDirs /\ r # Root
  /\ record[r] \in {"pre", "dispatched", "sealed"}
  /\ ~(record[r] # "sealed" /\ row[r] = "terminal")
  /\ AttachRow(r)
  /\ recover' = [recover EXCEPT !.pc = AfterAttach(r), !.run = r]
  /\ \/ UNCHANGED session
     \/ record[r] = "dispatched" /\ session' = session \cup Receipt(r)
  /\ UNCHANGED <<cmd, owner, record, returned, child, invoked, request, stale,
                 faults>>

RecoverSeal ==
  LET r == recover.run IN
  /\ recover.pc = "reseal"
  /\ row' = [row EXCEPT ![r] = IF @ \in Repairable THEN "terminal" ELSE @]
  /\ session' = session \cup Receipt(r)
  /\ recover' = [recover EXCEPT !.pc = "scan"]
  /\ UNCHANGED <<cmd, owner, tail, record, returned, child, invoked, request,
                 stale, faults>>

\* recover_scan: every running row, whoever is still working on it.
RecoverScan ==
  /\ recover.pc \in {"idle", "scan"}
  /\ recover' = [pc |-> "mark", run |-> NoRun,
                 scan |-> {r \in Runs : row[r] = "running"}]
  /\ UNCHANGED <<ledger, record, returned, child, invoked, request, stale, faults>>

\* mark_interrupted: all of them in one transaction, or none.
MarkInterrupted ==
  /\ recover.pc = "mark"
  /\ IF \A r \in recover.scan : row[r] = "running"
     THEN /\ row' = [r \in Runs |-> IF r \in recover.scan THEN "interrupted"
                                    ELSE row[r]]
          /\ recover' = [IdleRecover EXCEPT !.pc = "reconcile"]
     ELSE recover' = IdleRecover /\ UNCHANGED row
  /\ UNCHANGED <<cmd, owner, tail, session, record, returned, child, invoked,
                 request, stale, faults>>

\* CompletedMeansSealed: any row will do.
SealedRow_bug(r) == row[r] # "none"
SealedRow(r) == row[r] = "terminal"

\* reconcile_completed_commands.
Reconcile ==
  /\ recover.pc = "reconcile"
  /\ cmd' = [k \in Commands |->
               IF InFlight(k) /\ cmd[k].child # NoRun /\ SealedRow(cmd[k].child)
               THEN [cmd[k] EXCEPT !.status = "completed"] ELSE cmd[k]]
  /\ recover' = IdleRecover
  /\ UNCHANGED <<owner, row, tail, session, record, returned, child, invoked,
                 request, stale, faults>>

RecoverStops ==
  /\ recover.pc # "idle"
  /\ recover' = IdleRecover
  /\ UNCHANGED <<ledger, record, returned, child, invoked, request, stale, faults>>

-----------------------------------------------------------------------------

Init ==
  /\ cmd = [k \in Commands |-> [status |-> "none", parent |-> NoRun,
                                child |-> NoRun]]
  /\ owner = [r \in Runs |-> NoCommand]
  /\ row = [r \in Runs |-> IF r = Root THEN "terminal" ELSE "none"]
  /\ tail = Root
  /\ session = {Root}
  /\ record = [r \in Runs |-> IF r = Root THEN "sealed" ELSE "absent"]
  /\ returned = {Root}
  /\ child = [r \in Runs |-> "none"]
  /\ invoked = {}
  /\ request = [q \in Requests |-> IdleRequest]
  /\ recover = IdleRecover
  /\ stale = {}
  /\ faults = 0

RequestStep(q) ==
  \/ \E r \in Runs : Bind(q, r) \/ Rebind(q, r)
  \/ Spawn(q) \/ TryLock(q) \/ Classify(q)
  \/ CatchUp(q) \/ Reseal(q) \/ CompleteRecovered(q)

ChildStep(r) ==
  \/ Lock(r) \/ CheckBinding(r) \/ StartRecord(r) \/ Attach(r)
  \/ AppendAgentStarted(r) \/ Invoke(r) \/ AppendRunSealed(r) \/ Seal(r)
  \/ PersistSession(r) \/ Finish(r) \/ Reject(r)

RecoverStep ==
  \/ \E r \in Runs : RecoverAttach(r)
  \/ RecoverSeal \/ RecoverScan \/ MarkInterrupted \/ Reconcile \/ RecoverStops

Next ==
  \/ \E q \in Requests, k \in Commands :
       (\E p \in Runs : Accept(q, k, p)) \/ Retry(q, k)
  \/ \E q \in Requests : RequestStep(q) \/ Abandon(q)
  \/ \E r \in Runs : ChildStep(r) \/ Fail(r) \/ Die(r)
  \/ \E k \in Commands : GrowStale(k)
  \/ RecoverStep

Spec == Init /\ [][Next]_vars

\* A started handler and a started child go on, providers and gates end, the
\* clock advances, and the client repeats its request under the same key until
\* the command is settled, as docs/q-deck/r1-command.md asks it to.
Fairness ==
  /\ \A q \in Requests : WF_vars(RequestStep(q))
  /\ \A q \in Requests, k \in Commands : WF_vars(Retry(q, k))
  /\ \A r \in Runs : WF_vars(ChildStep(r))
  /\ \A k \in Commands : WF_vars(GrowStale(k))

FairSpec == Spec /\ Fairness

-----------------------------------------------------------------------------
(* Properties *)

\* A command's prompt reaches the provider at most once, whatever retries,
\* redrives, crashes and slow children there are.
AtMostOneInvocation ==
  \A r1, r2 \in invoked : owner[r1] = owner[r2] => r1 = r2

\* Once a run has passed the dispatch boundary its command stays bound to it:
\* the run a client is told about is the one whose provider may have run.
DispatchedStaysBound ==
  \A r \in Runs \ {Root} :
    record[r] \in {"dispatched", "sealed"} =>
      owner[r] \in Commands /\ cmd[owner[r]].child = r

\* A child between its binding check and the seal of its record.
Working == {"checked", "recorded", "attached", "dispatched", "invoked"}

\* No two children of the conversation, of one command or of two, are between
\* their binding check and the seal of their record at the same time.
ExclusiveContinuation ==
  \A r1, r2 \in Runs :
    child[r1] \in Working /\ child[r2] \in Working => r1 = r2

\* A row shows a terminal status only for a record that is sealed, even when
\* `o7 recover` works on a run that is still alive.
TerminalMeansSealed == \A r \in Runs : row[r] = "terminal" => record[r] = "sealed"

\* Whoever completes a command, the child, a redrive or `o7 recover`, the record
\* of its child is sealed.
CompletedMeansSealed ==
  \A k \in Commands :
    cmd[k].status = "completed" =>
      cmd[k].child \in Runs /\ record[cmd[k].child] = "sealed"

\* A rejected command never reached its provider, through any of its children;
\* the contract below implies it.
RejectedRanNothing ==
  \A k \in Commands : cmd[k].status = "rejected" =>
    \A r \in invoked : owner[r] # k

\* The child died past the dispatch boundary, or its record does not verify: the
\* two cases redrive_or_recover_locked leaves to a person.
FailClosed(k) ==
  /\ cmd[k].child # NoRun
  /\ child[cmd[k].child] = "exited"
  /\ record[cmd[k].child] \in {"dispatched", "invalid"}

\* An accepted command does not stay in flight for ever: with a client that
\* retries it is completed, rejected or one of the two fail-closed cases.
EventuallySettled ==
  \A k \in Commands :
    InFlight(k) ~> cmd[k].status \in {"completed", "rejected"} \/ FailClosed(k)

-----------------------------------------------------------------------------
(* What the client is promised *)

\* The phase of a command: its row while nothing is decided, then the record of
\* its child, then its row again.
Phase(k) ==
  LET r == cmd[k].child IN
  IF ~InFlight(k) THEN cmd[k].status
  ELSE IF r = NoRun THEN "accepted"
  ELSE IF record[r] = "sealed" THEN "sealed"
  ELSE IF record[r] = "dispatched" \/ r \in invoked THEN "dispatched"
  ELSE "accepted"

\* The command whose child is the parent run.
Base(k) == IF cmd[k].parent \in Runs THEN owner[cmd[k].parent] ELSE NoCommand

Contract == INSTANCE CommandContract WITH
  Attempts <- Runs,
  phase <- [k \in Commands |-> Phase(k)],
  base <- [k \in Commands |-> Base(k)],
  ran <- [k \in Commands |-> {r \in invoked : owner[r] = k}]

\* The requests, children and recoveries implement CommandContract: one command
\* at a time, each continuing the last completed one and never a second time,
\* its prompt run once at most and past the boundary only, and no way back over
\* the boundary, by a redrive, a rejection or a repair.
ImplementsCommandContract == Contract!ContractSpec

=============================================================================
