----------------------- MODULE LedgerProjectionProofs -----------------------
(***************************************************************************)
(* What LedgerProjection's runs check, for every set of runs, projectors   *)
(* and targets and every length of a record.                               *)
(*                                                                         *)
(* The argument has three layers.  Whatever the step, it is one transaction*)
(* of the run, attempt and event tables (Transaction), and a transaction   *)
(* keeps a run's tables consistent (Table) and moves a run only in ways a  *)
(* projector can live with (Moves): a sealed row stays, and as long as the *)
(* run was not attempted twice, a settled row and the newest attempt stay. *)
(* Records and notes only grow (RecordGrows, NotesGrow).  So what a        *)
(* projector knows (Own) survives the steps of all the others, and each of *)
(* its own steps re-establishes it.                                        *)
(***************************************************************************)
EXTENDS LedgerProjection, SequenceTheorems, TLAPS

-----------------------------------------------------------------------------
(* The tables of one run *)

\* Some event of the run reported the status s.
StatusTold(r, s) == \E i \in DOMAIN log[r].status : log[r].status[i] = s

\* The run was set running twice: after an interruption it was resumed.
Resumed(r) ==
  \E i, j \in DOMAIN log[r].status :
    i < j /\ log[r].status[i] = "running" /\ log[r].status[j] = "running"

\* What ConflictNeedsSecondAttempt asks for.
Twice(r) == Len(attempts[r]) > 1 \/ Resumed(r)

\* The run has left running: latest_attempt is what a projector reads of it.
Settled(r) == row[r] \notin {"none", "queued", "running"}

\* n is the attempt every projector of the run finds; none (0) only when the run
\* was settled before an attempt was created.
Under(r, n) == n = Len(attempts[r]) /\ (n = 0 => Settled(r))

\* The row, the attempts and the status events of a run agree.  A row that was
\* running once has an event that says so.
Table(r) ==
  /\ row[r] \in RunStatus \cup {"none"}
  /\ attempts[r] \in Seq(AttemptStatus)
  /\ log[r].status \in Seq(RunStatus)
  /\ RunningAttempts(r) # {} =>
       row[r] = "running" /\ RunningAttempts(r) = {Len(attempts[r])}
  /\ row[r] = IF log[r].status = << >> THEN "none"
              ELSE log[r].status[Len(log[r].status)]
  /\ Settled(r) \/ row[r] = "running" => StatusTold(r, "running")

\* What a step never takes from a projector of the run.
Moves(r) ==
  /\ row[r] \in Terminal => row'[r] = row[r]
  /\ Twice(r) => Twice(r)'
  /\ ~Twice(r)' /\ Settled(r) => Settled(r)'
  /\ \A n \in Nat : ~Twice(r)' /\ Under(r, n) => Under(r, n)'

\* The changes of status any transaction makes.
LegalMove ==
  {<<"none", "queued">>, <<"queued", "running">>, <<"interrupted", "running">>}
  \cup ({"running"} \X (AttemptStatus \ {"running"}))
  \cup ({"interrupted"} \X Sealed)

\* What a transaction does to the row, the attempts and the status events of a run:
\* attempts closed, an attempt created, or a change of status with its event.
Transaction(r) ==
  /\ attempts'[r] \in Seq(AttemptStatus)
  /\ \/ /\ row'[r] = row[r] /\ log'[r].status = log[r].status
        /\ Len(attempts'[r]) = Len(attempts[r])
        /\ RunningAttempts(r)' \subseteq RunningAttempts(r)
     \/ /\ row'[r] = row[r] /\ log'[r].status = log[r].status
        /\ row[r] = "running" /\ RunningAttempts(r) = {}
        /\ attempts'[r] = Append(attempts[r], "running")
     \/ \E s \in RunStatus :
        /\ <<row[r], s>> \in LegalMove
        /\ row'[r] = s /\ log'[r].status = Append(log[r].status, s)
        /\ \/ Len(attempts'[r]) = Len(attempts[r]) /\ RunningAttempts(r)' = {}
           \/ /\ row[r] = "interrupted" /\ s = "running"
              /\ Len(attempts'[r]) = Len(attempts[r]) + 1
              /\ RunningAttempts(r)' = {Len(attempts'[r])}

\* A transaction keeps a run's tables consistent, and takes nothing from projectors.
LEMMA TableStep ==
  ASSUME NEW r \in Runs, Table(r), Transaction(r)
  PROVE  Table(r)' /\ Moves(r)
<1> DEFINE A == attempts[r]
           B == attempts'[r]
           L == log[r].status
           M == log'[r].status
<1>0. /\ A \in Seq(AttemptStatus) /\ B \in Seq(AttemptStatus) /\ L \in Seq(RunStatus)
      /\ Len(A) \in Nat /\ Len(L) \in Nat /\ DOMAIN A = 1..Len(A) /\ DOMAIN L = 1..Len(L)
      /\ Len(B) \in Nat /\ DOMAIN B = 1..Len(B)
  <2>1. A \in Seq(AttemptStatus) /\ L \in Seq(RunStatus)
    BY DEF Table
  <2>2. B \in Seq(AttemptStatus)
    BY DEF Transaction
  <2> HIDE DEF A, B, L
  <2>3. Len(A) \in Nat /\ DOMAIN A = 1..Len(A)
    BY <2>1
  <2>4. Len(B) \in Nat /\ DOMAIN B = 1..Len(B)
    BY <2>2
  <2>5. Len(L) \in Nat /\ DOMAIN L = 1..Len(L)
    BY <2>1
  <2> QED BY <2>1, <2>2, <2>3, <2>4, <2>5
<1> USE DEF Table, RunStatus, AttemptStatus, Sealed
<1>1. CASE /\ row'[r] = row[r] /\ M = L
           /\ Len(B) = Len(A)
           /\ RunningAttempts(r)' \subseteq RunningAttempts(r)
  <2>1. Table(r)'
    BY <1>0, <1>1 DEF Settled, StatusTold
  <2>2. Moves(r)
    BY <1>0, <1>1 DEF Moves, Twice, Resumed, Settled, Under
  <2> QED BY <2>1, <2>2
<1>2. CASE /\ row'[r] = row[r] /\ M = L
           /\ row[r] = "running" /\ RunningAttempts(r) = {}
           /\ B = Append(A, "running")
  <2>0. /\ Len(B) = Len(A) + 1 /\ B[Len(A) + 1] = "running"
        /\ \A n \in 1..Len(A) : B[n] = A[n]
    BY <1>0, <1>2
  <2>1. RunningAttempts(r)' = {Len(B)}
    BY <1>0, <1>2, <2>0 DEF RunningAttempts
  <2>2. Table(r)'
    BY <1>0, <1>2, <2>0, <2>1 DEF Settled, StatusTold
  <2>3. Moves(r)
    BY <1>0, <1>2, <2>0 DEF Moves, Twice, Resumed, Settled, Under
  <2> QED BY <2>2, <2>3
<1>3. ASSUME NEW s \in RunStatus,
             <<row[r], s>> \in LegalMove,
             row'[r] = s, M = Append(L, s),
             \/ Len(B) = Len(A) /\ RunningAttempts(r)' = {}
             \/ /\ row[r] = "interrupted" /\ s = "running"
                /\ Len(B) = Len(A) + 1
                /\ RunningAttempts(r)' = {Len(B)}
      PROVE  Table(r)' /\ Moves(r)
  <2>0. /\ M \in Seq(RunStatus) /\ Len(M) = Len(L) + 1 /\ M[Len(M)] = s /\ M # << >>
        /\ DOMAIN M = 1..Len(M)
        /\ \A i \in 1..Len(L) : M[i] = L[i]
    BY <1>0, <1>3, SMTT(40)
  <2>1. StatusTold(r, "running") => StatusTold(r, "running")'
    BY <1>0, <2>0 DEF StatusTold
  <2>2. s = "running" => StatusTold(r, "running")'
    BY <1>0, <2>0 DEF StatusTold
  <2>3. s # "queued" /\ s # "running" => row[r] \in {"running", "interrupted"}
    BY <1>3 DEF LegalMove
  <2>4. Table(r)'
    <3>1. Settled(r)' \/ row'[r] = "running" => StatusTold(r, "running")'
      BY <1>3, <2>1, <2>2, <2>3 DEF Settled
    <3> QED BY <1>0, <1>3, <2>0, <3>1
  <2>5. Twice(r) => Twice(r)'
    <3>1. ASSUME Resumed(r) PROVE Resumed(r)'
      <4>1. PICK i, j \in 1..Len(L) : i < j /\ L[i] = "running" /\ L[j] = "running"
        BY <1>0, <3>1 DEF Resumed
      <4>2. i \in 1..Len(M) /\ j \in 1..Len(M) /\ M[i] = "running" /\ M[j] = "running"
        BY <1>0, <2>0, <4>1, SMTT(40)
      <4> QED BY <2>0, <4>1, <4>2 DEF Resumed
    <3> QED BY <1>0, <1>3, <3>1 DEF Twice
  <2>6. row[r] = "interrupted" /\ s = "running" => Twice(r)'
    <3> SUFFICES ASSUME row[r] = "interrupted", s = "running" PROVE Resumed(r)'
      BY DEF Twice
    <3>1. PICK i \in 1..Len(L) : L[i] = "running"
      BY <1>0 DEF Settled, StatusTold
    <3>2. /\ i \in 1..Len(M) /\ Len(M) \in 1..Len(M) /\ i < Len(M)
          /\ M[i] = "running" /\ M[Len(M)] = "running"
      BY <1>0, <2>0, <3>1
    <3> QED BY <2>0, <3>2 DEF Resumed
  <2>7. row[r] \notin Terminal
    BY <1>3 DEF LegalMove, Terminal
  <2>8. ~Twice(r)' /\ Settled(r) => Settled(r)'
    BY <1>3, <2>6 DEF LegalMove, Settled
  <2>9. \A n \in Nat : ~Twice(r)' /\ Under(r, n) => Under(r, n)'
    BY <1>0, <1>3, <2>6, <2>8 DEF Under
  <2> QED BY <2>4, <2>5, <2>7, <2>8, <2>9 DEF Moves
<1> QED
  BY <1>1, <1>2, <1>3 DEF Transaction

-----------------------------------------------------------------------------
(* The invariant *)

\* The tables of every run agree.
Tables == \A r \in Runs : Table(r)

\* A record has its verdict when RunSealed is its last event.
SealedRecords == \A r \in Runs : verdict[r] # "none" <=> canon[r] = Last

\* The steps of attach_run and of seal_inner.
Attaching == {"check", "create", "start", "running_attempt", "create_attempt",
              "latest_attempt"}
Sealing == {"seal", "set", "repair"}

\* What a projector read of its record is still a prefix of it.
Reads(p) ==
  proj[p].pc # "idle" =>
    /\ proj[p].run \in Runs
    /\ proj[p].upto \in 1..canon[proj[p].run]
    /\ proj[p].target # "none" => proj[p].target = verdict[proj[p].run]
    /\ proj[p].pc \in Attaching => proj[p].next = 1
    /\ proj[p].pc = "project" => proj[p].next <= proj[p].upto
    /\ proj[p].pc \in Sealing \cup {"append"} => proj[p].next = proj[p].upto + 1
    /\ proj[p].pc = "append" => proj[p].live /\ proj[p].target = "none"
    /\ proj[p].pc \in Sealing => proj[p].target # "none"

\* A live writer is the only one of its run, and knows the whole record.
Writes(p) ==
  proj[p].live =>
    /\ proj[p].pc \notin {"idle", "done"}
    /\ proj[p].upto = canon[proj[p].run] /\ proj[p].target = verdict[proj[p].run]
    /\ \A q \in Projectors :
         proj[q].live /\ proj[q].run = proj[p].run => q = p

\* What the projectors read is in the records.
Reading == \A p \in Projectors : Reads(p) /\ Writes(p)

\* A success that a finished projection reports still holds.
Caught(p) ==
  proj[p].pc = "done" /\ proj[p].ok =>
    /\ \A i \in 1..proj[p].upto : notes[proj[p].run][i] # Missing
    /\ proj[p].target # "none" => row[proj[p].run] = proj[p].target

\* A projection without a warning has noted every event it passed.
Noted(p) ==
  proj[p].pc \notin {"idle", "done"} /\ proj[p].ok =>
    \A i \in 1..(proj[p].next - 1) : notes[proj[p].run][i] # Missing

\* In a run of one attempt, a projector has attached to the attempt all others find.
Single(p) ==
  proj[p].pc # "idle" /\ ~Twice(proj[p].run) =>
    /\ proj[p].pc = "latest_attempt" => Settled(proj[p].run)
    /\ proj[p].pc \in {"project", "append"} \cup Sealing =>
         Under(proj[p].run, proj[p].attempt)

\* What a projector may conclude about the ledger.
Knows(p) == Caught(p) /\ Noted(p) /\ Single(p)

\* In a run of one attempt, all the notes are under the attempt projectors find.
NotesUnder ==
  \A r \in Runs, i \in Positions :
    notes[r][i] # Missing /\ ~Twice(r) => Under(r, notes[r][i])

\* The inductive invariant.
Inv ==
  /\ TypeOK /\ Tables /\ SealedRecords /\ VerdictFidelity /\ Reading
  /\ \A p \in Projectors : Knows(p)
  /\ NotedOnce /\ NotesUnder /\ \A r \in conflicts : Twice(r)

-----------------------------------------------------------------------------
(* Each step is a transaction of the tables *)

\* Attempts that are relabelled one by one are still a sequence of attempts.
LEMMA Relabelled ==
  ASSUME NEW s \in Seq(AttemptStatus), NEW f, DOMAIN f = DOMAIN s,
         f = [n \in DOMAIN s |-> f[n]],
         \A n \in DOMAIN s : f[n] \in AttemptStatus
  PROVE  f \in Seq(AttemptStatus) /\ Len(f) = Len(s)
<1>1. Len(s) \in Nat /\ DOMAIN s = 1..Len(s)
  OBVIOUS
<1>2. f \in [1..Len(s) -> AttemptStatus]
  BY <1>1
<1> QED
  BY <1>1, <1>2

\* Closing the running attempts relabels them.
LEMMA CloseRunningType ==
  ASSUME NEW r \in Runs, attempts[r] \in Seq(AttemptStatus), NEW to \in AttemptStatus
  PROVE  /\ CloseRunning(r, to) \in Seq(AttemptStatus)
         /\ Len(CloseRunning(r, to)) = Len(attempts[r])
<1> DEFINE f == CloseRunning(r, to)
<1>1. /\ DOMAIN f = DOMAIN attempts[r] /\ f = [n \in DOMAIN attempts[r] |-> f[n]]
      /\ \A n \in DOMAIN attempts[r] : f[n] \in AttemptStatus
  BY DEF CloseRunning
<1> HIDE DEF f
<1>2. f \in Seq(AttemptStatus) /\ Len(f) = Len(attempts[r])
  BY <1>1, Relabelled
<1> QED
  BY <1>2 DEF f

\* emit_event appends to the event table, a status or a note.
LEMMA EmitStatusType ==
  ASSUME log \in [Runs -> LogRow], NEW r \in Runs, NEW s \in RunStatus, EmitStatus(r, s)
  PROVE  log' \in [Runs -> LogRow]
<1>1. log[r] \in LogRow
  OBVIOUS
<1>2. Append(log[r].status, s) \in Seq(RunStatus)
  BY <1>1 DEF LogRow
<1>3. [log[r] EXCEPT !.status = Append(@, s)] \in LogRow
  BY <1>1, <1>2 DEF LogRow
<1> QED
  BY <1>3 DEF EmitStatus

\* The same for a note.
LEMMA EmitNoteType ==
  ASSUME log \in [Runs -> LogRow], NEW r \in Runs, NEW i \in Positions, NEW n \in Nat,
         EmitNote(r, i, n)
  PROVE  log' \in [Runs -> LogRow]
<1>1. log[r] \in LogRow
  OBVIOUS
<1>2. Append(log[r].notes[i], n) \in Seq(Nat)
  BY <1>1 DEF LogRow
<1>3. [log[r] EXCEPT !.notes[i] = Append(@, n)] \in LogRow
  BY <1>1, <1>2 DEF LogRow
<1> QED
  BY <1>3 DEF EmitNote

\* The types of the tables a transaction writes.
TableTypes ==
  /\ row \in [Runs -> RunStatus \cup {"none"}]
  /\ attempts \in [Runs -> Seq(AttemptStatus)]
  /\ log \in [Runs -> LogRow]

\* What emit_event does to the status events of each run.
LEMMA EmitStatusEffect ==
  ASSUME log \in [Runs -> LogRow], NEW r \in Runs, NEW s, EmitStatus(r, s), NEW q \in Runs
  PROVE  log'[q].status = IF q = r THEN Append(log[q].status, s) ELSE log[q].status
BY DEF EmitStatus, LogRow

\* set_run_status, of a transition that is allowed.
LEMMA SetRunStatusStep ==
  ASSUME TableTypes, Tables, NEW r \in Runs, NEW to \in AttemptStatus,
         run_transition_allowed(row[r], to), SetRunStatus(r, to)
  PROVE  TableTypes' /\ \A q \in Runs : Transaction(q)
<1>0. to \in RunStatus /\ <<row[r], to>> \in LegalMove
  BY DEF run_transition_allowed, LegalMove, RunStatus
<1>1. /\ CloseRunning(r, to) \in Seq(AttemptStatus)
      /\ Len(CloseRunning(r, to)) = Len(attempts[r])
  BY CloseRunningType DEF TableTypes
<1>2. TableTypes'
  BY <1>0, <1>1, EmitStatusType DEF TableTypes, SetRunStatus, Closed
<1>3. ASSUME NEW q \in Runs PROVE Transaction(q)
  <2>1. CASE q # r
    BY <1>2, <2>1, EmitStatusEffect
       DEF TableTypes, SetRunStatus, Closed, Transaction, RunningAttempts
  <2>2. CASE q = r
    <3>1. /\ row'[q] = to /\ log'[q].status = Append(log[q].status, to)
          /\ attempts'[q] \in Seq(AttemptStatus)
      BY <1>2, <2>2, EmitStatusEffect DEF TableTypes, SetRunStatus
    <3>2. Len(attempts'[q]) = Len(attempts[q])
      BY <1>1, <2>2 DEF SetRunStatus, Closed, TableTypes
    <3>3. RunningAttempts(q)' = {}
      <4>1. CASE to = "running"
        BY <2>2, <4>1 DEF run_transition_allowed, SetRunStatus, Closed, RunningAttempts,
           Tables, Table
      <4>2. CASE to # "running"
        BY <2>2, <4>2 DEF SetRunStatus, Closed, RunningAttempts, CloseRunning, TableTypes
      <4> QED BY <4>1, <4>2
    <3> QED BY <1>0, <2>2, <3>1, <3>2, <3>3 DEF Transaction
  <2> QED BY <2>1, <2>2
<1> QED
  BY <1>2, <1>3

\* create_run_with_id of a new run.
LEMMA CreateRunStep ==
  ASSUME TableTypes, Tables, NEW r \in Runs, row[r] = "none", CreateRun(r),
         UNCHANGED attempts
  PROVE  TableTypes' /\ \A q \in Runs : Transaction(q)
<1>0. "queued" \in RunStatus /\ <<row[r], "queued">> \in LegalMove
  BY DEF LegalMove, RunStatus
<1>1. TableTypes'
  BY <1>0, EmitStatusType DEF TableTypes, CreateRun
<1>2. ASSUME NEW q \in Runs PROVE Transaction(q)
  <2>1. attempts'[q] = attempts[q] /\ RunningAttempts(q)' = RunningAttempts(q)
    BY DEF RunningAttempts
  <2>2. CASE q # r
    BY <1>1, <2>1, <2>2, EmitStatusEffect DEF TableTypes, CreateRun, Transaction
  <2>3. CASE q = r
    <3>1. row'[q] = "queued" /\ log'[q].status = Append(log[q].status, "queued")
      BY <2>3, EmitStatusEffect DEF TableTypes, CreateRun
    <3>2. RunningAttempts(q) = {}
      BY <2>3 DEF Tables, Table
    <3> QED BY <1>0, <1>1, <2>1, <2>3, <3>1, <3>2 DEF TableTypes, Transaction
  <2> QED BY <2>2, <2>3
<1> QED
  BY <1>1, <1>2

\* repair_interrupted_run_to_terminal.
LEMMA RepairStep ==
  ASSUME TableTypes, Tables, NEW r \in Runs, NEW to \in Sealed, row[r] = "interrupted",
         RepairInterrupted(r, to)
  PROVE  TableTypes' /\ \A q \in Runs : Transaction(q)
<1> DEFINE f == [n \in DOMAIN attempts[r] |->
                   IF n = LatestInterrupted(r) THEN to ELSE attempts[r][n]]
<1>0. to \in RunStatus /\ to \in AttemptStatus /\ <<row[r], to>> \in LegalMove
  BY DEF LegalMove, RunStatus, AttemptStatus
<1>1. f \in Seq(AttemptStatus) /\ Len(f) = Len(attempts[r])
  <2>1. /\ DOMAIN f = DOMAIN attempts[r] /\ f = [n \in DOMAIN attempts[r] |-> f[n]]
        /\ \A n \in DOMAIN attempts[r] : f[n] \in AttemptStatus
    BY <1>0 DEF TableTypes
  <2> HIDE DEF f
  <2> QED BY <2>1, Relabelled DEF TableTypes
<1>2. attempts' = [attempts EXCEPT ![r] = f]
  BY DEF RepairInterrupted, TableTypes
<1>3. RunningAttempts(r)' = {}
  <2>1. \A n \in DOMAIN attempts[r] : attempts[r][n] # "running"
    BY DEF RunningAttempts, Tables, Table
  <2>2. attempts'[r] = f /\ to # "running"
    BY <1>2 DEF TableTypes, Sealed
  <2> QED BY <2>1, <2>2 DEF RunningAttempts
<1> HIDE DEF f
<1>4. TableTypes'
  BY <1>0, <1>1, <1>2, EmitStatusType DEF TableTypes, RepairInterrupted
<1>5. ASSUME NEW q \in Runs PROVE Transaction(q)
  <2>1. CASE q # r
    BY <1>2, <1>4, <2>1, EmitStatusEffect, SMTT(40)
       DEF TableTypes, RepairInterrupted, Transaction, RunningAttempts
  <2>2. CASE q = r
    BY <1>0, <1>1, <1>2, <1>3, <1>4, <2>2, EmitStatusEffect
       DEF TableTypes, RepairInterrupted, Transaction
  <2> QED BY <2>1, <2>2
<1> QED
  BY <1>4, <1>5

\* resume_interrupted_run: the only way to a second running event.
LEMMA ResumeStep ==
  ASSUME TableTypes, Tables, NEW r \in Runs, ResumeInterruptedRun(r)
  PROVE  TableTypes' /\ \A q \in Runs : Transaction(q)
<1> DEFINE f == CloseRunning(r, "interrupted")
           g == Append(f, "running")
<1>0. /\ "running" \in RunStatus /\ "running" \in AttemptStatus
      /\ "interrupted" \in AttemptStatus /\ <<row[r], "running">> \in LegalMove
  BY DEF LegalMove, RunStatus, AttemptStatus, ResumeInterruptedRun
<1>1. f \in Seq(AttemptStatus) /\ Len(f) = Len(attempts[r])
  BY <1>0, CloseRunningType DEF TableTypes
<1>2. \A n \in DOMAIN f : f[n] # "running"
  BY DEF CloseRunning
<1> HIDE DEF f
<1>3. /\ g \in Seq(AttemptStatus) /\ Len(g) = Len(f) + 1 /\ g[Len(g)] = "running"
      /\ \A n \in 1..Len(f) : g[n] = f[n]
  BY <1>0, <1>1
<1>4. {n \in DOMAIN g : g[n] = "running"} = {Len(g)}
  BY <1>1, <1>2, <1>3
<1>5. attempts' = [attempts EXCEPT ![r] = g]
  BY DEF ResumeInterruptedRun, f
<1> HIDE DEF g
<1>6. TableTypes'
  BY <1>0, <1>3, <1>5, EmitStatusType DEF TableTypes, ResumeInterruptedRun
<1>7. ASSUME NEW q \in Runs PROVE Transaction(q)
  <2>1. CASE q # r
    BY <1>5, <1>6, <2>1, EmitStatusEffect
       DEF TableTypes, ResumeInterruptedRun, Transaction, RunningAttempts
  <2>2. CASE q = r
    <3>1. attempts'[q] = g
      BY <1>5, <2>2 DEF TableTypes
    <3>2. RunningAttempts(q)' = {Len(attempts'[q])}
      BY <1>4, <3>1 DEF RunningAttempts
    <3>3. /\ row'[q] = "running" /\ row[q] = "interrupted"
          /\ log'[q].status = Append(log[q].status, "running")
      BY <2>2, EmitStatusEffect DEF TableTypes, ResumeInterruptedRun
    <3>4. Len(attempts'[q]) = Len(attempts[q]) + 1 /\ attempts'[q] \in Seq(AttemptStatus)
      BY <1>1, <1>3, <2>2, <3>1
    <3> QED BY <1>0, <2>2, <3>2, <3>3, <3>4 DEF Transaction
  <2> QED BY <2>1, <2>2
<1> QED
  BY <1>6, <1>7

\* mark_interrupted, of the runs a scan listed: all of them or none.
LEMMA MarkStep ==
  ASSUME TableTypes, Tables, recover.runs \subseteq Runs, MarkInterrupted
  PROVE  TableTypes' /\ \A q \in Runs : Transaction(q)
<1>1. CASE UNCHANGED <<row, attempts, log>>
  BY <1>1 DEF TableTypes, Transaction, RunningAttempts
<1>2. CASE ~UNCHANGED <<row, attempts, log>>
  <2>0. "interrupted" \in RunStatus /\ "interrupted" \in AttemptStatus
    BY DEF RunStatus, AttemptStatus
  <2>1. ASSUME NEW q \in Runs
        PROVE  /\ attempts'[q] \in Seq(AttemptStatus)
               /\ Len(attempts'[q]) = Len(attempts[q])
               /\ RunningAttempts(q)' \subseteq RunningAttempts(q)
               /\ q \in recover.runs => RunningAttempts(q)' = {}
    <3> DEFINE f == attempts'[q]
    <3>1. f = [n \in DOMAIN attempts[q] |->
               IF /\ attempts[q][n] = "running"
                  /\ q \in recover.runs \/ <<q, n>> \in recover.attempts
               THEN "interrupted" ELSE attempts[q][n]]
      BY <1>2 DEF MarkInterrupted
    <3>2. /\ DOMAIN f = DOMAIN attempts[q] /\ f = [n \in DOMAIN attempts[q] |-> f[n]]
          /\ \A n \in DOMAIN attempts[q] : f[n] \in AttemptStatus
      BY <2>0, <3>1 DEF TableTypes
    <3>3. /\ {n \in DOMAIN f : f[n] = "running"} \subseteq RunningAttempts(q)
          /\ q \in recover.runs => {n \in DOMAIN f : f[n] = "running"} = {}
      BY <3>1 DEF RunningAttempts
    <3>4. RunningAttempts(q)' = {n \in DOMAIN f : f[n] = "running"}
      BY DEF RunningAttempts
    <3> HIDE DEF f
    <3>5. f \in Seq(AttemptStatus) /\ Len(f) = Len(attempts[q])
      BY <3>2, Relabelled DEF TableTypes
    <3> QED BY <3>3, <3>4, <3>5 DEF f
  <2>2. ASSUME NEW q \in Runs
        PROVE  /\ row'[q] = IF q \in recover.runs THEN "interrupted" ELSE row[q]
               /\ log'[q] = IF q \in recover.runs
                            THEN [log[q] EXCEPT !.status = Append(@, "interrupted")]
                            ELSE log[q]
               /\ q \in recover.runs => row[q] = "running"
    BY <1>2 DEF MarkInterrupted, run_transition_allowed
  <2>3. ASSUME NEW q \in Runs
        PROVE  log'[q] \in LogRow /\ (q \in recover.runs =>
                 log'[q].status = Append(log[q].status, "interrupted"))
    <3>1. log[q] \in LogRow
      BY DEF TableTypes
    <3>2. Append(log[q].status, "interrupted") \in Seq(RunStatus)
      BY <2>0, <3>1 DEF LogRow
    <3>3. [log[q] EXCEPT !.status = Append(@, "interrupted")] \in LogRow
      BY <3>1, <3>2 DEF LogRow
    <3> QED BY <2>2, <3>1, <3>3 DEF LogRow
  <2>4. TableTypes'
    <3>1. /\ row' = [q \in Runs |-> row'[q]] /\ attempts' = [q \in Runs |-> attempts'[q]]
          /\ log' = [q \in Runs |-> log'[q]]
      BY <1>2 DEF MarkInterrupted
    <3>2. row' \in [Runs -> RunStatus \cup {"none"}]
      BY <2>0, <2>2, <3>1 DEF TableTypes
    <3> QED BY <2>1, <2>3, <3>1, <3>2 DEF TableTypes
  <2>5. ASSUME NEW q \in Runs PROVE Transaction(q)
    <3>1. CASE q \in recover.runs
      <4>1. <<row[q], "interrupted">> \in LegalMove
        BY <2>2, <3>1 DEF LegalMove, AttemptStatus
      <4> QED BY <2>0, <2>1, <2>2, <2>3, <3>1, <4>1 DEF Transaction
    <3>2. CASE q \notin recover.runs
      BY <2>1, <2>2, <3>2 DEF Transaction
    <3> QED BY <3>1, <3>2
  <2> QED BY <2>4, <2>5
<1> QED
  BY <1>1, <1>2

\* The event a projector is about to note is one of its record.
LEMMA ProjectPlace ==
  ASSUME TypeOK, NEW p \in Projectors, Reads(p), proj[p].pc = "project"
  PROVE  /\ proj[p].run \in Runs /\ proj[p].next \in Positions /\ proj[p].attempt \in Nat
         /\ proj[p].upto \in Positions /\ proj[p].next <= proj[p].upto
<1>1. /\ proj[p].run \in Runs /\ proj[p].upto \in 1..canon[proj[p].run]
      /\ proj[p].next <= proj[p].upto
  BY DEF Reads
<1>2. canon[proj[p].run] \in 0..Last /\ proj[p] \in ProjectorState
  BY <1>1 DEF TypeOK
<1>3. proj[p].next \in 1..(Last + 1) /\ proj[p].attempt \in Nat
  BY <1>2 DEF ProjectorState
<1> QED
  BY <1>1, <1>2, <1>3, Parameters DEF Positions

\* The tables have one transaction at a time, and each run's part of it is one of
\* those of Transaction.
LEMMA TransactionStep ==
  ASSUME TypeOK, Tables, Reading, Next
  PROVE  TableTypes' /\ \A q \in Runs : Transaction(q)
<1>0. TableTypes
  BY DEF TypeOK, TableTypes
<1>1. CASE UNCHANGED <<row, attempts>> /\ TableTypes' /\
           \A q \in Runs : log'[q].status = log[q].status
  BY <1>0, <1>1 DEF TableTypes, Transaction, RunningAttempts
<1>2. ASSUME NEW p \in Projectors, CreateRunWithId(p)
      PROVE  TableTypes' /\ \A q \in Runs : Transaction(q)
  BY <1>0, <1>1, <1>2, CreateRunStep DEF CreateRunWithId, Reading, Reads, TableTypes
<1>3. ASSUME NEW p \in Projectors, StartRun(p)
      PROVE  TableTypes' /\ \A q \in Runs : Transaction(q)
  <2>1. proj[p].run \in Runs /\ "running" \in AttemptStatus
    BY <1>3 DEF StartRun, Reading, Reads, AttemptStatus
  <2> QED BY <1>0, <1>1, <1>3, <2>1, SetRunStatusStep DEF StartRun, TableTypes
<1>4. ASSUME NEW p \in Projectors, CreateAttempt(p)
      PROVE  TableTypes' /\ \A q \in Runs : Transaction(q)
  <2>1. CASE UNCHANGED attempts
    BY <1>0, <1>1, <1>4, <2>1 DEF CreateAttempt, TableTypes
  <2>2. CASE ~UNCHANGED attempts
    <3> DEFINE r == proj[p].run
    <3>1. r \in Runs /\ "running" \in AttemptStatus /\ attempts[r] \in Seq(AttemptStatus)
      BY <1>0, <1>4 DEF CreateAttempt, Reading, Reads, AttemptStatus, TableTypes
    <3>2. Append(attempts[r], "running") \in Seq(AttemptStatus)
      BY <3>1
    <3>3. /\ row[r] = "running" /\ RunningAttempts(r) = {}
          /\ attempts' = [attempts EXCEPT ![r] = Append(@, "running")]
          /\ UNCHANGED <<row, log>>
      BY <1>4, <2>2 DEF CreateAttempt, CanCreateAttempt
    <3> HIDE DEF r
    <3>4. TableTypes'
      BY <1>0, <3>1, <3>2, <3>3 DEF TableTypes
    <3> QED BY <1>0, <3>1, <3>2, <3>3, <3>4 DEF Transaction, TableTypes, RunningAttempts
  <2> QED BY <2>1, <2>2
<1>5. ASSUME NEW p \in Projectors, SealSet(p)
      PROVE  TableTypes' /\ \A q \in Runs : Transaction(q)
  <2>1. proj[p].run \in Runs /\ proj[p].target \in AttemptStatus
    BY <1>5, Parameters DEF SealSet, Reading, Reads, Sealing, AttemptStatus, TypeOK,
       ProjectorState
  <2> QED BY <1>0, <1>1, <1>5, <2>1, SetRunStatusStep DEF SealSet, TableTypes
<1>6. ASSUME NEW p \in Projectors, SealRepair(p)
      PROVE  TableTypes' /\ \A q \in Runs : Transaction(q)
  <2>1. proj[p].run \in Runs /\ proj[p].target \in Sealed
    BY <1>6, Parameters DEF SealRepair, Reading, Reads, Sealing, TypeOK, ProjectorState
  <2> QED BY <1>0, <1>1, <1>6, <2>1, RepairStep DEF SealRepair, TableTypes
<1>7. ASSUME NEW p \in Projectors, Project(p)
      PROVE  TableTypes' /\ \A q \in Runs : Transaction(q)
  <2>1. CASE UNCHANGED log
    BY <1>0, <1>1, <1>7, <2>1 DEF Project, TableTypes
  <2>2. CASE ~UNCHANGED log
    <3>1. /\ proj[p].run \in Runs /\ proj[p].next \in Positions /\ proj[p].attempt \in Nat
          /\ EmitNote(proj[p].run, proj[p].next, proj[p].attempt)
          /\ UNCHANGED <<row, attempts>>
      BY <1>7, <2>2, ProjectPlace DEF Project, Reading
    <3>2. TableTypes'
      BY <1>0, <3>1, EmitNoteType DEF TableTypes
    <3>3. \A q \in Runs : log'[q].status = log[q].status
      BY <1>0, <3>1 DEF EmitNote, TableTypes, LogRow
    <3> QED BY <1>1, <3>1, <3>2, <3>3
  <2> QED BY <2>1, <2>2
<1>8. CASE MarkInterrupted
  BY <1>0, <1>8, MarkStep DEF TypeOK
<1>9. ASSUME NEW r \in Runs, CancelRun(r)
      PROVE  TableTypes' /\ \A q \in Runs : Transaction(q)
  <2>1. "cancelled" \in AttemptStatus
    BY DEF AttemptStatus
  <2> QED BY <1>0, <1>9, <2>1, SetRunStatusStep DEF CancelRun
<1>10. ASSUME NEW r \in Runs, NEW n \in DOMAIN attempts[r], SetAttemptStatus(r, n)
       PROVE  TableTypes' /\ \A q \in Runs : Transaction(q)
  <2> DEFINE f == [attempts[r] EXCEPT ![n] = "cancelled"]
  <2>1. f \in Seq(AttemptStatus) /\ Len(f) = Len(attempts[r])
    BY <1>0, ExceptSeq DEF AttemptStatus, TableTypes
  <2>2. {m \in DOMAIN f : f[m] = "running"} \subseteq RunningAttempts(r)
    BY DEF RunningAttempts
  <2>3. attempts' = [attempts EXCEPT ![r] = f] /\ UNCHANGED <<row, log>>
    BY <1>10 DEF SetAttemptStatus
  <2> HIDE DEF f
  <2>4. TableTypes'
    BY <1>0, <2>1, <2>3 DEF TableTypes
  <2> QED BY <1>0, <2>1, <2>2, <2>3, <2>4 DEF TableTypes, Transaction, RunningAttempts
<1>11. ASSUME NEW r \in Runs, ResumeInterruptedRun(r)
       PROVE  TableTypes' /\ \A q \in Runs : Transaction(q)
  BY <1>0, <1>11, ResumeStep
<1>12. ASSUME NEW p \in Projectors,
              \/ \E r \in Runs : StartLive(p, r) \/ StartCatchUp(p, r)
              \/ CheckExisting(p) \/ RunningAttempt(p) \/ LatestAttempt(p)
              \/ ProjectFails(p) \/ AppendCanonical(p) \/ SealRead(p) \/ SealFails(p)
              \/ Return(p) \/ Die(p)
       PROVE  TableTypes' /\ \A q \in Runs : Transaction(q)
  <2>1. UNCHANGED <<row, attempts, log>>
    BY <1>12 DEF StartLive, StartCatchUp, CheckExisting, RunningAttempt, LatestAttempt,
       ProjectFails, AppendCanonical, SealRead, SealFails, Return, Die
  <2> QED BY <1>0, <1>1, <2>1, SMTT(40) DEF TableTypes
<1>13. CASE ScanRuns \/ ScanAttempts
  BY <1>0, <1>1, <1>13 DEF ScanRuns, ScanAttempts, TableTypes
<1> QED
  BY <1>2, <1>3, <1>4, <1>5, <1>6, <1>7, <1>8, <1>9, <1>10, <1>11, <1>12, <1>13 DEF Next

-----------------------------------------------------------------------------
(* What a step makes of the projector that takes it *)

\* The projectors other than p did not move.
Others(p) == \A q \in Projectors \ {p} : proj'[q] = proj[q]

\* Goto changes the place of a projector and nothing else.
LEMMA GotoEffect ==
  ASSUME proj \in [Projectors -> ProjectorState], NEW p \in Projectors,
         NEW c \in ProjectorPc, Goto(p, c)
  PROVE  /\ proj' \in [Projectors -> ProjectorState] /\ Others(p)
         /\ proj'[p].pc = c /\ proj'[p].live = proj[p].live /\ proj'[p].run = proj[p].run
         /\ proj'[p].attempt = proj[p].attempt /\ proj'[p].next = proj[p].next
         /\ proj'[p].upto = proj[p].upto /\ proj'[p].target = proj[p].target
         /\ proj'[p].ok = proj[p].ok
<1>1. proj[p] \in ProjectorState
  OBVIOUS
<1>2. [proj[p] EXCEPT !.pc = c] \in ProjectorState
  BY <1>1 DEF ProjectorState
<1>3. proj' = [proj EXCEPT ![p] = [proj[p] EXCEPT !.pc = c]]
  BY DEF Goto
<1> QED
  BY <1>1, <1>2, <1>3 DEF Others, ProjectorState

\* A projector that dies, fails to attach or returns is an idle one.
LEMMA IdleEffect ==
  ASSUME proj \in [Projectors -> ProjectorState], NEW p \in Projectors,
         proj' = [proj EXCEPT ![p] = Idle]
  PROVE  /\ proj' \in [Projectors -> ProjectorState] /\ Others(p)
         /\ proj'[p].pc = "idle" /\ proj'[p].live = FALSE
<1>1. Idle \in ProjectorState
  BY Parameters DEF Idle, ProjectorState, ProjectorPc
<1> QED
  BY <1>1 DEF Idle, Others

\* An attached projector has its attempt, and starts to project.
LEMMA AttachedEffect ==
  ASSUME proj \in [Projectors -> ProjectorState], NEW p \in Projectors,
         NEW n \in Nat, Attached(p, n)
  PROVE  /\ proj' \in [Projectors -> ProjectorState] /\ Others(p)
         /\ proj'[p].pc = "project" /\ proj'[p].live = proj[p].live
         /\ proj'[p].run = proj[p].run
         /\ proj'[p].attempt = n /\ proj'[p].next = proj[p].next
         /\ proj'[p].upto = proj[p].upto /\ proj'[p].target = proj[p].target
         /\ proj'[p].ok = proj[p].ok
<1>1. proj[p] \in ProjectorState
  OBVIOUS
<1>2. [proj[p] EXCEPT !.attempt = n, !.pc = "project"] \in ProjectorState
  BY <1>1 DEF ProjectorState, ProjectorPc
<1>3. proj' = [proj EXCEPT ![p] = [proj[p] EXCEPT !.attempt = n, !.pc = "project"]]
  BY DEF Attached
<1> QED
  BY <1>1, <1>2, <1>3 DEF Others, ProjectorState

\* A receipt names the run, the range and the target of the projection.
LEMMA FinishedEffect ==
  ASSUME proj \in [Projectors -> ProjectorState], NEW p \in Projectors,
         NEW ok \in BOOLEAN, Finished(p, ok)
  PROVE  /\ proj' \in [Projectors -> ProjectorState] /\ Others(p)
         /\ proj'[p].pc = "done" /\ proj'[p].live = FALSE
         /\ proj'[p].run = proj[p].run
         /\ proj'[p].upto = proj[p].upto /\ proj'[p].target = proj[p].target
         /\ proj'[p].ok = (proj[p].ok /\ ok)
<1> DEFINE b == proj[p].ok /\ ok
           n == [Idle EXCEPT !.pc = "done", !.run = proj[p].run,
             !.upto = proj[p].upto, !.target = proj[p].target, !.ok = b]
<1>1. proj[p] \in ProjectorState
  OBVIOUS
<1>2. b \in BOOLEAN
  OBVIOUS
<1>4. proj' = [proj EXCEPT ![p] = n]
  BY DEF Finished
<1> HIDE DEF b
<1>6. Idle \in ProjectorState
  BY Parameters DEF Idle, ProjectorState, ProjectorPc
<1>5. n \in ProjectorState
  BY <1>1, <1>2, <1>6 DEF ProjectorState, ProjectorPc
<1>3. /\ n.pc = "done" /\ n.live = FALSE /\ n.run = proj[p].run
      /\ n.upto = proj[p].upto /\ n.target = proj[p].target
      /\ n.ok = b
  BY DEF Idle
<1> HIDE DEF n
<1> QED
  BY <1>5, <1>3, <1>4 DEF Others, b

\* A projector that has more to do takes the next event.
LEMMA ProjectedEffect ==
  ASSUME proj \in [Projectors -> ProjectorState], NEW p \in Projectors,
         NEW ok \in BOOLEAN, Projected(p, ok), AfterProject(p) # "done",
         proj[p].next <= proj[p].upto
  PROVE  /\ proj' \in [Projectors -> ProjectorState] /\ Others(p)
         /\ proj'[p].pc = AfterProject(p) /\ proj'[p].live = proj[p].live
         /\ proj'[p].run = proj[p].run /\ proj'[p].attempt = proj[p].attempt
         /\ proj'[p].next = proj[p].next + 1
         /\ proj'[p].upto = proj[p].upto /\ proj'[p].target = proj[p].target
         /\ proj'[p].ok = (proj[p].ok /\ ok)
<1> DEFINE b == proj[p].ok /\ ok
           n == [proj[p] EXCEPT !.next = proj[p].next + 1, !.ok = b, !.pc = AfterProject(p)]
<1>0. b \in BOOLEAN
  OBVIOUS
<1>6. proj' = [proj EXCEPT ![p] = n]
  BY DEF Projected
<1> HIDE DEF b
<1>1. proj[p] \in ProjectorState
  OBVIOUS
<1>2. proj[p].next + 1 \in 1..(Last + 1)
  BY <1>1, Parameters DEF ProjectorState
<1>3. AfterProject(p) \in ProjectorPc
  BY DEF AfterProject, ProjectorPc
<1>4. n \in ProjectorState
  BY <1>0, <1>1, <1>2, <1>3 DEF ProjectorState
<1>5. /\ n.pc = AfterProject(p) /\ n.live = proj[p].live /\ n.run = proj[p].run
      /\ n.attempt = proj[p].attempt /\ n.next = proj[p].next + 1
      /\ n.upto = proj[p].upto /\ n.target = proj[p].target
      /\ n.ok = b
  BY <1>1 DEF ProjectorState
<1> HIDE DEF n
<1> QED
  BY <1>4, <1>5, <1>6 DEF Others, b

-----------------------------------------------------------------------------
(* Records and notes only grow; a seal is the record's *)

\* A record only grows, and a verdict is written once.
RecordGrows ==
  \A r \in Runs : /\ canon'[r] >= canon[r]
                  /\ verdict[r] # "none" => verdict'[r] = verdict[r]

\* Only the live writer appends, so a record is sealed once.
LEMMA RecordStep ==
  ASSUME TypeOK, SealedRecords, Reading, Next
  PROVE  /\ canon' \in [Runs -> 0..Last] /\ verdict' \in [Runs -> Targets \cup {"none"}]
         /\ SealedRecords' /\ RecordGrows
<1>0. canon \in [Runs -> 0..Last] /\ verdict \in [Runs -> Targets \cup {"none"}]
  BY DEF TypeOK
<1>1. CASE UNCHANGED <<canon, verdict>>
  BY <1>0, <1>1, Parameters DEF SealedRecords, RecordGrows
<1>2. ASSUME NEW p \in Projectors, NEW r \in Runs, StartLive(p, r)
      PROVE  /\ canon' \in [Runs -> 0..Last] /\ verdict' \in [Runs -> Targets \cup {"none"}]
             /\ SealedRecords' /\ RecordGrows
  BY <1>0, <1>2, Parameters DEF StartLive, SealedRecords, RecordGrows
<1>3. ASSUME NEW p \in Projectors, AppendCanonical(p)
      PROVE  /\ canon' \in [Runs -> 0..Last] /\ verdict' \in [Runs -> Targets \cup {"none"}]
             /\ SealedRecords' /\ RecordGrows
  <2> DEFINE r == proj[p].run
             n == canon[r] + 1
  <2>1. r \in Runs /\ verdict[r] = "none"
    BY <1>3 DEF AppendCanonical, Reading, Reads, Writes
  <2>2. n \in 0..Last
    BY <1>0, <2>1, Parameters DEF SealedRecords
  <2>3. PICK t \in IF n = Last THEN Targets ELSE {"none"} :
          verdict' = [verdict EXCEPT ![r] = t] /\ canon' = [canon EXCEPT ![r] = n]
    BY <1>3 DEF AppendCanonical
  <2>4. t \in Targets \cup {"none"} /\ (t # "none" <=> n = Last)
    BY <2>3, Parameters DEF Sealed
  <2> HIDE DEF r
  <2> QED BY <1>0, <2>1, <2>2, <2>3, <2>4, Parameters DEF SealedRecords, RecordGrows
<1> QED
  BY <1>1, <1>2, <1>3
     DEF Next, StartCatchUp, CheckExisting, CreateRunWithId, StartRun, RunningAttempt,
         LatestAttempt, CreateAttempt, Project, ProjectFails, SealRead, SealSet,
         SealRepair, SealFails, Return, Die, ScanRuns, ScanAttempts, MarkInterrupted,
         CancelRun, SetAttemptStatus, ResumeInterruptedRun

\* The idempotency record of a note stays as it was written.
NotesGrow ==
  \A r \in Runs, i \in Positions :
    notes[r][i] # Missing => notes'[r][i] = notes[r][i]

\* No note was written, in the event table or in the idempotency records.
NotesKept ==
  /\ UNCHANGED notes
  /\ \A r \in Runs, i \in Positions : log'[r].notes[i] = log[r].notes[i]

\* A status event is no note.
LEMMA EmitStatusKeepsNotes ==
  ASSUME log \in [Runs -> LogRow], NEW r \in Runs, NEW s, EmitStatus(r, s)
  PROVE  \A q \in Runs, i \in Positions : log'[q].notes[i] = log[q].notes[i]
BY DEF EmitStatus, LogRow

\* Only append_system_note writes notes and their records.
LEMMA NotesKeptStep ==
  ASSUME TypeOK, Reading, Next, ~\E p \in Projectors : Project(p)
  PROVE  NotesKept
<1>0. log \in [Runs -> LogRow]
  BY DEF TypeOK
<1>1. CASE UNCHANGED <<notes, log>>
  BY <1>1 DEF NotesKept
<1>2. ASSUME NEW r \in Runs, NEW s, EmitStatus(r, s), UNCHANGED notes
      PROVE  NotesKept
  BY <1>0, <1>2, EmitStatusKeepsNotes DEF NotesKept
<1>3. ASSUME NEW p \in Projectors, CreateRunWithId(p)
      PROVE  NotesKept
  BY <1>1, <1>2, <1>3 DEF CreateRunWithId, CreateRun, Reading, Reads
<1>4. ASSUME NEW p \in Projectors, StartRun(p) \/ SealSet(p) \/ SealRepair(p)
      PROVE  NotesKept
  BY <1>1, <1>2, <1>4
     DEF StartRun, SealSet, SealRepair, SetRunStatus, RepairInterrupted, Reading, Reads
<1>5. CASE MarkInterrupted
  <2>1. UNCHANGED notes
    BY <1>5 DEF MarkInterrupted
  <2>2. CASE UNCHANGED log
    BY <1>1, <2>1, <2>2
  <2>3. CASE ~UNCHANGED log
    <3>1. ASSUME NEW r \in Runs, NEW i \in Positions
          PROVE  log'[r].notes[i] = log[r].notes[i]
      <4>1. \/ log'[r] = log[r]
            \/ log'[r] = [log[r] EXCEPT !.status = Append(@, "interrupted")]
        BY <1>5, <2>3 DEF MarkInterrupted
      <4>2. log[r] \in LogRow
        BY <1>0
      <4> QED BY <4>1, <4>2 DEF LogRow
    <3> QED BY <2>1, <3>1 DEF NotesKept
  <2> QED BY <2>2, <2>3
<1>6. ASSUME NEW r \in Runs, CancelRun(r) \/ ResumeInterruptedRun(r)
      PROVE  NotesKept
  BY <1>2, <1>6 DEF CancelRun, ResumeInterruptedRun, SetRunStatus
<1> QED
  BY <1>1, <1>3, <1>4, <1>5, <1>6
     DEF Next, StartLive, StartCatchUp, CheckExisting, RunningAttempt, LatestAttempt,
         CreateAttempt, ProjectFails, AppendCanonical, SealRead, SealFails, Return, Die,
         ScanRuns, ScanAttempts, SetAttemptStatus

\* A note is written with its record, when there is none.
LEMMA NotesStep ==
  ASSUME TypeOK, Reading, NotedOnce, Next
  PROVE  /\ notes' \in [Runs -> [Positions -> Nat \cup {Missing}]]
         /\ NotesGrow /\ NotedOnce'
<1>0. /\ notes \in [Runs -> [Positions -> Nat \cup {Missing}]]
      /\ log \in [Runs -> LogRow]
  BY DEF TypeOK
<1>1. CASE NotesKept
  BY <1>0, <1>1 DEF NotesKept, NotesGrow, NotedOnce
<1>2. ASSUME NEW p \in Projectors, Project(p), ~UNCHANGED <<notes, log>>
      PROVE  /\ notes' \in [Runs -> [Positions -> Nat \cup {Missing}]]
             /\ NotesGrow /\ NotedOnce'
  <2> DEFINE r == proj[p].run
             i == proj[p].next
             n == proj[p].attempt
  <2>1. r \in Runs /\ i \in Positions /\ n \in Nat
    BY <1>2, ProjectPlace, SMTT(40) DEF Project, Reading
  <2>2. /\ notes[r][i] = Missing
        /\ notes' = [notes EXCEPT ![r] = [@ EXCEPT ![i] = n]]
        /\ log' = [log EXCEPT ![r].notes[i] = Append(@, n)]
    BY <1>2 DEF Project, NoteRecorded, EmitNote
  <2> HIDE DEF r, i, n
  <2>3. log[r] \in LogRow /\ log[r].notes[i] = << >>
    BY <1>0, <2>1, <2>2 DEF NotedOnce
  <2>4. ASSUME NEW q \in Runs, NEW j \in Positions
        PROVE  /\ notes'[q][j] = IF q = r /\ j = i THEN n ELSE notes[q][j]
               /\ log'[q].notes[j] = IF q = r /\ j = i THEN <<n>> ELSE log[q].notes[j]
    <3>1. notes'[q][j] = IF q = r /\ j = i THEN n ELSE notes[q][j]
      BY <1>0, <2>1, <2>2
    <3>2. log'[q].notes[j] = IF q = r /\ j = i THEN Append(log[q].notes[j], n)
                             ELSE log[q].notes[j]
      <4>1. CASE q # r
        BY <1>0, <2>1, <2>2, <4>1
      <4>2. CASE q = r
        <5>1. log'[r] = [log[r] EXCEPT !.notes[i] = Append(@, n)]
          BY <1>0, <2>1, <2>2
        <5>2. log'[r].notes = [log[r].notes EXCEPT ![i] = Append(@, n)]
          BY <2>3, <5>1 DEF LogRow
        <5>3. DOMAIN log[r].notes = Positions
          BY <2>3 DEF LogRow
        <5> QED BY <2>1, <4>2, <5>2, <5>3
      <4> QED BY <4>1, <4>2
    <3>3. Append(<< >>, n) = <<n>>
      BY <2>1
    <3> QED BY <2>3, <3>1, <3>2, <3>3
  <2>5. notes' \in [Runs -> [Positions -> Nat \cup {Missing}]]
    BY <1>0, <2>1, <2>2
  <2>6. NotesGrow
    BY <2>2, <2>4 DEF NotesGrow
  <2>7. NotedOnce'
    BY <2>1, <2>4, Parameters DEF NotedOnce
  <2> QED BY <2>5, <2>6, <2>7
<1>3. ASSUME NEW p \in Projectors, UNCHANGED <<notes, log>>
      PROVE  NotesKept
  BY <1>3 DEF NotesKept
<1> QED
  BY <1>1, <1>2, <1>3, NotesKeptStep

\* A row becomes a sealed one only with the verdict of its record.
LEMMA SealStep ==
  ASSUME TypeOK, Reading, Next, NEW r \in Runs, row'[r] \in Sealed
  PROVE  row'[r] = row[r] \/ row'[r] = verdict[r]
<1>0. row \in [Runs -> RunStatus \cup {"none"}]
  BY DEF TypeOK
<1>1. CASE UNCHANGED row
  BY <1>1
<1>2. ASSUME NEW q \in Runs, NEW s \in {"queued", "running", "interrupted", "cancelled"},
             row' = [row EXCEPT ![q] = s]
      PROVE  row'[r] = row[r] \/ row'[r] = verdict[r]
  BY <1>0, <1>2 DEF Sealed
<1>3. ASSUME NEW p \in Projectors, CreateRunWithId(p) \/ StartRun(p)
      PROVE  row'[r] = row[r] \/ row'[r] = verdict[r]
  BY <1>1, <1>2, <1>3 DEF CreateRunWithId, CreateRun, StartRun, SetRunStatus, Reading, Reads
<1>4. ASSUME NEW p \in Projectors, SealSet(p) \/ SealRepair(p)
      PROVE  row'[r] = row[r] \/ row'[r] = verdict[r]
  <2>1. proj[p].run \in Runs /\ proj[p].target = verdict[proj[p].run]
    BY <1>4 DEF SealSet, SealRepair, Reading, Reads, Sealing
  <2>2. UNCHANGED row \/ row' = [row EXCEPT ![proj[p].run] = proj[p].target]
    BY <1>4 DEF SealSet, SealRepair, SetRunStatus, RepairInterrupted
  <2> QED BY <1>0, <2>1, <2>2
<1>5. CASE MarkInterrupted
  BY <1>1, <1>5 DEF MarkInterrupted, Sealed
<1>6. ASSUME NEW q \in Runs, CancelRun(q) \/ ResumeInterruptedRun(q)
      PROVE  row'[r] = row[r] \/ row'[r] = verdict[r]
  BY <1>2, <1>6 DEF CancelRun, ResumeInterruptedRun, SetRunStatus
<1> QED
  BY <1>1, <1>3, <1>4, <1>5, <1>6
     DEF Next, StartLive, StartCatchUp, CheckExisting, RunningAttempt, LatestAttempt,
         CreateAttempt, Project, ProjectFails, AppendCanonical, SealRead, SealFails,
         Return, Die, ScanRuns, ScanAttempts, SetAttemptStatus

-----------------------------------------------------------------------------
(* What a projector knows survives *)

\* What the steps of others may do to what a projector relies on.
Frame ==
  /\ TypeOK /\ canon' \in [Runs -> 0..Last] /\ RecordGrows /\ NotesGrow
  /\ \A r \in Runs : Moves(r)

\* What holds of a projector whatever the others do.
Own(p) == Reads(p) /\ Knows(p)

\* The projector p has stepped, and is no live writer it was not before.
Stepped(p) ==
  /\ proj' \in [Projectors -> ProjectorState] /\ Others(p) /\ Own(p)'
  /\ proj'[p].live =>
       /\ proj[p].live /\ proj'[p].run = proj[p].run /\ proj'[p].upto = proj[p].upto
       /\ proj'[p].target = proj[p].target /\ proj'[p].pc \notin {"idle", "done"}

\* The types of a projector's fields.
LEMMA ProjectorTypes ==
  ASSUME TypeOK, NEW p \in Projectors
  PROVE  /\ proj \in [Projectors -> ProjectorState]
         /\ proj[p].pc \in ProjectorPc /\ proj[p].live \in BOOLEAN
         /\ proj[p].attempt \in Nat /\ proj[p].next \in 1..(Last + 1)
         /\ proj[p].upto \in 0..Last /\ proj[p].target \in Targets \cup {"none"}
         /\ proj[p].ok \in BOOLEAN
BY DEF TypeOK, ProjectorState

\* The record a projector reads, after a step that leaves its run, its range and
\* its target alone.
LEMMA ReadsOn ==
  ASSUME Frame, NEW p \in Projectors, Reads(p), proj[p].pc # "idle",
         proj'[p].run = proj[p].run, proj'[p].upto = proj[p].upto,
         proj'[p].target = proj[p].target
  PROVE  /\ proj'[p].run \in Runs
         /\ proj'[p].upto \in 1..canon'[proj'[p].run]
         /\ proj'[p].target # "none" => proj'[p].target = verdict'[proj'[p].run]
<1>1. /\ proj[p].run \in Runs /\ proj[p].upto \in 1..canon[proj[p].run]
      /\ proj[p].target # "none" => proj[p].target = verdict[proj[p].run]
  BY DEF Reads
<1>2. canon[proj[p].run] \in 0..Last /\ canon'[proj[p].run] \in 0..Last
  BY <1>1 DEF Frame, TypeOK
<1>3. /\ canon'[proj[p].run] >= canon[proj[p].run]
      /\ verdict[proj[p].run] # "none" => verdict'[proj[p].run] = verdict[proj[p].run]
  BY <1>1 DEF Frame, RecordGrows
<1>4. proj[p].upto \in 1..canon'[proj[p].run]
  BY <1>1, <1>2, <1>3, Parameters
<1> QED
  BY <1>1, <1>3, <1>4

\* A projector that does not move keeps what it knows.
LEMMA OwnKept ==
  ASSUME Frame, NEW p \in Projectors, Own(p), proj'[p] = proj[p]
  PROVE  Own(p)'
<1>1. CASE proj[p].pc = "idle"
  BY <1>1 DEF Own, Knows, Reads, Caught, Noted, Single
<1>2. CASE proj[p].pc # "idle"
  <2> DEFINE r == proj[p].run
  <2>1. r \in Runs
    BY <1>2 DEF Own, Reads
  <2>2. Reads(p)'
    BY <1>2, ReadsOn DEF Own, Reads
  <2>3. /\ proj[p].next \in 1..(Last + 1) /\ proj[p].upto \in 0..Last
        /\ proj[p].attempt \in Nat /\ proj[p].target \in Targets \cup {"none"}
    BY ProjectorTypes DEF Frame
  <2>4. \A i \in 1..(proj[p].next - 1) : i \in Positions
    BY <2>3, Parameters DEF Positions
  <2>5. \A i \in 1..proj[p].upto : i \in Positions
    BY <2>3, Parameters DEF Positions
  <2>6. \A i \in Positions : notes[r][i] # Missing => notes'[r][i] # Missing
    BY <2>1 DEF Frame, NotesGrow
  <2>7. Moves(r)
    BY <2>1 DEF Frame
  <2>8. Caught(p)'
    <3>1. row[r] = proj[p].target /\ proj[p].target # "none" => row'[r] = proj[p].target
      BY <2>3, <2>7, Parameters DEF Moves, Terminal
    <3> QED BY <2>5, <2>6, <3>1 DEF Own, Knows, Caught
  <2>9. Noted(p)'
    BY <2>4, <2>6 DEF Own, Knows, Noted
  <2>10. Single(p)'
    BY <2>3, <2>7, <1>2 DEF Own, Knows, Single, Moves
  <2> QED BY <2>2, <2>8, <2>9, <2>10 DEF Own, Knows
<1> QED
  BY <1>1, <1>2

\* An idle projector claims nothing.
LEMMA IdleKeeps ==
  ASSUME Frame, NEW p \in Projectors, proj' = [proj EXCEPT ![p] = Idle]
  PROVE  Stepped(p)
<1>1. /\ proj' \in [Projectors -> ProjectorState] /\ Others(p)
      /\ proj'[p].pc = "idle" /\ proj'[p].live = FALSE
  BY IdleEffect DEF Frame, TypeOK
<1> QED
  BY <1>1 DEF Stepped, Own, Knows, Reads, Caught, Noted, Single

\* A step within attach_run, or within seal_inner.
LEMMA GotoKeeps ==
  ASSUME Frame, NEW p \in Projectors, Own(p), NEW c, Goto(p, c),
         NEW r, r = proj[p].run,
         \/ /\ proj[p].pc \in Attaching /\ c \in Attaching
            /\ c = "latest_attempt" => Settled(r)'
         \/ proj[p].pc \in Sealing /\ c \in Sealing
  PROVE  Stepped(p)
<1>0. /\ proj[p].pc \notin {"idle", "done", "project", "append"}
      /\ c \notin {"idle", "done", "project", "append"} /\ c \in ProjectorPc
  BY DEF Attaching, Sealing, ProjectorPc
<1>1. /\ proj' \in [Projectors -> ProjectorState] /\ Others(p)
      /\ proj'[p].pc = c /\ proj'[p].live = proj[p].live /\ proj'[p].run = proj[p].run
      /\ proj'[p].attempt = proj[p].attempt /\ proj'[p].next = proj[p].next
      /\ proj'[p].upto = proj[p].upto /\ proj'[p].target = proj[p].target
      /\ proj'[p].ok = proj[p].ok
  BY <1>0, GotoEffect DEF Frame, TypeOK
<1>2. r \in Runs
  BY <1>0 DEF Own, Reads
<1>3. Reads(p)'
  <2>1. /\ proj'[p].run \in Runs
        /\ proj'[p].upto \in 1..canon'[proj'[p].run]
        /\ proj'[p].target # "none" => proj'[p].target = verdict'[proj'[p].run]
    BY <1>0, <1>1, ReadsOn DEF Own
  <2>2. /\ c \in Attaching => proj'[p].next = 1
        /\ c \in Sealing => proj'[p].next = proj'[p].upto + 1 /\ proj'[p].target # "none"
    BY <1>0, <1>1 DEF Own, Reads, Attaching, Sealing
  <2> QED BY <1>0, <1>1, <2>1, <2>2 DEF Reads
<1>4. Caught(p)'
  BY <1>0, <1>1 DEF Caught
<1>5. Noted(p)'
  <2>0. proj[p].next \in 1..(Last + 1)
    BY ProjectorTypes DEF Frame
  <2>1. \A i \in 1..(proj[p].next - 1) : i \in Positions
    BY <2>0, Parameters DEF Positions
  <2>2. \A i \in Positions : notes[r][i] # Missing => notes'[r][i] # Missing
    BY <1>2 DEF Frame, NotesGrow
  <2> QED BY <1>0, <1>1, <2>1, <2>2 DEF Own, Knows, Noted
<1>6. Single(p)'
  <2>1. Moves(r) /\ proj[p].attempt \in Nat
    BY <1>2, ProjectorTypes DEF Frame
  <2>2. c \in Sealing /\ ~Twice(r) => Under(r, proj[p].attempt)
    BY <1>0 DEF Own, Knows, Single, Attaching, Sealing
  <2>4. PICK n \in Nat : n = proj[p].attempt
    BY <2>1
  <2>5. c \in Sealing /\ ~Twice(r)' => Under(r, n)'
    BY <2>1, <2>2, <2>4 DEF Moves
  <2>3. c = "latest_attempt" => Settled(r)'
    BY DEF Sealing
  <2> QED BY <1>0, <1>1, <2>3, <2>4, <2>5 DEF Single
<1> QED
  BY <1>0, <1>1, <1>3, <1>4, <1>5, <1>6 DEF Stepped, Own, Knows

\* A seal reports success only of a row that has the target.
LEMMA FinishedKeeps ==
  ASSUME Frame, NEW p \in Projectors, Own(p), NEW ok \in BOOLEAN, Finished(p, ok),
         proj[p].pc \in Sealing, ok => row'[proj[p].run] = proj[p].target
  PROVE  Stepped(p)
<1> DEFINE r == proj[p].run
<1>1. /\ proj' \in [Projectors -> ProjectorState] /\ Others(p)
      /\ proj'[p].pc = "done" /\ proj'[p].live = FALSE
      /\ proj'[p].run = proj[p].run
      /\ proj'[p].upto = proj[p].upto /\ proj'[p].target = proj[p].target
      /\ proj'[p].ok = (proj[p].ok /\ ok)
  BY FinishedEffect DEF Frame, TypeOK
<1>2. /\ r \in Runs /\ proj[p].next = proj[p].upto + 1 /\ proj[p].upto \in 0..Last
      /\ proj[p].pc \notin {"idle", "done"}
  BY ProjectorTypes DEF Own, Reads, Sealing, Frame
<1>3. Reads(p)'
  BY <1>1, <1>2, ReadsOn DEF Own, Reads, Attaching, Sealing
<1>4. Caught(p)'
  <2> SUFFICES ASSUME proj'[p].ok PROVE Caught(p)'
    BY DEF Caught
  <2>1. proj[p].ok /\ ok
    BY <1>1
  <2>2. ASSUME NEW i \in 1..proj[p].upto PROVE notes'[r][i] # Missing
    <3>1. i \in Positions /\ i \in 1..(proj[p].next - 1)
      BY <1>2, Parameters DEF Positions
    <3>2. notes[r][i] # Missing
      BY <1>2, <2>1, <3>1 DEF Own, Knows, Noted
    <3> QED BY <1>2, <3>1, <3>2 DEF Frame, NotesGrow
  <2> QED BY <1>1, <2>1, <2>2 DEF Caught
<1> QED
  BY <1>1, <1>3, <1>4 DEF Stepped, Own, Knows, Noted, Single, Sealing

\* attach_run ends with the attempt every projector finds.
LEMMA AttachedKeeps ==
  ASSUME Frame, NEW p \in Projectors, Own(p), NEW n \in Nat, Attached(p, n),
         proj[p].pc \in Attaching, NEW r, r = proj[p].run, ~Twice(r)' => Under(r, n)'
  PROVE  Stepped(p)
<1>1. /\ proj' \in [Projectors -> ProjectorState] /\ Others(p)
      /\ proj'[p].pc = "project" /\ proj'[p].live = proj[p].live
      /\ proj'[p].run = proj[p].run
      /\ proj'[p].attempt = n /\ proj'[p].next = proj[p].next
      /\ proj'[p].upto = proj[p].upto /\ proj'[p].target = proj[p].target
      /\ proj'[p].ok = proj[p].ok
  BY AttachedEffect DEF Frame, TypeOK
<1>2. r \in Runs /\ proj[p].next = 1 /\ proj[p].upto \in 1..canon[r] /\ proj[p].pc # "idle"
  BY DEF Own, Reads, Attaching
<1>3. Reads(p)'
  <2>1. /\ proj'[p].run \in Runs
        /\ proj'[p].upto \in 1..canon'[proj'[p].run]
        /\ proj'[p].target # "none" => proj'[p].target = verdict'[proj'[p].run]
    BY <1>1, <1>2, ReadsOn DEF Own
  <2>2. proj'[p].next <= proj'[p].upto
    BY <1>1, <1>2, Parameters DEF Frame, TypeOK
  <2> QED BY <1>1, <2>1, <2>2 DEF Reads, Attaching, Sealing
<1>4. Noted(p)'
  BY <1>1, <1>2 DEF Noted
<1>5. Caught(p)' /\ Single(p)'
  BY <1>1 DEF Caught, Single
<1> QED
  BY <1>1, <1>3, <1>4, <1>5 DEF Stepped, Own, Knows

\* An event projected without a warning has its note.
LEMMA ProjectedKeeps ==
  ASSUME Frame, NEW p \in Projectors, Own(p), NEW ok \in BOOLEAN, Projected(p, ok),
         proj[p].pc = "project", ok => notes'[proj[p].run][proj[p].next] # Missing
  PROVE  Stepped(p)
<1> DEFINE r == proj[p].run
<1>1. /\ r \in Runs /\ proj[p].next \in Positions /\ proj[p].attempt \in Nat
      /\ proj[p].upto \in Positions /\ proj[p].next <= proj[p].upto
  BY ProjectPlace DEF Frame, Own
<1>2. ASSUME proj[p].ok, ok, NEW i \in 1..proj[p].next
      PROVE  notes'[r][i] # Missing
  <2>1. i \in Positions /\ (i = proj[p].next \/ i \in 1..(proj[p].next - 1))
    BY <1>1, Parameters DEF Positions
  <2>2. CASE i \in 1..(proj[p].next - 1)
    <3>1. notes[r][i] # Missing
      BY <1>2, <2>2 DEF Own, Knows, Noted
    <3> QED BY <1>1, <2>1, <3>1 DEF Frame, NotesGrow
  <2> QED BY <1>2, <2>1, <2>2
<1>3. CASE AfterProject(p) = "done"
  <2>1. /\ proj' \in [Projectors -> ProjectorState] /\ Others(p)
        /\ proj'[p].pc = "done" /\ proj'[p].live = FALSE
        /\ proj'[p].run = proj[p].run
        /\ proj'[p].upto = proj[p].upto /\ proj'[p].target = proj[p].target
        /\ proj'[p].ok = (proj[p].ok /\ ok)
    BY <1>3, FinishedEffect DEF Frame, TypeOK, Projected
  <2>2. proj[p].next = proj[p].upto /\ proj[p].target = "none"
    BY <1>1, <1>3, Parameters DEF AfterProject, Positions
  <2>3. Reads(p)'
    BY <2>1, ReadsOn DEF Own, Reads, Attaching, Sealing
  <2>4. Caught(p)'
    BY <1>2, <2>1, <2>2 DEF Caught
  <2> QED BY <2>1, <2>3, <2>4 DEF Stepped, Own, Knows, Noted, Single, Sealing
<1>4. CASE AfterProject(p) # "done"
  <2>1. /\ proj' \in [Projectors -> ProjectorState] /\ Others(p)
        /\ proj'[p].pc = AfterProject(p) /\ proj'[p].live = proj[p].live
        /\ proj'[p].run = proj[p].run /\ proj'[p].attempt = proj[p].attempt
        /\ proj'[p].next = proj[p].next + 1
        /\ proj'[p].upto = proj[p].upto /\ proj'[p].target = proj[p].target
        /\ proj'[p].ok = (proj[p].ok /\ ok)
    BY <1>1, <1>4, ProjectedEffect DEF Frame, TypeOK
  <2>2. /\ proj'[p].run \in Runs
        /\ proj'[p].upto \in 1..canon'[proj'[p].run]
        /\ proj'[p].target # "none" => proj'[p].target = verdict'[proj'[p].run]
    BY <2>1, ReadsOn DEF Own
  <2>3. \/ AfterProject(p) = "project" /\ proj[p].next < proj[p].upto
        \/ AfterProject(p) = "seal" /\ proj[p].next = proj[p].upto /\ proj[p].target # "none"
        \/ /\ AfterProject(p) = "append" /\ proj[p].next = proj[p].upto
           /\ proj[p].live /\ proj[p].target = "none"
    BY <1>1, <1>4, Parameters DEF AfterProject, Positions
  <2>4. Reads(p)'
    <3>1. proj[p].next < proj[p].upto => proj'[p].next <= proj'[p].upto
      BY <1>1, <2>1, Parameters DEF Positions
    <3> QED BY <2>1, <2>2, <2>3, <3>1 DEF Reads, Attaching, Sealing
  <2>5. Noted(p)'
    <3>1. proj'[p].next - 1 = proj[p].next
      BY <1>1, <2>1, Parameters DEF Positions
    <3> QED BY <1>2, <2>1, <3>1 DEF Noted
  <2>6. Caught(p)'
    BY <2>1, <2>3 DEF Caught
  <2>7. Single(p)'
    <3>1. PICK q \in Runs, n \in Nat : q = r /\ n = proj[p].attempt
      BY <1>1
    <3>2. Moves(q)
      BY <3>1 DEF Frame
    <3>3. ~Twice(q) => Under(q, n)
      BY <3>1 DEF Own, Knows, Single
    <3>4. ~Twice(q)' => Under(q, n)'
      BY <3>1, <3>2, <3>3 DEF Moves
    <3> QED BY <2>1, <2>3, <3>1, <3>4 DEF Single
  <2>8. proj'[p].pc \notin {"idle", "done"}
    BY <2>1, <2>3
  <2> QED BY <2>1, <2>4, <2>5, <2>6, <2>7, <2>8 DEF Stepped, Own, Knows
<1> QED
  BY <1>3, <1>4

\* The steps of a projector that leave the records alone.
LEMMA ProjectorStep ==
  ASSUME Frame, Tables, NEW p \in Projectors, Own(p),
         \/ CheckExisting(p) \/ CreateRunWithId(p) \/ StartRun(p) \/ RunningAttempt(p)
         \/ LatestAttempt(p) \/ CreateAttempt(p) \/ Project(p) \/ ProjectFails(p)
         \/ SealRead(p) \/ SealSet(p) \/ SealRepair(p) \/ SealFails(p) \/ Return(p)
         \/ Die(p)
  PROVE  Stepped(p)
<1>0. proj[p].pc # "idle" => proj[p].run \in Runs /\ Table(proj[p].run)
  BY DEF Own, Reads, Tables
<1>1. CASE proj' = [proj EXCEPT ![p] = Idle]
  BY <1>1, IdleKeeps
<1>a. PICK r : r = proj[p].run
  OBVIOUS
<1>2. CASE CheckExisting(p)
  BY <1>1, <1>2, GotoKeeps DEF CheckExisting, Attaching
<1>3. CASE CreateRunWithId(p)
  <2> DEFINE seen == IF row[r] = "none" THEN "queued" ELSE row[r]
  <2>1. PICK c : /\ Goto(p, c)
                 /\ c = CASE seen = "queued" -> "start"
                          [] seen = "running" -> "running_attempt"
                          [] OTHER -> "latest_attempt"
    BY <1>3, <1>a DEF CreateRunWithId
  <2>2. c \in Attaching /\ proj[p].pc = "create"
    BY <1>3, <2>1 DEF Attaching, CreateRunWithId
  <2>3. c = "latest_attempt" => row[r] \notin {"none", "queued", "running"} /\ UNCHANGED row
    BY <1>3, <1>a, <2>1 DEF CreateRunWithId
  <2> QED BY <1>a, <2>1, <2>2, <2>3, GotoKeeps DEF Attaching, Settled
<1>4. CASE StartRun(p)
  BY <1>1, <1>4, GotoKeeps DEF StartRun, Attaching
<1>5. CASE RunningAttempt(p)
  <2>1. CASE Goto(p, "create_attempt")
    BY <1>5, <2>1, GotoKeeps DEF RunningAttempt, Attaching
  <2>2. CASE \E n \in RunningAttempts(r) : Attached(p, n)
    <3>1. PICK n \in RunningAttempts(r) : Attached(p, n)
      BY <2>2
    <3>2. r \in Runs /\ Table(r) /\ UNCHANGED <<row, attempts, log>>
      BY <1>0, <1>5, <1>a DEF RunningAttempt
    <3>3. n = Len(attempts[r]) /\ n \in Nat /\ n # 0
      BY <3>1, <3>2 DEF Table, RunningAttempts
    <3>4. Under(r, n)'
      BY <3>2, <3>3 DEF Under
    <3> QED BY <1>5, <1>a, <3>1, <3>3, <3>4, AttachedKeeps DEF RunningAttempt, Attaching
  <2> QED BY <1>5, <1>a, <2>1, <2>2 DEF RunningAttempt
<1>6. CASE LatestAttempt(p)
  <2>1. r \in Runs /\ Table(r) /\ UNCHANGED <<row, attempts, log>>
    BY <1>0, <1>6, <1>a DEF LatestAttempt
  <2>2. PICK n : n = Len(attempts[r])
    OBVIOUS
  <2>3. n \in Nat /\ Attached(p, n)
    BY <1>6, <1>a, <2>1, <2>2 DEF LatestAttempt, Table
  <2>4. Twice(r)' <=> Twice(r)
    BY <2>1 DEF Twice, Resumed
  <2>5. ~Twice(r) => Settled(r)
    BY <1>6, <1>a DEF LatestAttempt, Own, Knows, Single
  <2>6. ~Twice(r)' => Under(r, n)'
    BY <2>1, <2>2, <2>4, <2>5 DEF Under, Settled
  <2> QED BY <1>6, <1>a, <2>3, <2>6, AttachedKeeps DEF LatestAttempt, Attaching
<1>7. CASE CreateAttempt(p)
  <2>1. CASE ~CanCreateAttempt(r)
    BY <1>1, <1>7, <1>a, <2>1 DEF CreateAttempt
  <2>2. CASE CanCreateAttempt(r)
    <3>1. r \in Runs /\ attempts[r] \in Seq(AttemptStatus) /\ attempts \in [Runs -> Seq(AttemptStatus)]
      BY <1>0, <1>7, <1>a DEF CreateAttempt, Frame, TypeOK
    <3>2. attempts'[r] = Append(attempts[r], "running")
      BY <1>7, <1>a, <2>2, <3>1 DEF CreateAttempt
    <3>3. PICK n : n = Len(attempts[r]) + 1
      OBVIOUS
    <3>4. n = Len(attempts'[r]) /\ n \in Nat /\ n # 0
      BY <3>1, <3>2, <3>3
    <3>5. Under(r, n)' /\ Attached(p, n)
      BY <1>7, <1>a, <2>2, <3>3, <3>4 DEF Under, CreateAttempt
    <3> QED BY <1>7, <1>a, <3>4, <3>5, AttachedKeeps DEF CreateAttempt, Attaching
  <2> QED BY <2>1, <2>2
<1>8. CASE Project(p)
  <2>1. /\ r \in Runs /\ proj[p].next \in Positions /\ proj[p].attempt \in Nat
        /\ notes \in [Runs -> [Positions -> Nat \cup {Missing}]]
    BY <1>8, <1>a, ProjectPlace, SMTT(40) DEF Frame, Own, Project, TypeOK
  <2>2. CASE ~NoteRecorded(r, proj[p].next, proj[p].attempt)
    <3>1. /\ notes' = [notes EXCEPT ![r] = [@ EXCEPT ![proj[p].next] = proj[p].attempt]]
          /\ Projected(p, TRUE)
      BY <1>8, <1>a, <2>2 DEF Project
    <3>2. notes'[r][proj[p].next] = proj[p].attempt
      BY <2>1, <3>1
    <3> QED BY <1>8, <1>a, <2>1, <3>1, <3>2, ProjectedKeeps, Parameters DEF Project
  <2>3. CASE NoteRecorded(r, proj[p].next, proj[p].attempt)
    <3>1. PICK ok \in BOOLEAN : ok <=> (notes[r][proj[p].next] = proj[p].attempt)
      OBVIOUS
    <3>2. ok = (notes[r][proj[p].next] = proj[p].attempt)
      BY <3>1
    <3>3. UNCHANGED notes /\ Projected(p, ok)
      BY <1>8, <1>a, <2>3, <3>2 DEF Project
    <3>4. notes'[r][proj[p].next] # Missing
      BY <2>3, <3>3 DEF NoteRecorded
    <3> QED BY <1>8, <1>a, <3>3, <3>4, ProjectedKeeps DEF Project
  <2> QED BY <2>2, <2>3
<1>9. CASE ProjectFails(p)
  BY <1>9, ProjectedKeeps DEF ProjectFails
<1>10. CASE SealRead(p)
  <2>1. CASE Goto(p, "repair") \/ Goto(p, "set")
    BY <1>10, <2>1, GotoKeeps DEF SealRead, Sealing
  <2>2. CASE AlreadySealed(r, proj[p].target) /\ Finished(p, TRUE)
    BY <1>10, <1>a, <2>2, FinishedKeeps DEF SealRead, AlreadySealed, Sealing
  <2>3. CASE Finished(p, FALSE)
    BY <1>10, <2>3, FinishedKeeps DEF SealRead, Sealing
  <2> QED BY <1>10, <1>a, <2>1, <2>2, <2>3 DEF SealRead
<1>11. CASE SealSet(p) \/ SealRepair(p)
  <2>1. r \in Runs /\ row \in [Runs -> RunStatus \cup {"none"}] /\ proj[p].pc \in Sealing
    BY <1>0, <1>11, <1>a DEF SealSet, SealRepair, Frame, TypeOK, Sealing
  <2>2. \/ Finished(p, FALSE)
        \/ row' = [row EXCEPT ![r] = proj[p].target] /\ Finished(p, TRUE)
    BY <1>11, <1>a DEF SealSet, SealRepair, SetRunStatus, RepairInterrupted
  <2> QED BY <1>a, <2>1, <2>2, FinishedKeeps
<1>12. CASE SealFails(p)
  BY <1>12, FinishedKeeps DEF SealFails, Sealing
<1> QED
  BY <1>1, <1>2, <1>3, <1>4, <1>5, <1>6, <1>7, <1>8, <1>9, <1>10, <1>11, <1>12
     DEF Return, Die

\* A projection that starts has read a prefix of a record.
LEMMA StartKeeps ==
  ASSUME Frame, NEW p \in Projectors, NEW r \in Runs, StartLive(p, r) \/ StartCatchUp(p, r)
  PROVE  /\ proj' \in [Projectors -> ProjectorState] /\ Others(p) /\ Own(p)'
         /\ proj'[p].run = r /\ proj'[p].pc \in Attaching
         /\ proj'[p].live => StartLive(p, r) /\ proj'[p].upto = 1 /\ proj'[p].target = "none"
<1>0. /\ proj \in [Projectors -> ProjectorState] /\ canon \in [Runs -> 0..Last]
      /\ verdict \in [Runs -> Targets \cup {"none"}]
  BY DEF Frame, TypeOK
<1>1. Idle \in ProjectorState
  BY Parameters DEF Idle, ProjectorState, ProjectorPc
<1>2. /\ 1 \in 0..Last /\ canon[r] \in 0..Last /\ verdict[r] \in Targets \cup {"none"}
      /\ canon'[r] \in 0..Last
  BY <1>0, Parameters DEF Frame
<1>3. CASE StartLive(p, r)
  <2> DEFINE n == [Idle EXCEPT !.pc = "create", !.live = TRUE, !.run = r, !.upto = 1]
  <2>1. n \in ProjectorState
    BY <1>1, <1>2 DEF ProjectorState, ProjectorPc
  <2>2. /\ n.pc = "create" /\ n.live = TRUE /\ n.run = r /\ n.upto = 1
        /\ n.next = 1 /\ n.target = "none"
    BY DEF Idle
  <2>3. proj' = [proj EXCEPT ![p] = n] /\ canon'[r] = 1
    BY <1>0, <1>3 DEF StartLive
  <2> HIDE DEF n
  <2>4. proj' \in [Projectors -> ProjectorState] /\ Others(p) /\ proj'[p] = n
    BY <1>0, <2>1, <2>3 DEF Others
  <2>5. Reads(p)'
    BY <2>2, <2>3, <2>4 DEF Reads, Attaching, Sealing
  <2>6. Knows(p)'
    BY <2>2, <2>4 DEF Knows, Caught, Noted, Single, Sealing
  <2> QED BY <1>3, <2>2, <2>4, <2>5, <2>6 DEF Own, Attaching
<1>4. CASE StartCatchUp(p, r)
  <2> DEFINE n == [Idle EXCEPT !.pc = "check", !.run = r, !.upto = canon[r],
                               !.target = verdict[r]]
  <2>1. n \in ProjectorState
    BY <1>1, <1>2 DEF ProjectorState, ProjectorPc
  <2>2. /\ n.pc = "check" /\ n.live = FALSE /\ n.run = r /\ n.upto = canon[r]
        /\ n.next = 1 /\ n.target = verdict[r]
    BY DEF Idle
  <2>3. proj' = [proj EXCEPT ![p] = n] /\ UNCHANGED <<canon, verdict>> /\ canon[r] > 0
    BY <1>4 DEF StartCatchUp
  <2> HIDE DEF n
  <2>4. proj' \in [Projectors -> ProjectorState] /\ Others(p) /\ proj'[p] = n
    BY <1>0, <2>1, <2>3 DEF Others
  <2>5. canon[r] \in 1..canon'[r]
    BY <1>2, <2>3, Parameters
  <2>6. Reads(p)'
    BY <2>2, <2>3, <2>4, <2>5 DEF Reads, Attaching, Sealing
  <2>7. Knows(p)'
    BY <2>2, <2>4 DEF Knows, Caught, Noted, Single, Sealing
  <2> QED BY <2>2, <2>4, <2>6, <2>7 DEF Own, Attaching
<1> QED
  BY <1>3, <1>4

\* The live writer projects the event it has appended.
LEMMA AppendKeeps ==
  ASSUME Frame, NEW p \in Projectors, Own(p), Writes(p), AppendCanonical(p)
  PROVE  /\ proj' \in [Projectors -> ProjectorState] /\ Others(p) /\ Own(p)'
         /\ proj'[p].live /\ proj'[p].run = proj[p].run /\ proj'[p].pc = "project"
         /\ proj'[p].upto = canon'[proj[p].run] /\ proj'[p].target = verdict'[proj[p].run]
<1>a. PICK r : r = proj[p].run
  OBVIOUS
<1>0. /\ proj \in [Projectors -> ProjectorState] /\ proj[p] \in ProjectorState
      /\ canon \in [Runs -> 0..Last] /\ verdict \in [Runs -> Targets \cup {"none"}]
  BY DEF Frame, TypeOK
<1>1. /\ r \in Runs /\ proj[p].upto = canon[r] /\ proj[p].next = canon[r] + 1
      /\ proj[p].live
  BY <1>a DEF AppendCanonical, Own, Reads, Writes
<1>2. PICK t \in IF canon[r] + 1 = Last THEN Targets ELSE {"none"} :
        /\ verdict' = [verdict EXCEPT ![r] = t]
        /\ canon' = [canon EXCEPT ![r] = canon[r] + 1]
        /\ proj' = [proj EXCEPT ![p] = [proj[p] EXCEPT !.pc = "project",
                      !.upto = canon[r] + 1, !.target = t]]
  BY <1>a DEF AppendCanonical
<1>3. canon'[r] = canon[r] + 1 /\ verdict'[r] = t /\ t \in Targets \cup {"none"}
  BY <1>0, <1>1, <1>2
<1>4. canon[r] + 1 \in 0..Last
  BY <1>1, <1>3 DEF Frame
<1> DEFINE n == [proj[p] EXCEPT !.pc = "project", !.upto = canon[r] + 1, !.target = t]
<1>5. n \in ProjectorState
  BY <1>0, <1>3, <1>4 DEF ProjectorState, ProjectorPc
<1>6. /\ n.pc = "project" /\ n.upto = canon[r] + 1 /\ n.target = t
      /\ n.live = proj[p].live /\ n.run = proj[p].run /\ n.attempt = proj[p].attempt
      /\ n.next = proj[p].next /\ n.ok = proj[p].ok
  BY <1>0 DEF ProjectorState
<1>7. proj' = [proj EXCEPT ![p] = n]
  BY <1>2
<1> HIDE DEF n
<1>8. proj' \in [Projectors -> ProjectorState] /\ Others(p) /\ proj'[p] = n
  BY <1>0, <1>5, <1>7 DEF Others
<1>9. Reads(p)'
  <2>1. canon[r] \in 0..Last
    BY <1>0, <1>1
  <2>2. canon[r] + 1 \in 1..canon'[r] /\ proj[p].next <= canon[r] + 1
    BY <1>1, <1>3, <2>1, Parameters
  <2> QED BY <1>1, <1>3, <1>6, <1>8, <1>a, <2>2 DEF Reads, Attaching, Sealing
<1>10. Noted(p)'
  <2>0. proj[p].next \in 1..(Last + 1) /\ proj[p].pc = "append"
    BY ProjectorTypes DEF Frame, AppendCanonical
  <2>1. \A i \in 1..(proj[p].next - 1) : i \in Positions
    BY <2>0, Parameters DEF Positions
  <2>2. \A i \in Positions : notes[r][i] # Missing => notes'[r][i] # Missing
    BY <1>1 DEF Frame, NotesGrow
  <2>3. proj[p].ok => \A i \in 1..(proj[p].next - 1) : notes[r][i] # Missing
    BY <1>a, <2>0 DEF Own, Knows, Noted
  <2> QED BY <1>6, <1>8, <1>a, <2>1, <2>2, <2>3 DEF Noted
<1>11. Single(p)'
  <2>1. PICK m \in Nat : m = proj[p].attempt
    BY ProjectorTypes DEF Frame
  <2>2. Moves(r) /\ (~Twice(r) => Under(r, m))
    BY <1>1, <1>a, <2>1 DEF Frame, Own, Knows, Single, AppendCanonical
  <2>3. ~Twice(r)' => Under(r, m)'
    BY <2>2 DEF Moves
  <2> QED BY <1>6, <1>8, <1>a, <2>1, <2>3 DEF Single
<1>12. Caught(p)'
  BY <1>6, <1>8 DEF Caught
<1> QED
  BY <1>1, <1>3, <1>6, <1>8, <1>9, <1>10, <1>11, <1>12, <1>a DEF Own, Knows

\* Every projector still knows what it knew, and each run has one live writer.
LEMMA ProjectorsStep ==
  ASSUME Frame, Tables, SealedRecords, Reading, \A p \in Projectors : Knows(p), Next
  PROVE  /\ proj' \in [Projectors -> ProjectorState] /\ Reading'
         /\ \A p \in Projectors : Knows(p)'
<1> DEFINE Goal == /\ proj' \in [Projectors -> ProjectorState] /\ Reading'
                   /\ \A p \in Projectors : Knows(p)'
<1>0. \A p \in Projectors : Own(p) /\ Writes(p)
  BY DEF Reading, Own
<1>1. ASSUME NEW p \in Projectors, Others(p), Own(p)',
             proj' \in [Projectors -> ProjectorState], \A q \in Projectors : Writes(q)'
      PROVE  Goal
  <2>1. \A q \in Projectors : Own(q)'
    BY <1>0, <1>1, OwnKept DEF Others
  <2> QED BY <1>1, <2>1 DEF Own, Reading
<1>2. CASE UNCHANGED <<proj, canon, verdict>>
  <2>1. \A q \in Projectors : Own(q)'
    BY <1>0, <1>2, OwnKept
  <2>2. \A q \in Projectors : Writes(q)'
    BY <1>0, <1>2 DEF Writes
  <2>3. proj' \in [Projectors -> ProjectorState]
    BY <1>2 DEF Frame, TypeOK
  <2> QED BY <2>1, <2>2, <2>3 DEF Own, Reading
<1>3. ASSUME NEW p \in Projectors, Stepped(p), UNCHANGED <<canon, verdict>>
      PROVE  Goal
  <2>1. ASSUME NEW q \in Projectors, proj'[q].live
        PROVE  /\ proj[q].live /\ proj'[q].run = proj[q].run /\ proj'[q].upto = proj[q].upto
               /\ proj'[q].target = proj[q].target /\ proj'[q].pc \notin {"idle", "done"}
    BY <1>0, <1>3, <2>1 DEF Stepped, Others, Writes
  <2>2. \A q \in Projectors : Writes(q)'
    BY <1>0, <1>3, <2>1 DEF Writes
  <2> QED BY <1>1, <1>3, <2>2 DEF Stepped
<1>4. ASSUME NEW p \in Projectors, NEW r \in Runs, StartLive(p, r) \/ StartCatchUp(p, r)
      PROVE  Goal
  <2>1. /\ proj' \in [Projectors -> ProjectorState] /\ Others(p) /\ Own(p)'
        /\ proj'[p].run = r /\ proj'[p].pc \in Attaching
        /\ proj'[p].live => StartLive(p, r) /\ proj'[p].upto = 1 /\ proj'[p].target = "none"
    BY <1>4, StartKeeps
  <2>2. /\ canon \in [Runs -> 0..Last] /\ verdict \in [Runs -> Targets \cup {"none"}]
    BY DEF Frame, TypeOK
  <2>3. CASE StartCatchUp(p, r)
    <3>0. UNCHANGED <<canon, verdict>> /\ ~proj'[p].live
      <4>1. proj'[p].live = FALSE
        BY <2>3 DEF StartCatchUp, Idle, Frame, TypeOK
      <4> QED BY <2>3, <4>1 DEF StartCatchUp
    <3>1. \A q \in Projectors : Writes(q)'
      BY <1>0, <2>1, <3>0 DEF Writes, Others
    <3> QED BY <1>1, <2>1, <3>1
  <2>4. CASE StartLive(p, r)
    <3>1. /\ canon[r] = 0 /\ canon' = [canon EXCEPT ![r] = 1] /\ UNCHANGED verdict
      BY <2>4 DEF StartLive
    <3>2. ASSUME NEW q \in Projectors, proj[q].live PROVE proj[q].run \in Runs \ {r}
      <4>1. proj[q].run \in Runs /\ proj[q].upto \in 1..canon[proj[q].run]
        BY <1>0, <3>2 DEF Own, Reads, Writes
      <4> QED BY <3>1, <4>1
    <3>3. verdict[r] = "none"
      BY <3>1, Parameters DEF SealedRecords
    <3>4. \A q \in Projectors : Writes(q)'
      BY <1>0, <2>1, <2>2, <3>1, <3>2, <3>3 DEF Writes, Others, Attaching
    <3> QED BY <1>1, <2>1, <3>4
  <2> QED BY <1>4, <2>3, <2>4
<1>5. ASSUME NEW p \in Projectors, AppendCanonical(p)
      PROVE  Goal
  <2>1. /\ proj' \in [Projectors -> ProjectorState] /\ Others(p) /\ Own(p)'
        /\ proj'[p].live /\ proj'[p].run = proj[p].run /\ proj'[p].pc = "project"
        /\ proj'[p].upto = canon'[proj[p].run] /\ proj'[p].target = verdict'[proj[p].run]
    BY <1>0, <1>5, AppendKeeps
  <2>2. /\ canon \in [Runs -> 0..Last] /\ verdict \in [Runs -> Targets \cup {"none"}]
    BY DEF Frame, TypeOK
  <2>3. proj[p].live /\ \A q \in Runs \ {proj[p].run} :
          canon'[q] = canon[q] /\ verdict'[q] = verdict[q]
    BY <1>0, <1>5, <2>2 DEF AppendCanonical, Own, Reads
  <2>4. ASSUME NEW q \in Projectors \ {p}, proj[q].live
        PROVE  proj[q].run \in Runs \ {proj[p].run}
    BY <1>0, <2>3, <2>4 DEF Own, Reads, Writes
  <2>5. \A q \in Projectors : Writes(q)'
    BY <1>0, <2>1, <2>3, <2>4 DEF Writes, Others
  <2> QED BY <1>1, <2>1, <2>5
<1>6. ASSUME NEW p \in Projectors,
             \/ CheckExisting(p) \/ CreateRunWithId(p) \/ StartRun(p) \/ RunningAttempt(p)
             \/ LatestAttempt(p) \/ CreateAttempt(p) \/ Project(p) \/ ProjectFails(p)
             \/ SealRead(p) \/ SealSet(p) \/ SealRepair(p) \/ SealFails(p) \/ Return(p)
             \/ Die(p)
      PROVE  Goal
  <2>1. Stepped(p)
    BY <1>0, <1>6, ProjectorStep
  <2>2. UNCHANGED <<canon, verdict>>
    BY <1>6 DEF CheckExisting, CreateRunWithId, StartRun, RunningAttempt, LatestAttempt,
       CreateAttempt, Project, ProjectFails, SealRead, SealSet, SealRepair, SealFails,
       Return, Die
  <2> QED BY <1>3, <2>1, <2>2
<1>7. ASSUME \/ ScanRuns \/ ScanAttempts \/ MarkInterrupted
             \/ \E r \in Runs : \/ CancelRun(r) \/ ResumeInterruptedRun(r)
                              \/ \E n \in DOMAIN attempts[r] : SetAttemptStatus(r, n)
      PROVE  Goal
  <2>1. UNCHANGED <<proj, canon, verdict>>
    BY <1>7 DEF ScanRuns, ScanAttempts, MarkInterrupted, CancelRun, SetAttemptStatus,
       ResumeInterruptedRun
  <2> QED BY <1>2, <2>1
<1> HIDE DEF Goal
<1>8. Goal
  BY <1>4, <1>5, <1>6, <1>7 DEF Next
<1> QED
  BY <1>8 DEF Goal

\* `o7 recover` and the count of calls keep their types.
LEMMA RestStep ==
  ASSUME TypeOK, Next
  PROVE  /\ recover' \in [pc : {"idle", "scan_attempts", "mark"}, runs : SUBSET Runs,
                          attempts : SUBSET (Runs \X Nat)]
         /\ calls' \in 0..MaxCalls
<1> DEFINE T == [pc : {"idle", "scan_attempts", "mark"}, runs : SUBSET Runs,
                 attempts : SUBSET (Runs \X Nat)]
           Typed == recover' \in T /\ calls' \in 0..MaxCalls
<1> SUFFICES Typed
  OBVIOUS
<1>0. recover \in T /\ calls \in 0..MaxCalls
  BY DEF TypeOK
<1>1. IdleRecover \in T
  BY DEF IdleRecover
<1>2. CASE ScanRuns
  BY <1>0, <1>2 DEF ScanRuns, IdleRecover
<1>3. CASE ScanAttempts
  <2> DEFINE S == UNION {{r} \X RunningAttempts(r) : r \in Runs}
  <2>1. S \in SUBSET (Runs \X Nat)
    <3>1. \A r \in Runs : RunningAttempts(r) \subseteq Nat
      <4>1. \A r \in Runs : attempts[r] \in Seq(AttemptStatus)
        BY DEF TypeOK
      <4>2. ASSUME NEW r \in Runs PROVE DOMAIN attempts[r] \subseteq Nat
        <5>1. DOMAIN attempts[r] = 1..Len(attempts[r]) /\ Len(attempts[r]) \in Nat
          BY <4>1
        <5> QED BY <5>1
      <4> QED BY <4>2 DEF RunningAttempts
    <3> QED BY <3>1
  <2>2. recover' = [recover EXCEPT !.pc = "mark", !.attempts = S] /\ calls' = calls
    BY <1>3 DEF ScanAttempts
  <2> HIDE DEF S
  <2> QED BY <1>0, <2>1, <2>2
<1>4. CASE MarkInterrupted
  BY <1>0, <1>1, <1>4 DEF MarkInterrupted
<1>5. CASE UNCHANGED recover /\ Call
  BY <1>0, <1>5, Parameters DEF Call
<1>6. CASE UNCHANGED <<recover, calls>>
  BY <1>0, <1>6
<1>7. ASSUME NEW r \in Runs, \/ CancelRun(r) \/ ResumeInterruptedRun(r)
                             \/ \E n \in DOMAIN attempts[r] : SetAttemptStatus(r, n)
      PROVE  Typed
  BY <1>5, <1>7, SMTT(40) DEF CancelRun, ResumeInterruptedRun, SetAttemptStatus
<1>8. ASSUME NEW p \in Projectors,
             \/ \E r \in Runs : StartLive(p, r) \/ StartCatchUp(p, r)
             \/ CheckExisting(p) \/ CreateRunWithId(p) \/ StartRun(p) \/ RunningAttempt(p)
             \/ LatestAttempt(p) \/ CreateAttempt(p) \/ Project(p) \/ ProjectFails(p)
             \/ AppendCanonical(p) \/ SealRead(p) \/ SealSet(p) \/ SealRepair(p)
             \/ SealFails(p) \/ Return(p) \/ Die(p)
      PROVE  Typed
  BY <1>6, <1>8 DEF StartLive, StartCatchUp, CheckExisting, CreateRunWithId, StartRun,
     RunningAttempt, LatestAttempt, CreateAttempt, Project, ProjectFails, AppendCanonical,
     SealRead, SealSet, SealRepair, SealFails, Return, Die
<1> HIDE DEF Typed
<1> QED
  BY <1>2, <1>3, <1>4, <1>7, <1>8 DEF Next

\* Every note of a run of one attempt is under that attempt, so that projecting
\* an event again conflicts with nothing.
LEMMA UnderStep ==
  ASSUME Frame, Reading, \A p \in Projectors : Knows(p), NotesUnder,
         conflicts \subseteq Runs, \A r \in conflicts : Twice(r), Next
  PROVE  NotesUnder' /\ conflicts' \subseteq Runs /\ \A r \in conflicts' : Twice(r)'
<1>0. notes \in [Runs -> [Positions -> Nat \cup {Missing}]]
  BY DEF Frame, TypeOK
<1>1. \A r \in Runs : Twice(r) => Twice(r)'
  BY DEF Frame, Moves
<1>2. ASSUME NEW r \in Runs, NEW i \in Positions, notes'[r][i] = notes[r][i],
             notes'[r][i] # Missing, ~Twice(r)'
      PROVE  Under(r, notes[r][i])'
  <2>1. PICK n \in Nat : n = notes[r][i]
    BY <1>0, <1>2
  <2>2. Under(r, n)
    BY <1>1, <1>2, <2>1 DEF NotesUnder
  <2>3. Under(r, n)'
    BY <1>2, <2>2 DEF Frame, Moves
  <2> QED BY <1>2, <2>1, <2>3
<1>3. ASSUME NEW p \in Projectors, Project(p)
      PROVE  NotesUnder' /\ conflicts' \subseteq Runs /\ \A r \in conflicts' : Twice(r)'
  <2>1. PICK r, i, n : r = proj[p].run /\ i = proj[p].next /\ n = proj[p].attempt
    OBVIOUS
  <2>2. r \in Runs /\ i \in Positions /\ n \in Nat
    BY <1>3, <2>1, ProjectPlace DEF Project, Reading, Frame
  <2>3. ~Twice(r) => Under(r, n)
    BY <1>3, <2>1 DEF Project, Knows, Single
  <2>4. ~Twice(r)' => Under(r, n)'
    BY <1>1, <2>2, <2>3 DEF Frame, Moves
  <2>5. CASE ~NoteRecorded(r, i, n)
    <3>1. notes' = [notes EXCEPT ![r] = [@ EXCEPT ![i] = n]] /\ UNCHANGED conflicts
      BY <1>3, <2>1, <2>5 DEF Project
    <3>2. ASSUME NEW q \in Runs, NEW j \in Positions
          PROVE  notes'[q][j] = IF q = r /\ j = i THEN n ELSE notes[q][j]
      BY <1>0, <2>2, <3>1
    <3>3. ASSUME NEW q \in Runs, NEW j \in Positions, notes'[q][j] # Missing, ~Twice(q)'
          PROVE  Under(q, notes[q][j])'
      <4>1. CASE q = r /\ j = i
        BY <2>4, <3>2, <3>3, <4>1
      <4>2. CASE ~(q = r /\ j = i)
        BY <1>2, <3>2, <3>3, <4>2
      <4> QED BY <4>1, <4>2
    <3> QED BY <1>1, <3>1, <3>3 DEF NotesUnder
  <2>6. CASE NoteRecorded(r, i, n)
    <3>1. /\ UNCHANGED notes
          /\ conflicts' = IF notes[r][i] = n THEN conflicts ELSE conflicts \cup {r}
      BY <1>3, <2>1, <2>6 DEF Project
    <3>2. NotesUnder'
      BY <1>2, <3>1 DEF NotesUnder
    <3>3. notes[r][i] # n => Twice(r)
      BY <2>2, <2>3, <2>6 DEF NotesUnder, NoteRecorded, Under
    <3> QED BY <1>1, <2>2, <3>1, <3>2, <3>3
  <2> QED BY <2>5, <2>6
<1>4. CASE UNCHANGED <<notes, conflicts>>
  BY <1>1, <1>2, <1>4, SMTT(40) DEF NotesUnder
<1>5. ASSUME ~\E p \in Projectors : Project(p)
      PROVE  UNCHANGED <<notes, conflicts>>
  BY <1>5
     DEF Next, StartLive, StartCatchUp, CheckExisting, CreateRunWithId, StartRun,
         RunningAttempt, LatestAttempt, CreateAttempt, ProjectFails, AppendCanonical,
         SealRead, SealSet, SealRepair, SealFails, Return, Die, ScanRuns, ScanAttempts,
         MarkInterrupted, CancelRun, SetAttemptStatus, ResumeInterruptedRun
<1> QED
  BY <1>3, <1>4, <1>5

-----------------------------------------------------------------------------
(* The theorems *)

\* Every step keeps the invariant.
LEMMA InvNext ==
  ASSUME Inv, [Next]_vars
  PROVE  Inv'
<1>1. CASE UNCHANGED vars
  BY <1>1 DEF vars, Inv, TypeOK, Tables, Table, StatusTold, RunningAttempts, SealedRecords,
     VerdictFidelity, Reading, Reads, Writes, Knows, Caught, Noted, Single, Twice, Resumed,
     Settled, Under, NotedOnce, NotesUnder
<1>2. CASE Next
  <2> USE <1>2 DEF Inv
  <2>1. TableTypes' /\ \A q \in Runs : Transaction(q)
    BY TransactionStep
  <2>2. \A q \in Runs : Table(q)' /\ Moves(q)
    BY <2>1, TableStep DEF Tables
  <2>3. /\ canon' \in [Runs -> 0..Last] /\ verdict' \in [Runs -> Targets \cup {"none"}]
        /\ SealedRecords' /\ RecordGrows
    BY RecordStep
  <2>4. /\ notes' \in [Runs -> [Positions -> Nat \cup {Missing}]]
        /\ NotesGrow /\ NotedOnce'
    BY NotesStep
  <2>5. Frame
    BY <2>2, <2>3, <2>4 DEF Frame
  <2>6. /\ proj' \in [Projectors -> ProjectorState] /\ Reading'
        /\ \A p \in Projectors : Knows(p)'
    BY <2>5, ProjectorsStep
  <2>7. NotesUnder' /\ conflicts' \subseteq Runs /\ \A r \in conflicts' : Twice(r)'
    <3>1. conflicts \subseteq Runs
      BY DEF TypeOK
    <3> QED BY <2>5, <3>1, UnderStep
  <2>8. TypeOK'
    BY <2>1, <2>3, <2>4, <2>6, <2>7, RestStep DEF TypeOK, TableTypes
  <2>9. VerdictFidelity'
    <3> SUFFICES ASSUME NEW r \in Runs, row'[r] \in Sealed PROVE row'[r] = verdict'[r]
      BY DEF VerdictFidelity
    <3>1. row'[r] = verdict[r]
      BY SealStep DEF VerdictFidelity
    <3> QED BY <2>3, <3>1 DEF RecordGrows, Sealed
  <2> QED BY <2>2, <2>3, <2>4, <2>6, <2>7, <2>8, <2>9 DEF Tables
<1> QED
  BY <1>1, <1>2

\* An empty ledger without records satisfies the invariant.
LEMMA InvInit ==
  ASSUME Init
  PROVE  Inv
<1> USE DEF Init
<1>1. Idle \in ProjectorState
  BY Parameters DEF Idle, ProjectorState, ProjectorPc
<1>2. /\ canon \in [Runs -> 0..Last] /\ verdict \in [Runs -> Targets \cup {"none"}]
      /\ row \in [Runs -> RunStatus \cup {"none"}] /\ calls \in 0..MaxCalls
      /\ notes \in [Runs -> [Positions -> Nat \cup {Missing}]]
      /\ attempts \in [Runs -> Seq(AttemptStatus)] /\ conflicts \subseteq Runs
  BY Parameters
<1>3. log \in [Runs -> LogRow]
  <2>1. [i \in Positions |-> << >>] \in [Positions -> Seq(Nat)] /\ << >> \in Seq(RunStatus)
    OBVIOUS
  <2> QED BY <2>1 DEF LogRow
<1>4. recover \in [pc : {"idle", "scan_attempts", "mark"}, runs : SUBSET Runs,
                   attempts : SUBSET (Runs \X Nat)]
  BY DEF IdleRecover
<1>5. proj \in [Projectors -> ProjectorState]
  BY <1>1
<1>6. TypeOK
  BY <1>2, <1>3, <1>4, <1>5 DEF TypeOK
<1>7. ASSUME NEW r \in Runs PROVE Table(r)
  <2>1. row[r] = "none" /\ attempts[r] = << >> /\ log[r].status = << >>
    OBVIOUS
  <2>2. RunningAttempts(r) = {}
    BY <2>1 DEF RunningAttempts
  <2>3. << >> \in Seq(AttemptStatus) /\ << >> \in Seq(RunStatus)
    OBVIOUS
  <2> QED BY <2>1, <2>2, <2>3 DEF Table, Settled
<1>8. SealedRecords /\ VerdictFidelity /\ NotedOnce /\ NotesUnder
  BY Parameters DEF SealedRecords, VerdictFidelity, NotedOnce, NotesUnder, Sealed
<1>9. \A p \in Projectors : Reads(p) /\ Writes(p) /\ Knows(p)
  BY DEF Idle, Reads, Writes, Knows, Caught, Noted, Single
<1> QED
  BY <1>6, <1>7, <1>8, <1>9 DEF Inv, Tables, Reading

\* The inductive invariant holds of every behaviour of the ledger.
THEOREM Invariance == Spec => []Inv
<1>1. Init => Inv
  BY InvInit
<1>2. Inv /\ [Next]_vars => Inv'
  BY InvNext
<1> QED
  BY <1>1, <1>2, PTL DEF Spec

\* After every transaction the rows, attempts and events of the ledger agree with
\* each other, and a sealed row tells its record's verdict.
THEOREM LedgerAgreement == Spec => []LedgerAgrees
<1>1. Inv => LedgerAgrees
  BY DEF Inv, Tables, Table, LedgerAgrees, OneRunningAttempt, EventsTellStatus
<1> QED
  BY <1>1, Invariance, PTL

\* However often a record is projected, append_system_note notes an event once, and
\* conflicts only in a run that was attempted twice or resumed.
THEOREM NotesAgreement == Spec => []NotesAgree
<1>1. Inv => NotesAgree
  BY DEF Inv, NotesAgree, ConflictNeedsSecondAttempt, Twice, Resumed
<1> QED
  BY <1>1, Invariance, PTL

\* A projection that reports success has caught the ledger up with all it read, and
\* nothing undoes that while its caller uses the receipt.
THEOREM Receipts == Spec => []CaughtUp
<1>1. Inv => CaughtUp
  BY DEF Inv, Knows, Caught, CaughtUp
<1> QED
  BY <1>1, Invariance, PTL
=============================================================================
