# A verification of 007's run core

`o7` runs a coding agent against a task, runs gates on the result and writes a
*canonical record* of the run: an append-only, hash-chained `events.jsonl` with
the artifacts its events refer to. `o7-run` folds a record into a verdict. A
SQLite *ledger* keeps conversations, runs and commands for a daemon, `o7d`, that
accepts follow-up commands over HTTP and carries each one out by spawning
`o7 continue`. `o7 recover` repairs the ledger from the records after a crash.
Below that sit the crates that own processes and directories: `o7-worker`
supervises one process tree, plainly or behind the Sandboy boundary; `o7-worktree`
owns the worktrees of a state root; `o7-verifier` runs a trusted command and
judges what it left. `o7 invoke` asks a model one question and `o7 judge` asks one
about the findings of a scan.

The models cover the fold and its verdict, the writers of the record and what a
reader makes of a record cut off anywhere, the protocol by which a command reaches
its provider at most once, the projection of a record into the ledger, how
a candidate state travels from run to run, the worker with its launch handshake,
the worktree store, the verifier, and the two model callers. Paths below are
relative to the repository.

## Inventory

| Part | State | Operations | Hard behaviour |
|---|---|---|---|
| `crates/o7-run` reducer (`reduce.rs`, `state.rs`, `event.rs`) | `RunState`: phase, contract, agent, gates, policies, sandbox evidence, receipts, verdict | one per event kind, `validate_contract`, `compute_verdict` | any order of events; precedence of four verdicts; obligations that excuse each other |
| `crates/o7-run` replay, candidate | none (reads a record) | `verify_prefix`, the digest, receipt, patch and lineage checks | partial records, files that change between two reads |
| `src/main.rs`, `events.rs`, `gate.rs`, `record.rs`: the writers | the record directory | `o7 run`, `o7 run --ledger`, `o7 continue` | a crash or a power loss between any two writes |
| `src/worktree.rs` | a git worktree, its index, a private index file | `add`, `diff_vs_base`, `capture_cumulative_candidate`, `apply_candidate_patch` | a process the agent left behind writes between two git commands |
| `src/recovery.rs`, `o7-ledger/src/recovery.rs` | reads records, writes the ledger | `classify_command_child`, `catch_up_record`, `scan`, `mark_interrupted`, `reconcile_completed_commands` | runs with no lock beside live processes |
| `src/ledger_projector.rs` | the row and attempt it is attached to | `attach_run`, `project`, `seal`, `seal_or_repair_interrupted` | failures are warnings; replays must be idempotent |
| `crates/o7-ledger` | conversations, runs, attempts, events, commands, idempotency keys | one transaction per operation | check-then-act across transactions and processes |
| `crates/o7d` routes, `canonical.rs` | handlers in progress, a flock per run id | `create_command`, redrive, recovery of a sealed child | concurrent retries, stale snapshots, slow children, abandoned handlers |
| `crates/o7d` stream, replay limiter | cursor, permits | SSE with resumption, bounded blocking replays | reconnects, cancelled requests |
| `crates/o7-worker` | a process group, its pipes and channel, the launch future, `WorkerState`, the observation sink | `spawn` with the Sandboy handshake, the select loop, cancel, graceful and forced stop, cleanup, drain, result | exit, output, heartbeat and cancel race in one `select!`; futures dropped half way; `/proc` scans beside forks |
| `crates/o7-sandbox-protocol` | none | request, report and GO frames | a report that is not about this launch |
| `crates/o7-worktree` | the state root: directories, `worktrees.json`, `.lock` | `create`, `reopen`, `cleanup`, `prune`, the handle's `cleanup` | several processes, deaths between steps, entries swapped by someone else |
| `crates/o7-verifier` | the trust store, one verification, its evidence | `verify`, `adjudicate` | the executable changes while it is read, staged and run; a timeout races the exit; trust is revoked |
| `src/invoke.rs`, `invoke_arliai.rs` | a run directory, a process group or one HTTPS request | `o7 invoke` | timeouts, descendants that hold pipes, two calls in one directory, echoed credentials |
| `src/judge.rs` | a pool of workers, a channel, the overlay | `o7 judge` | files finish in any order; short, repeated or misordered answers |
| `o7-a1-cas`, `o7-a1-contracts`, `o7-closure-*`, `o7-harness-policy` | a content store; the rest none | parsers, checks, derivations | bounds and classifications |
| `src/agent.rs`, `apps/q-deck` | none the core reads | provider command lines, the browser client | I/O |

How they meet: `o7d` and `o7 continue` share the command and run tables and one
`flock` per run id; `o7 continue` and every reader share the record; `o7 recover`
shares all of it and takes no lock; a continuation reads its parent's record and
candidate files; the verifier runs its command through the worker and relies on no
more than the worker's contract. What makes each part correct:

- the reducer: a pass is earned, a blocked verdict hides nothing worse, nothing
  protected starts before its policies allow it, evidence is never rewritten;
- the writers: every record they leave is one the reducer accepts, and its
  classification errs on the side of not running a provider again;
- the command protocol: at most one provider call per command, one child at work
  per conversation, a ledger that never says more than the records do, and every
  command settled in the end;
- the projection: rows, attempts, events, notes and record agree, and a catch-up
  reports no more than it applied;
- the candidate chain: the sealed patch makes the tree its receipt names, nothing the
  agent left is lost, and a continuation starts exactly where its parent ended;
- the worker: one result; a clean one means that the group is gone, all output was
  seen and the sink was told; no launch lets an unverified target run; a cancel ends it;
- the worktree store: no foreign directory is destroyed, no removal is claimed that did
  not happen, nothing the store made is forgotten;
- the verifier: only trusted bytes run, only an earned run is accepted, and it ends;
- invoke: a run directory tells of one call, and a credential reaches it only as the
  documentation says it may;
- judge: each file is answered or counted as skipped, each verdict belongs to its finding.

`PROJECT.json` lists every component with its status, and every hazard at its line.

## Modules

### RunReducer

`crates/o7-run/src/{reduce,state,event}.rs`. The variables are the fields of
`RunState`; the single-shot artifact fields are the set `receipts`. There is one
action per `RunEventKind`, with a guard `...Ok` of its own that is everything
`reduce` checks for that kind; `Refuse` is an event whose guard fails, after which
`reduce_all` stops. `validate_contract`, `check_protected_start`,
`agent_nonstart_disposition` and `compute_verdict` keep their names. Abstracted:
digests, locators and contents of artifacts (a kind, or `"Unlocated"`), the seven
agent outcomes the reducer treats alike (`"Fault"`), and the envelope of an event
(sequence, parent digest, ids).

### RunWriter

Extends RunReducer. A writer is a straight-line program (`Program[mode]`, one for
`execute_live`, `continue_execute` and `execute`), `pc` its position. Stages write
files, append events, attach the ledger row, start the provider or run gates. The
reducer's variables are the fold of what was appended; the writer does not consult
it, so an event it would refuse is appended and sets `refused`. `Die` is any `?` or
kill, possibly leaving a torn line; `PowerLoss` may drop every content not synced
and every file whose directory entry was not, which is the disk the comment on
`sync_dir` (`src/record.rs`) describes. `classify_command_child` is the reader.

### CommandDispatch

One conversation: `o7d`'s handlers (`request`), the `o7 continue` processes
(`child`, one per run id), `o7 recover`, the clock (`stale`). A step is one ledger
transaction, one lock call or one stretch of the record; the record of a child is
what `classify_command_child` tells apart, which RunWriter justifies. A handler may
be abandoned between two steps, a child may die or fail at any of its steps and may
tear its record, a seal may fail as a warning. `MaxFaults` bounds those failures
and nothing else; `o7 recover` may run at any time and stop anywhere at no charge.

A row's `attach_run` is one step although the code uses several transactions; the
one intermediate state the others can notice (a row that is not started) is a
failure case of `Fail`. The sealed statuses are one status, `"terminal"`: nothing
here depends on the verdict. Requests answered without a change of state are not
steps. Run ids are fresh, so `owner` never changes once set.

### CommandContract

What the client of a conversation may rely on, in three variables (`phase`, `base`,
`ran`) and without requests, children, locks or recoveries: sections 0, 4 and 5 of
`docs/q-deck/r1-command.md` as a specification. One command is open at a time; it
continues the first run or a completed command, and nothing carried out continues the same
one; its prompt runs once at most and past the dispatch boundary only; past it the command
is sealed and completed, or stays open for a person, and is never rejected.
CommandDispatch implements it by the refinement mapping `Contract`
(`ImplementsCommandContract`): the phase of a command is its row until it is bound and
after it is settled, and the record of its present child in between, so a redrive must not
take it back.

### LedgerProjection

The tables CommandDispatch sees only as a row: runs, attempts, events and the
idempotency records of notes (`sqlite.rs`, `transitions.rs`, `idempotency.rs`), and
the processes that project a record into them. `proj` holds the live writers and the
catch-ups; a step of theirs is one transaction or one read of `attach_run`,
`project` and `seal_inner`, so `attach_run`, one step in CommandDispatch, is five
here. `recover` is `o7 recover`, whose scan is two steps because the code makes two
queries. A canonical event is its position in the record and the last one is
`RunSealed`; the digest of a note is reduced to its attempt, the only part that two
projections of one event can disagree on. `cancel_run`,
`set_attempt_status` and `resume_interrupted_run` have no caller in the repository;
they are actions bounded by `MaxCalls` (`interrupt_run`, which has none either, does
what a recovery does). A process may die at any step, and a note or a seal may fail
as a warning, any number of times. Not in it: the session back-fill of a
catch-up (CommandDispatch has it) and the identity checks that refuse a foreign record.

### CandidateChain

`src/worktree.rs`, `crates/o7-run/src/candidate.rs` and the parts of `main.rs` between
them. One conversation; runs start one after the other, as CommandDispatch shows they
do. A tree is a function from paths to entries (a blob, a gitlink or `Gone`), so a
patch is what git makes of two trees and `git apply` of a patch and a tree; the object
id of a tree is the tree, the digest of a file its content. Each git command of
`capture_cumulative_candidate` is a step and so is each read of a parent's file in
`materialize_parent_candidate_state`. In between, the provider and what it left running
write to the worktree, the index, the index flags, a submodule or the branch
(`MaxEdits`), and HEAD, the repository or a file of a record may change (`MaxTampers`).
`start`, `left` and `quiet` are history. Ignored paths and file modes are left out.

### ProcessGroup, SandboyLaunch, WorkerSupervisor

`crates/o7-worker`, one module over the other. **ProcessGroup** is the kernel's side:
the leader and its descendants fork, exit and leave the group at any moment; a
`killpg` marks the members that are alive then; the `/proc` scan
(`process_identity.rs`) first lists pids and later looks at each, so a member born in
between can be missed (`forked` remembers it). **SandboyLaunch** is
`ProcessBoundary::spawn` for a plain boundary, for Sandboy and for a boundary of which
only the trait is known: staging, the request, the report, every check of
`verify_report`, GO, and `kill_and_reap`; `DropSpawn` is the future dropped at any of
its awaits. A report is the set of what is wrong with it. **WorkerSupervisor** is the
task of `supervisor.rs`; each value of `pc` is an await. The `select!` loop is one
action per branch, the pipes are readers that feed a bounded channel, and a bounded
operation may succeed, fail or run out of time with or without its effect. `late` is
the only clock: whatever has a deadline may see it pass at any moment. Payloads, pids,
chunk sizes and the reasons inside errors are left out.

### WorkerContract

What a caller of the worker may rely on, in five variables: a worker is created, perhaps
runs, ends once with one result; a clean result is told to a live sink, a cancelled one
was asked for, an exited one ran; and once it was asked to stop, or its process exited
under a boundary that reports it, it ends. `WorkerSupervisor` implements it by the
refinement mapping `Contract` (`ImplementsContract`, safety and liveness), and
VerifierRun is written on top of it.

### WorktreeStore

`crates/o7-worktree`. The digest of an identity is injective, so a worktree's name is
the triple (run, repository, revision). `place` says where an inode's only name is;
inodes are not reused. `owner` says which create made a directory or took it for its own:
`create_worktree_dir` makes one by name (`MkDir`) and then opens the name again to learn
the identity (`BindDir`), of whatever is there by then. Each of `create`, `cleanup` and `prune` takes the lock, loads the
state file into `ctx`, works step by step (`reap.rs` is open, rename, prove, clear,
rmdir) and writes its copy back; the handle's own `cleanup` takes no lock. A process may
die at any step (`MaxDeaths`), another one may move, swap or plant an entry or alter a
record (`MaxMeddle`), and the repository path may come to name another directory
(`MaxRepo`). Every git call is one step with the four outcomes of `run_bounded`. The
contents of a tree are five stages of its construction.

### VerifierRun

`crates/o7-verifier`, one verification and the adjudications after it, over the variables
of WorkerContract. `disk` is the executable's file, `fd`, `bytes` and `mem` what it was
when opened, read and staged; a read beside a write may be `Torn`. The trust store
changes only when `verify` does not borrow it. Any field of the stored evidence may be
edited, up to `MaxEdits` of them; `altered` remembers which. A digest is the tuple of what
is folded into it: it covers the command and the executable, and not the outcome, the exit
code and the attested level, which `adjudicate` reads as they stand.

### InvokeCall

`src/invoke.rs`, `src/invoke_arliai.rs`: calls that share one `--out`. A command-line
backend is a leader and one descendant, which may hold the pipe and may leave the group;
the version probe uses the same machinery. An answer is what its classification tells
apart. `out` remembers for each file who wrote it, under which status and how it holds the
key: not at all, verbatim, with JSON escapes, or in a form no parser undoes (`Echoes`).
The code compares bytes, so only the verbatim echo is refused (`credential_reflected`);
`result.json` is the decoded content, in which an escaped echo is verbatim (`Decoded`). A
write that fails may leave its file torn (`Tear`). A call may be killed anywhere
(`MaxKills`).

### JudgePool

`src/judge.rs`. A finding id is the triple it is hashed from. Workers claim files in
order, ask a backend that may fail, stay silent, or answer any sequence of verdicts up
to `MaxVerdicts`, retry, pair and send; the main thread joins, merges and writes. codex's
answer travels through a file named by a clock reading, which two workers may share:
`replies` records whose answer was read, and `OverlayByPosition` speaks of runs in which
everyone read its own. The file of a call that could not be started or waited for stays
behind. An answer is an array of verdicts or text without one, and any array, also `[]`, is
an answer to the code. What the code filters in a loop over a vector is here a set of
places and `Pick`, the sequence of what stands at them in ascending order.

Definitions ending in `_bug` are wrong variants used by no specification; each names
the property that must notice the change.

## Runs

| Run | Instance | Shows |
|---|---|---|
| `record` | 2 gates, 2 policies, 19 contracts (`MCContracts`), events in any order; 3 writers, 7 manifests of up to 2 steps; 228,012 states | a pass is discharged, a blocked verdict honest, protection holds, over every event order; records are accepted and lead their rows; classification after any death or power loss |
| `dispatch` | 2 commands, 2 handlers, 3 run ids beside the root, 1 failure, `o7 recover --run-dir` on any run; 1,002,728 states up to symmetry | the safety properties of the protocol and the refinement of CommandContract |
| `dispatch_settles` | 1 command, 2 handlers, 2 run ids, 1 failure; 97,606 states | `EventuallySettled` |
| `projection` | 1 run, a record of 2 events, 2 verdicts, 2 projecting processes, any failures, 1 call from outside; 3,610,142 states up to symmetry | the tables agree with each other and with the record |
| `candidate` | 2 runs, 2 commits, a file and a submodule, 2 edits, 1 tampering; 3,822,792 states | patches make their trees, nothing is lost, continuations start where parents ended |
| `worker` | a leader and 2 descendants, 1 pipe, a channel of 1, all three boundaries; 1,075,137 states | the four safety properties and the refinement of WorkerContract |
| `worker_monitor_loss` | the same with 1 descendant | **violation** of `MonitorLossFailsClosed` |
| `worktree` | 2 processes, 2 runs, 1 revision, 2 repositories, 2 inodes, 1 meddling, 1 death; 1,735,694 states up to symmetry | removals, records and prune reports tell the truth |
| `verifier` | 3 commands (one ill-formed), 2 executables, 2 exit codes, 1 swap, 1 change of trust, 1 edited field of the evidence; 2,305,716 states | only trusted bytes run, acceptance is earned, verification ends |
| `invoke` | 2 calls, 3 backends, 1 kill; 2,442,080 states | one call per directory, a contained credential, a timeout that ends |
| `judge` | 2 workers, 2 files (of up to 3 in the scan), 1 retry, answers of up to 2 verdicts; 1,819,108 states | accounting, position, termination |
| `judge_short` | the same as `judge` | **violation** of `CleanRunIsComplete` |

What the properties say; each is stated in full, with the code it is about, above its
definition.

- `record`, of the reducer under any stream: `PassMeansDischarged` (a pass has every
  required obligation met), `BlockedHidesNothing` (a blocked verdict stands over no required gate that failed or is
  unfinished and over no agent that failed; policies and sandbox evidence are not part of it),
  `ProtectedOnlyUnderAllowed` (what a policy protects starts after it allowed it).
- `record`, of the writers: `RecordLeads` (every prefix replays, no ledger row precedes
  its record),
  `NeverRedrivenOnceInvoked`, `DeadBeforeDispatchIsRedrivable` (the reader errs on the safe
  side and otherwise not at all), `PassMeansStepsRan` (a pass means that the manifest's
  required steps ran or were waived with a reason). `RecordLeads` and `PassMeansStepsRan`
  compare a record with its writer and its manifest, so they speak of records that one of
  the three modes wrote.
- `dispatch`: `AtMostOneInvocation`; `DispatchedStaysBound` (a run past the dispatch boundary
  keeps its command); `ExclusiveContinuation` (one child of a conversation at work);
  `TerminalMeansSealed` and `CompletedMeansSealed` (neither a row nor a command says more
  than a sealed record); `ImplementsCommandContract` (what the client sees is a
  chain of commands, carried out one at a time, each at most once, and a rejected one never).
  `dispatch_settles`: `EventuallySettled`.
- `projection`: `LedgerAgrees` (rows, attempts and events among themselves and with the
  record), `NotesAgree` (replays note nothing twice), `CaughtUp` (a projection that reports
  success projected all it read).
- `candidate`: `PatchMakesTree`, `NothingLost`, `StartsWhereParentEnded`, `LineageIsSound`
  (a record that verifies carries its parent's own receipt, and its patch when the base is
  a commit).
- `worker`: `GroupGone` (no result but a cleanup failure over a live member),
  `OutputComplete` and `CleanResultReported` (what a clean result promises of the output and
  of the sink), `LaunchIsSafe` (types; no unverified target, nothing alive behind an
  abandoned launch), `ImplementsContract`.
- `worktree`: `RemovalProven` (a reported removal is one of the recorded directory),
  `RecordedIsWhole` (a record names a finished, independent worktree), `ForeignTreesKept`
  (what no create made or took for its own is not destroyed), `PruneReportsAll` (remains are found),
  `OnlyDroppedLeave` (no record is lost to a stale copy of the file).
- `verifier`: `NeverRunsUntrusted`, `VerifyEnds`, `AcceptedIsEarned` (what is
  accepted is trusted now; and unless the observations of the evidence, or two of its three
  bindings, were edited, it was earned by a run of just that).
- `invoke`: `RunDirIsOneCall` (but for two calls that found the directory empty at the same
  time), `CredentialContained` (only the body of a success that holds the key in another
  form than verbatim carries it, into `stdout.raw` and `result.json`), `KillEndsCall`.
- `judge`: `EveryFileAccounted` (each file is merged once; exit code and counters tell how
  many were answered by an array, be it empty or short), `OverlayByPosition` (a verdict is
  the one at its finding's place), `JudgeEnds`; `judge_short`:
  `CleanRunIsComplete`, which the code does not keep.

Why the bounds are enough. The `record` run starts either as one of the writers or as a stream
that nobody wrote (`Stream`), in which every event may come next. Contracts have one
instance of every kind of obligation, pairs where obligations interact (two protectors of the agent, a required beside an
optional gate, a waived one), and one invalid contract per check. Manifests have an
executed and a skipped step in both orders and each kind of `waive_reason`. The races
in the protocol are between two processes over one command, or a command and its
successor: two handlers and two commands are those, three run ids allow a redrive
and a following command, and a failure is what starts a redrive. The theorems
remove the bounds for every safety property.
Runs share nothing in the projection's tables but the event sequence, so one is
enough there, and its races are between two projectors and a recovery.
`EventuallySettled` was also checked once with 3 run ids and 2 failures (1.8 million
states, six minutes).

A candidate travels from one run to the next, and two edits are enough to put something
in the worktree and to change the index behind the capture's back. A descendant that
forks behind a scan and one that escapes with the pipe are the two the worker has to
tell apart; a channel of one message is full, and blocks its readers, after one
message. A
worktree's removal races one other process and one foreign directory. The verifier's
commands differ in what the trust key binds (requirement and exit policy), two executables
are the trusted and the other one; the run edits one field: an adjudication
has to notice the edit of one binding and cannot notice that of an observation.
`AcceptedIsEarned` was also checked once with two edits, without the ill-formed command
(7,126,334 states up to symmetry); its theorem is for any number. Two
calls share a directory or do not, and their third state is a directory left by a killed call. Two judge workers over two files
give every order of completion of two results, a retry that succeeds and one that does
not; `--max-files` cuts off the third file of a scan, whose keys the code still knows.

Fairness. `FairSpec` (`dispatch_settles`): a handler and a child that have
started go on until they fail (the operating system schedules them; a provider is
given `--max-turns`; that a gate command ends is an assumption on the manifest, since
`gate.rs` gives it no timeout), the clock advances, and the client
repeats its request under the same idempotency key, which `docs/q-deck/r1-command.md`
asks of it. There is no fairness for `o7 recover`, for a new command or for
failures. Weak fairness is enough: a retry stays possible until somebody else takes
it or settles the command. `EventuallySettled` counts the two fail-closed outcomes,
a child dead past the dispatch boundary and a record that does not verify, as
settled: the code leaves both to a person on purpose.

In WorkerSupervisor the runtime polls the task while it can move; the cancel and the
exit branch of the `select!` are each weakly fair, since tokio picks among the ready
branches at random; and time passes. Nothing is assumed of the processes, the pipes,
the sink or the spawn: that a hung spawn or a pipe held for ever cannot keep a cancelled
worker is the point of `ImplementsContract`. VerifierRun assumes of its worker exactly
that contract's fairness, and that its timer fires. InvokeCall assumes only that `o7`
itself takes its next step, JudgePool that its threads run and that a backend that was
asked answers or exits (`judge.rs` sets no timeout of its own).

`CHECK_DEADLOCK FALSE` is used where the thing modelled ends: a fold, a writer, a worker,
a verification, a call, a judge and a conversation of two runs.

## What the violations show

**`MonitorLossFailsClosed`** (`crates/o7-worker/src/sandboy_boundary.rs:544`). When the
monitor exits and leaves members of its group alive, `wait` kills them and polls until
they are gone before it returns the error. The supervisor polls `wait` in a `select!`; if
output, a heartbeat or a cancellation wins meanwhile the future is dropped, the killed
group drains, and the next `wait` finds it empty and returns the monitor's exit as a
clean one. Line 43 of the file says that such a monitor "fails closed even on a clean
code", and `boundary.rs:271` that dropping a pending `wait()` "must lose no progress".
The group is gone all the same (`GroupGone`): what is lost is the report.

**`CleanRunIsComplete`** (`src/judge.rs:651`). Only a skipped file makes the exit code
non-zero and only a verdict with an invalid class counts as malformed. A backend that
answers `[]`, or fewer verdicts than it was asked for, is neither: the run exits 0 with
both counters at 0 over an overlay that lacks findings of the files it counts as judged (a
length that does not match is a warning on stderr). The comments want otherwise: lines
505-506 "Count both so the overlay/meta can't silently pass as complete", 649-650 "so a
wrapper / dashboard can't read a silently-incomplete triage as a clean, complete run", and
370 "so a worker failure can't let a partial run pass as clean".

## Noted while modelling

Where the models had to follow the code past what a comment says, or to except a case
from a property. None of these is a run of its own.

- `crates/o7-ledger/src/sqlite.rs:1396`: a command is rejected when *its present* run has no
  row; after a redrive an earlier child's unfinished row may remain the newest of the
  conversation, the wedge the comment at `src/main.rs:1574` sets out to rule out.
- `src/main.rs:1643`: after a failed seal (a warning) the command is completed over a row
  that is not terminal, against `crates/o7-ledger/src/models.rs:240`. What holds, and is
  proved, is `CompletedMeansSealed`: the record is sealed.
- `crates/o7-run/src/reduce.rs:627`: the reducer lets a command binding arrive after the
  agent started, past the check at `AgentStarted` that line 298 explains. No writer
  appends in that order (`RecordLeads`).
- `src/main.rs:679`, `src/record.rs:358`: the session receipt's directory entry and the
  diff are not synced before the event that refers to them. After a power loss the
  record verifies as invalid, which fails closed: `NeverRedrivenOnceInvoked` holds under
  the same power loss.
- `crates/o7-ledger/src/recovery.rs:18`: a scan is two queries. A run started between
  them gets its attempt interrupted and its row left running; a catch-up then creates a
  second attempt and every note recorded under the first conflicts, although
  `src/ledger_projector.rs:286` calls `project` safe to repeat. What holds is the second
  half of `NotesAgree`.
- `crates/o7-worktree/src/store.rs:320`: the record of an interrupted cleanup is dropped as
  vanished while the quarantined remains stay in the root; `prune` lists them
  (`PruneReportsAll`).
- `crates/o7-worktree/src/git.rs:619`: `run_bounded` joins its drain threads without a
  deadline, so a helper that left the group with the pipe open keeps the call and the lock.
- `src/invoke.rs:888-978` and `detect_version` (740): the reader threads are joined without a
  deadline after a normal exit too; only a timeout kills the group first, which is why
  `KillEndsCall` speaks of calls that timed out and of descendants in the group.
- `crates/o7-worker/src/process_identity.rs:76`: a member that is forked behind the `/proc`
  scan, by one that then exits, is not seen, and the empty answer counts as proof.
  `GroupGone` excepts such a member (`forked`).
- `crates/o7-worktree/src/stateroot.rs:168`, `185`: between the mkdirat and the openat that
  learns the identity another process can put a directory of its own at the name; it is
  taken for the one just made, recorded, and cleared by a failed build or a cleanup.
  `ForeignTreesKept` and `RecordedIsWhole` count it as the store's from then on.
- `crates/o7-verifier/src/verdict.rs:92`, `105`: `adjudicate` reads the outcome, the exit
  code and the attested level of the stored evidence, which the digest does not cover; and
  a command edited together with its digest agrees with itself. Such evidence is accepted
  if what it names is trusted; `AcceptedIsEarned` says no more of it.
- `src/invoke.rs:675`: `ensure_empty_out` takes no lock, so two calls that find the directory
  empty at the same time write over each other. `RunDirIsOneCall` excepts them (`raced`).
- `src/invoke.rs:448`, `487`: the key is looked for in the raw body and `result.json` is the
  decoded content, so a key with JSON escapes passes and stands there verbatim.
  `docs/o7-invoke.md:342-361` names transformed echoes as a residual risk;
  `CredentialContained` states exactly that residue.
- `src/judge.rs:510-515`: an answer of the wrong length is paired by key across all files,
  so what the overlay says of a finding named by two files depends on the order of the
  merge; `OverlayByPosition` excepts exactly those findings, and says nothing of the
  verdicts that such an answer dropped.
- `src/judge.rs:886`: codex's last-message file is named by a clock reading, "plenty unique
  for a serial judge loop"; the loop has been a pool since.
- `src/main.rs:549`, `1192` with `src/worktree.rs:82`: with the default `--base HEAD` the
  record's `diff.patch` is taken against HEAD *of the worktree*, so an agent that commits
  empties it. The candidate patch is taken against the resolved commit and is not affected.
- `src/main.rs:455`: when `rev_parse` fails the base of the obligation is the name `HEAD`.
  `PatchMakesTree` excepts such a receipt; `StartsWhereParentEnded` covers it.
  `LineageIsSound` excepts it for the patch only: `HEAD` may name another tree by then, so
  that another patch, put in place of the parent's (with a receipt that names it) between
  the verification and the re-read at `src/main.rs:985`, makes the tree the parent's
  receipt declares. It takes three changes from outside, and what the provider starts from
  is still that tree. The attempt to prove the property led to it.

## Proofs

`tlapm` checks the eight proof modules to the last leaf; nothing is assumed but the named
`ASSUME`s of the models, which TLC evaluates in the runs: `SubjectsDistinct` (gate ids are
neither `"agent"` nor `"verifier"`), `ContractsAreContracts`, `ModesAreWriters` and
`ManifestsAreManifests` (the shapes of what the reducer and the writer are given),
`Distinct` (the two absent values are outside their sets, the root is a run), `Parameters`,
`CandidateAssumption`, `VerifierAssumption`, `StoreAssumption`, `MaxKidsNat`,
`CapacityPositive` (shapes and ranges of the constants; a channel has a capacity),
`AbsentIsNothing` (the absent value is no call and no status), `JudgeAssumption` (the pool
has workers and finitely many, a scan is a sequence of findings, the caps are numbers, the
absent class is no class), and `DigestInjective` (a command digest tells commands and
executables apart, as the hash it stands for does).

Every inductive invariant below was checked by TLC on the instance of its run before it
was proved.

**RunRecordProofs** is about the reducer and the writer together, since the writer's
argument folds through the reducer's. Of the reducer it proves `TypeOK`,
`PassMeansDischarged`, `BlockedHidesNothing`, `ProtectedOnlyUnderAllowed`,
`CandidateEvidenceOrdered` and `EvidenceWriteOnce` for all gates, policies and contracts.
The inductive invariant adds that nothing is folded before `RunStarted` and that a bound
contract is valid: validation makes every protecting policy a required one, without which
`check_protected_start` would look at too few of them. The verdict properties come from
two lemmas on `compute_verdict` at the moment of the seal.

Of the writer it proves `RecordLeads`, `NeverRedrivenOnceInvoked`,
`DeadBeforeDispatchIsRedrivable` and `PassMeansStepsRan` for all manifests, modes and
outcomes. A writer walks along a fixed line of stages; each line is written out once
(`LiveLine`, `ContinueLine`, `PosthocLine`), which gives the order of the stages as facts
about `Past`, and the rest of `WriterInv` is stated in terms of `Past`:

- `Folded`, `Captured`, `Ran`: the folded state is a function of the stages left behind,
  so each event meets exactly the state in which `reduce` accepts it;
- `StepProgress`, `GateProgress`: what the fold knows of a gate is how far its step came,
  and a verdict is one that `run_one_step` can give for that step;
- `OnDisk`: in a continuation each durable file is durable once passed, and so is the
  record itself before `AgentStarted`: the `sync_dir` of `parent_candidate` covers the
  directory entry that the first append left unsynced. This is why a power failure after
  the provider's start cannot leave a directory that reads as never dispatched.

**CommandDispatchProofs** proves `TypeOK`, the five invariants of `dispatch`, the
refinement of CommandContract, and on its own that a rejected command ran nothing
(`RejectedRanNothing`, which the contract implies), for any numbers of commands, runs, handlers and failures. None is inductive alone; the
argument, in the order of the conjuncts of `Inv`:

- `Minted`, `SpawnedOnce`: a run id belongs to one command and has one process;
- `Exclusion`: the flock of a run has one owner, so
- `Decided`: what a handler read of a record under the lock is still true when it
  acts on it (that a record classified undispatched cannot dispatch meanwhile), and
- `Bound`: a child past its binding check cannot be rebound away, and its command is
  in flight while it works;
- `Progress`, `RootDone`: how record, row and provider follow the child's position;
- `Pinned`: hence a record past the dispatch boundary keeps its command for good,
  from which `AtMostOneInvocation` and `RejectedRanNothing` follow;
- `OneInFlight`: with `Bound`, one child at work.

The lemmas follow the actors (`AcceptSteps`, `RedriveSteps`, `ChildSteps`,
`FailureSteps`, `RecoverSteps`), one step per action and one per conjunct it disturbs.

`ImplementsCommandContract` takes a second layer, `Chain`: the provider is started once in
the life of a child, after its row and before its seal (`Delivered`), and the parent of a
command is sealed and stops being the tail as soon as any run of the command has a row
(`Chained`), also a run that a redrive left behind and `o7 recover` attached later. Then
each step moves one command by one phase (`Moved`) or is not seen by the client
(`Unseen`). The step that needs the whole invariant is `Accept`: a sealed tail belongs to a
command that is completed, because a rejected one ran nothing and no other is in flight
(`SealedParent`), and whatever was carried out before has a row, so its parent is not the
tail (`AcceptContract`).

**CandidateChainProofs** proves `PatchMakesTree`, `StartsWhereParentEnded`, `NothingLost`
and `LineageIsSound` for any paths, commits, runs, edits and tamperings. None is inductive
alone; beside the first three, `Inv` has

- `Frozen`: once the private index is a copy, the patch in hand is the difference between
  the base and the tree in hand, whoever writes to the worktree's own index meanwhile;
- `Rebuilt`: what a continuation holds of its parent is the parent's own sealed receipt,
  whatever has become of the files since, and index and worktree are rebuilt in step;
- `Kept`: while nothing outlives the provider, what each check found before the freeze is
  still true at the freeze.

`LineageIsSound` takes a second layer, `LineageInv`: a continuation's obligation is its
parent's from the first (`InHand`), a receipt tells what its record tells (`Receipts`), a
sealed record never changes again (`Lineage`), and the patch that was applied is the
difference between the base and the rebuilt tree (`Applied`). A patch git made
(`IsPatch`) that turns one given tree into another is the only one (`DiffOfPatch`), so a
patch exchanged between two reads is either the parent's own or makes another tree.

**VerifierRunProofs** proves `NeverRunsUntrusted` and `AcceptedIsEarned`, two properties
of steps, for any commands, contents, exit codes and number of changes:

- `Vetted`: from the trust check on the sealed memfd is trusted for the command;
- `Executed`: what a worker that runs, or exited, executed is that memfd (the worker
  itself is only known by WorkerContract);
- `Stored`: evidence of a completed run tells what the run did unless that was edited, and
  binds the command, the bytes and their digest, each until it is edited. By
  `DigestInjective` two of them determine the third, so when at most one was edited an
  adjudication that finds all three in agreement speaks of the run itself.

**LedgerProjectionProofs** proves `LedgerAgrees`, `NotesAgree` and `CaughtUp` for any runs,
projectors and record lengths. Whatever the step, it is one transaction; a transaction
keeps the tables of a run consistent (`Table`) and moves a run only in ways a projector can
live with (`Moves`): a sealed row stays sealed, and until a second attempt so do a settled
row and the newest attempt. Records and notes only grow. So what a projector knows (`Own`)
survives the transactions of all the others, which is what makes a decision on a row
that was read in an earlier transaction sound.

**WorkerSupervisorProofs** proves `GroupGone`, `OutputComplete`, `CleanResultReported`,
`LaunchIsSafe` and the safety half of `ImplementsContract` (the initial states of
WorkerSupervisor map to ones of WorkerContract, and each step to a step or a stutter) for
any processes, pipes and channel capacity. The result is decided several awaits after what
it stands for happened, while the processes go on, so the invariant carries the facts
along: where the spawn may be at each await (`Place`), why the run ended (`TermInv`), what
the sink was told (`ObsInv`), that the last scan found the group empty (`GroupInv`), that
the drain read everything (`OutputInv`), and what a launch has verified (`LaunchInv`).
What the processes do by themselves is one relation, `Wild`, and each part is closed
under it.

**WorktreeStoreProofs** proves `RemovalProven`, `RecordedIsWhole` and the action properties
`ForeignTreesKept`, `OnlyDroppedLeave` and `PruneReportsAll` for any processes, runs and
directories. Who creates, cleans up or prunes holds the lock, so what it is to write is the
file but for its own record (`LockHeld`, `Fresh`); a directory never comes back to the
worktree name it was born with, so what a removal proved under the quarantine name stays
away from every recorded path, also for the removal through a handle, which takes no lock
(`Lasting`, `ClearedAway`); and a record only ever names a directory that a create made or
took (`Known`, `BindTakes`).

**ModelCallProofs** is about the two commands that call a model by themselves. Of
InvokeCall it proves `RunDirIsOneCall` and `CredentialContained` for any number of
calls into one directory. A call that found it empty while no other was about to write
owns it: whoever goes on has written `prompt.txt` itself, and the other files are of the
same hand (`Owned`), as far as the steps behind it write them (`Progress`). Status and
value are given together, once, to one answer (`Classified`), which the call's own backend
gave before it was reaped (`Heard`); a process is started without the key, so it prints
none (`ProcessKnowsNoKey`), and how a file holds the key follows from the answer its writer
was given (`Contained`).

Of JudgePool it proves `EveryFileAccounted` and `OverlayByPosition` for any scan, workers,
retries and answers. The inductive invariant `JudgeInv` says where each file that was
handed out is: with exactly one worker, or in exactly one result, sent or merged
(`Accounts`), a result being a skip or what `judge_one_file` makes of the answer that was
read for that file (`Answered`); `Phases` ties the main thread to the workers and the
channel. When the workers have left and the channel is empty, the merged results and the
files are in bijection (`OneResultPerFile`), and so are the skipped ones and the count in
`meta.json` (`SkipsCounted`, by `SameCount`: two finite sets that a relation pairs off have
one size). For the overlay, an answer of the right length says at each id exactly what
stands at the finding's own place (`JudgedByPosition`), one of the wrong length speaks only
of findings whose key it echoes (`JudgedByKey`), and the merge changes what the overlay says
of a finding only through an answer that names it (`OverlayOfFinding`).

The filters of `judge.rs` are `Pick` over `Ascending`, which lists a finite set of numbers
by rank, and not the recursive `SelectSeq`: that the list is ascending, complete and
without repetition then follows from facts about cardinalities (`AscendingLists`) and needs
no induction over the sequence.

Records of the model are updated as `![k] = [@ EXCEPT !.a = x, !.b = y]` where two
fields change: this release of the prover mistreats two paths with a common prefix
in one `EXCEPT`.

Thirty-five of the listed theorems state a property that a run checks, which is every safety
property of every passing run; the other six are type correctness (twice), the order of
candidate evidence, that evidence is written once, `RejectedRanNothing`, and the safety half
of the worker's refinement.

Only model-checked is liveness, which is out of this prover's reach: `EventuallySettled`,
`VerifyEnds`, `KillEndsCall`, `JudgeEnds` and the fairness half of `ImplementsContract`.

## Not modelled, and the plan

Next, in this order:

1. `EventChain`: the envelope `reduce` and `replay.rs` check (sequence, parent digest,
   ids), what a truncated or reordered stream can pass as.
2. `EventStream`, `ReplayLimiter`: resumption by cursor without loss or duplicate; a
   permit held for exactly as long as its blocking task.
3. `CasSession`, and the closure classifier as operators against a reference definition.

An abstract specification still worth stating is an append-only event log that
LedgerProjection and EventStream share.

Left out for good: command-line parsing, rendering, DTOs, provider prompts, the argument
vectors of git, the browser client, schema migrations (SQL text), tables of constants
(`o7-harness-policy`), the descriptor scrubbing of a forked child (`fd_scrub.rs`: one
sequential pass), and the strict parsers of `o7-a1-contracts`. `o7-closure-*` is a large
body of pure checks over JSON documents, sequential and without state, most of which is
the shape of those documents; only its classification would make a model.
Noted and not modelled: the run directory's own entry in its parent is never synced
(the models take it to be on disk), and the newest run of a conversation is found by
a timestamp, which assumes that the clock does not go back.
