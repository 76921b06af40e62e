--------------------------- MODULE ProcessGroup ---------------------------
(***************************************************************************)
(* The process group a boundary owns, as o7-worker sees it through the     *)
(* kernel: killpg and waitpid (host_boundary.rs) and the /proc scan that   *)
(* is its only authority on who is still alive (process_identity.rs).      *)
(*                                                                         *)
(* The processes themselves are external: they fork, exit, and may leave   *)
(* the group (setsid) at any moment, between any two steps of the worker.  *)
(* A process that has a SIGKILL pending does nothing more, but may take    *)
(* arbitrarily long to die.                                                *)
(***************************************************************************)
EXTENDS Naturals, FiniteSets, Sequences

CONSTANTS
    MaxKids,    \* how many processes the leader's tree may come to hold
    NoScan      \* no /proc scan is under way

ASSUME MaxKidsNat == MaxKids \in Nat

VARIABLES
    proc,       \* what each process is to the kernel
    signalled,  \* the live processes that have a SIGKILL pending
    scan,       \* the pids listed by the scan under way, or NoScan
    forked      \* history: a member forked while that scan was under way

groupVars == <<proc, signalled, scan, forked>>

\* The process spawned with process_group(0), and its descendants in the
\* order of their birth.
Leader == 0
Kids == 1..MaxKids
Procs == {Leader} \cup Kids

\* "zombie" is the exited, unwaited leader; "outside" left the group and
\* still holds the pipes; a kid that exits is init's to reap: "gone".
ProcState == {"unborn", "live", "zombie", "reaped", "outside", "gone"}

GroupTypeOK ==
    /\ proc \in [Procs -> ProcState]
    /\ signalled \subseteq Procs
    /\ scan \in {NoScan} \cup SUBSET Procs
    /\ forked \in BOOLEAN

GroupInit ==
    /\ proc = [p \in Procs |-> "unborn"]
    /\ signalled = {}
    /\ scan = NoScan
    /\ forked = FALSE

\* A zombie keeps its pgid in /proc but is_terminal_state leaves it out.
Members == {p \in Procs : proc[p] = "live"}

Outside == {p \in Kids : proc[p] = "outside"}

PipeHolders == Members \cup Outside

(***************************************************************************)
(* External: what the processes of the group do.                           *)
(***************************************************************************)

Fork(k) ==
    /\ proc[k] = "unborn"
    /\ \A j \in Kids : proc[j] = "unborn" => k =< j
    /\ Members \ signalled # {}
    /\ proc' = [proc EXCEPT ![k] = "live"]
    /\ forked' = (forked \/ scan # NoScan)
    /\ UNCHANGED <<signalled, scan>>

Exit(p) ==
    /\ proc[p] \in {"live", "outside"}
    /\ proc' = [proc EXCEPT ![p] = IF p = Leader THEN "zombie" ELSE "gone"]
    /\ signalled' = signalled \ {p}
    /\ UNCHANGED <<scan, forked>>

Escape(k) ==
    /\ proc[k] = "live"
    /\ k \notin signalled
    /\ proc' = [proc EXCEPT ![k] = "outside"]
    /\ UNCHANGED <<signalled, scan, forked>>

ProcessesRun ==
    \/ \E k \in Kids : Fork(k) \/ Escape(k)
    \/ \E p \in Procs : Exit(p)

(***************************************************************************)
(* Signals. killpg of a group that is gone (ESRCH) succeeds; SIGTERM       *)
(* leaves it to each process whether to exit, so it changes nothing here.  *)
(* An operation the supervisor gave up on may still have taken effect.     *)
(***************************************************************************)

signal_group == signalled' = signalled \cup Members

force_stop(ok) ==
    \/ signal_group
    \/ ~ok /\ signalled' = signalled

(***************************************************************************)
(* enumerate_group: list the pids, then read each one's stat. A pid that   *)
(* exited before its stat was read is skipped, one that is still there is  *)
(* reported, whatever it does afterwards; a pid born after the listing is  *)
(* not looked at.                                                          *)
(***************************************************************************)

ListPids ==
    /\ scan = NoScan
    /\ scan' = Members
    /\ forked' = FALSE
    /\ UNCHANGED <<proc, signalled>>

\* Whether the scan under way may report no member, or some.
MayReportNone == scan # NoScan /\ scan \cap Members = {}
MayReportSome == scan # NoScan /\ scan # {}

ScanDone == scan' = NoScan /\ UNCHANGED forked

===========================================================================
