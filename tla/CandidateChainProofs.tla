------------------------ MODULE CandidateChainProofs ------------------------
(***************************************************************************)
(* What a capture and a continuation promise, for any repository, any      *)
(* number of runs and any number of edits and changes between two git      *)
(* commands.                                                               *)
(*                                                                         *)
(* None of these properties is inductive alone.    A receipt's patch and *)
(* its tree agree because both come from one frozen index (Frozen).  A     *)
(* continuation starts where its parent ended because what it verified is  *)
(* still the parent's receipt, whatever became of the files, and because   *)
(* nobody writes to the worktree while it is rebuilt (Rebuilt).  A quiet   *)
(* capture loses nothing because each check before the freeze still holds  *)
(* at the freeze (Kept).                                                   *)
(*                                                                         *)
(* That a record's lineage is sound rests on those and on a second layer   *)
(* (LineageInv): a run's obligation is its parent's from the start, a      *)
(* sealed record never changes again, and a patch that git made and that   *)
(* turns a given commit into a given tree is the only one that does.       *)
(***************************************************************************)
EXTENDS CandidateChain, TLAPS

\* A function on the paths, whatever its entries are.
IsTree(t) == t = [p \in Paths |-> t[p]]

Bases == Commits \cup {"HEAD"}

RecordFields == {"stage", "parent", "base", "repo", "receipt", "mat"}

\* The parts of the state's type that the argument needs.
Shape ==
    /\ head \in Commits /\ base \in Bases
    /\ IsTree(wt) /\ IsTree(idx) /\ IsTree(snap) /\ IsTree(oid)
    /\ dirty \subseteq Paths
    /\ DOMAIN record = Runs
    /\ \A r \in Runs : DOMAIN record[r] = RecordFields
    /\ \A r \in Runs : record[r].receipt # Gone => record[r].receipt.base \in Bases
    /\ pc # "idle" => run \in Runs

\* The patch in hand is the difference to the tree in hand.
Frozen ==
    base # "HEAD" =>
      /\ pc = "tree" => bytes = Diff(TreeOf[base], snap)
      /\ pc \in {"patch", "receipt"} =>
           /\ bytes = Diff(TreeOf[base], oid)
           /\ gitlink_entries(oid) = gitlink_entries(TreeOf[base])

Rebuilding == {"reread", "copy", "child add", "apply", "applied", "compare"}

\* A continuation holds its parent's own receipt, and index and worktree are
\* rebuilt in step.
Rebuilt ==
    /\ pc = "add" => parent = 0
    /\ pc # "idle" /\ parent # 0 => parent \in Runs \ {run}
    /\ pc \in Rebuilding \cup {"load"} => parent # 0
    /\ pc \in Rebuilding =>
         src # Gone /\ src = record[parent].receipt /\ record[parent].stage = "sealed"
    /\ pc \in {"apply", "applied"} => wt = idx
    /\ pc = "compare" => wt = oid

\* As long as nothing outlives the provider, the worktree is what it left, and
\* what the checks before the freeze found stays true.
Kept ==
    quiet =>
      /\ pc \in Exposed \ {"agent"} => left = [tree |-> wt, dirty |-> dirty]
      /\ pc = "flags" => idx = add_all
      /\ pc \in {"submodules", "read"} => idx = wt /\ hidden = {}
      /\ pc \in {"read", "temp", "diff", "tree"} => dirty = {}
      /\ pc \in {"temp", "diff", "tree"} => snap = wt
      /\ pc \in {"patch", "receipt"} => oid = left.tree /\ left.dirty = {}

Inv == Shape /\ Frozen /\ Rebuilt /\ Kept
         /\ PatchMakesTree /\ StartsWhereParentEnded /\ NothingLost

\* A patch made by `git diff` turns the tree it was made from into the other.
LEMMA PatchOfDiff ==
    ASSUME NEW t, NEW u, IsTree(u)
    PROVE  Patched(t, Diff(t, u)) = u
BY DEF Patched, Diff, IsTree

LEMMA CommitTrees == \A c \in Commits : IsTree(TreeOf[c])
BY CandidateAssumption DEF Trees, IsTree

\* Nothing is recorded and the worktree is empty.
LEMMA InitInv == Init => Inv
BY CandidateAssumption DEF Init, Inv, Shape, Frozen, Rebuilt, Kept, PatchMakesTree,
   StartsWhereParentEnded, NothingLost, IsTree, Bases, RecordFields, Rebuilding, Exposed,
   NoTree, NoRecord, At

\* Starting a run or a continuation: nothing is captured or rebuilt yet.
LEMMA StartSteps ==
    ASSUME Inv,
           \/ \E r \in Runs : BeginRun(r)
           \/ \E r, p \in Runs : resolve_inherited_candidate_obligation(r, p)
           \/ AddWorktree
    PROVE  Inv'
<1> USE DEF At, Goes, worldVars, treeVars, readVars, histVars
<1>1. ASSUME NEW r \in Runs, BeginRun(r) PROVE Inv'
  <2>1. Shape'
    BY <1>1 DEF Inv, Shape, IsTree, Bases, RecordFields, NoRecord, BeginRun
  <2>2. PatchMakesTree'
    BY <1>1 DEF Inv, PatchMakesTree, Shape, RecordFields, NoRecord, BeginRun
  <2>3. Frozen' /\ Rebuilt' /\ Kept' /\ StartsWhereParentEnded' /\ NothingLost'
    BY <1>1 DEF Inv, Frozen, Rebuilt, Rebuilding, Kept, Exposed,
       StartsWhereParentEnded, NothingLost, BeginRun
  <2> QED
    BY <2>1, <2>2, <2>3 DEF Inv
<1>2. ASSUME NEW r \in Runs, NEW p \in Runs, resolve_inherited_candidate_obligation(r, p)
      PROVE  Inv'
  <2>1. Shape'
    BY <1>2 DEF Inv, Shape, IsTree, Bases, RecordFields, NoRecord,
       load_verified_candidate_receipt, verify_prefix,
       verify_candidate_state_captured, resolve_and_verify,
       resolve_inherited_candidate_obligation
  <2>2. PatchMakesTree'
    BY <1>2 DEF Inv, PatchMakesTree, Shape, RecordFields, NoRecord,
       resolve_inherited_candidate_obligation
  <2>3. Rebuilt'
    <3>1. r \in Nat /\ p # 0
      BY <1>2, CandidateAssumption
    <3>2. record[p].stage # "none" /\ (record[r].stage # "none" <=> r < r)
      BY <1>2 DEF resolve_inherited_candidate_obligation, load_verified_candidate_receipt,
         verify_prefix
    <3>3. p # r
      BY <3>1, <3>2
    <3> QED
      BY <1>2, <3>1, <3>3 DEF Rebuilt, Rebuilding, resolve_inherited_candidate_obligation
  <2>4. Frozen' /\ Kept' /\ StartsWhereParentEnded' /\ NothingLost'
    BY <1>2 DEF Inv, Frozen, Kept, Exposed, StartsWhereParentEnded, NothingLost,
       resolve_inherited_candidate_obligation
  <2> QED
    BY <2>1, <2>2, <2>3, <2>4 DEF Inv
<1>3. CASE AddWorktree
  <2>1. Shape'
    BY <1>3, CommitTrees DEF Inv, Shape, IsTree, Bases, RecordFields, Checkout,
       AddWorktree
  <2>2. Rebuilt' /\ StartsWhereParentEnded'
    BY <1>3 DEF Inv, Rebuilt, Rebuilding, StartsWhereParentEnded, Exposed,
       AddWorktree
  <2>3. Frozen' /\ Kept' /\ PatchMakesTree' /\ NothingLost'
    BY <1>3 DEF Inv, Frozen, Kept, Exposed, PatchMakesTree, NothingLost, AddWorktree
  <2> QED
    BY <2>1, <2>2, <2>3 DEF Inv
<1> QED
  BY <1>1, <1>2, <1>3

\* Rebuilding the parent's tree: the receipt in hand stays the parent's own.
LEMMA RebuildSteps ==
    ASSUME Inv,
           \/ LoadParent
           \/ RereadPatch
           \/ CopyEvidence
           \/ AddChildWorktree
           \/ ApplyPatch
           \/ finish_apply
           \/ Materialized
    PROVE  Inv'
<1> USE DEF At, Goes, worldVars, treeVars, readVars, histVars
<1>1. CASE LoadParent
  <2>1. Rebuilt'
    BY <1>1 DEF Inv, Rebuilt, Rebuilding, Shape, RecordFields,
       load_verified_candidate_receipt, verify_candidate_state_captured,
       resolve_and_verify, LoadParent
  <2>2. Shape' /\ Frozen' /\ Kept' /\ PatchMakesTree' /\ StartsWhereParentEnded' /\ NothingLost'
    BY <1>1 DEF Inv, Shape, IsTree, Bases, RecordFields, Frozen, Kept, Exposed,
       PatchMakesTree, StartsWhereParentEnded, NothingLost, LoadParent
  <2> QED
    BY <2>1, <2>2 DEF Inv
<1>2. CASE RereadPatch
  BY <1>2 DEF Inv, Shape, IsTree, Bases, RecordFields, Frozen, Rebuilt, Rebuilding,
     Kept, Exposed, PatchMakesTree, StartsWhereParentEnded, NothingLost, RereadPatch
<1>3. CASE CopyEvidence
  BY <1>3 DEF Inv, Shape, IsTree, Bases, RecordFields, Frozen, Rebuilt, Rebuilding,
     Kept, Exposed, PatchMakesTree, StartsWhereParentEnded, NothingLost,
     CopyEvidence
<1>4. CASE AddChildWorktree
  <2>1. Shape'
    <3>1. src.base \in Bases
      BY <1>4 DEF Inv, Shape, Rebuilt, Rebuilding, AddChildWorktree
    <3>2. IsTree(TreeAt(src.base, TreeOf[head]))
      BY <3>1, CommitTrees DEF Inv, Shape, Bases, TreeAt
    <3> QED
      BY <1>4, <3>2 DEF Inv, Shape, Checkout, AddChildWorktree
  <2>2. Rebuilt'
    BY <1>4 DEF Inv, Rebuilt, Rebuilding, Checkout, AddChildWorktree
  <2>3. Frozen' /\ Kept' /\ PatchMakesTree' /\ StartsWhereParentEnded' /\ NothingLost'
    BY <1>4 DEF Inv, Frozen, Kept, Exposed, PatchMakesTree, StartsWhereParentEnded,
       NothingLost, AddChildWorktree
  <2> QED
    BY <2>1, <2>2, <2>3 DEF Inv
<1>5. CASE ApplyPatch
  <2>1. Shape'
    BY <1>5 DEF Inv, Shape, IsTree, Bases, RecordFields, Patched, ApplyPatch
  <2>2. Rebuilt'
    BY <1>5 DEF Inv, Rebuilt, Rebuilding, ApplyPatch
  <2>3. Frozen' /\ Kept' /\ PatchMakesTree' /\ StartsWhereParentEnded' /\ NothingLost'
    BY <1>5 DEF Inv, Frozen, Kept, Exposed, PatchMakesTree, StartsWhereParentEnded,
       NothingLost, ApplyPatch
  <2> QED
    BY <2>1, <2>2, <2>3 DEF Inv
<1>6. CASE finish_apply
  <2>1. Shape'
    BY <1>6 DEF Inv, Shape, IsTree, Bases, RecordFields, finish_apply
  <2>2. Rebuilt'
    BY <1>6 DEF Inv, Rebuilt, Rebuilding, finish_apply
  <2>3. Frozen' /\ Kept' /\ PatchMakesTree' /\ StartsWhereParentEnded' /\ NothingLost'
    BY <1>6 DEF Inv, Frozen, Kept, Exposed, PatchMakesTree, StartsWhereParentEnded,
       NothingLost, finish_apply
  <2> QED
    BY <2>1, <2>2, <2>3 DEF Inv
<1>7. CASE Materialized
  <2>1. Shape'
    BY <1>7 DEF Inv, Shape, IsTree, Bases, RecordFields, Materialized
  <2>2. Rebuilt'
    BY <1>7 DEF Inv, Rebuilt, Rebuilding, Shape, RecordFields, Materialized
  <2>3. PatchMakesTree'
    BY <1>7 DEF Inv, PatchMakesTree, Shape, RecordFields, Materialized
  <2>4. StartsWhereParentEnded'
    BY <1>7 DEF Inv, StartsWhereParentEnded, Exposed, Rebuilt, Rebuilding, Shape,
       RecordFields, Materialized
  <2>5. Frozen' /\ Kept' /\ NothingLost'
    BY <1>7 DEF Inv, Frozen, Kept, Exposed, NothingLost, Materialized
  <2> QED
    BY <2>1, <2>2, <2>3, <2>4, <2>5 DEF Inv
<1> QED
  BY <1>1, <1>2, <1>3, <1>4, <1>5, <1>6, <1>7

\* What the provider, or a process it left, does to the worktree and its index.
LEMMA WriteSteps ==
    ASSUME Inv,
           \/ \E p \in Paths, e \in Entries : EditFile(p, e)
           \/ \E p \in Paths, e \in Entries : EditIndex(p, e)
           \/ \E p \in Paths : FlagEntry(p)
           \/ \E p \in Paths : EditSubmodule(p)
           \/ Commit
    PROVE  Inv'
<1> USE DEF At, Goes, worldVars, treeVars, readVars, histVars
<1>1. ASSUME NEW p \in Paths, NEW e \in Entries, EditFile(p, e) PROVE Inv'
  <2>1. Shape'
    BY <1>1 DEF Inv, Shape, IsTree, Bases, RecordFields, Writes, EditFile
  <2>2. Frozen' /\ Rebuilt' /\ Kept' /\ PatchMakesTree' /\ StartsWhereParentEnded' /\ NothingLost'
    BY <1>1 DEF Inv, Frozen, Rebuilt, Rebuilding, Kept, Exposed, PatchMakesTree,
       StartsWhereParentEnded, NothingLost, Writes, EditFile
  <2> QED
    BY <2>1, <2>2 DEF Inv
<1>2. ASSUME NEW p \in Paths, NEW e \in Entries, EditIndex(p, e) PROVE Inv'
  <2>1. Shape'
    BY <1>2 DEF Inv, Shape, IsTree, Bases, RecordFields, Writes, EditIndex
  <2>2. Frozen' /\ Rebuilt' /\ Kept' /\ PatchMakesTree' /\ StartsWhereParentEnded' /\ NothingLost'
    BY <1>2 DEF Inv, Frozen, Rebuilt, Rebuilding, Kept, Exposed, PatchMakesTree,
       StartsWhereParentEnded, NothingLost, Writes, EditIndex
  <2> QED
    BY <2>1, <2>2 DEF Inv
<1>3. ASSUME NEW p \in Paths, FlagEntry(p) PROVE Inv'
  BY <1>3 DEF Inv, Shape, IsTree, Bases, RecordFields, Frozen, Rebuilt, Rebuilding,
     Kept, Exposed, PatchMakesTree, StartsWhereParentEnded, NothingLost, Writes,
     FlagEntry
<1>4. ASSUME NEW p \in Paths, EditSubmodule(p) PROVE Inv'
  BY <1>4 DEF Inv, Shape, IsTree, Bases, RecordFields, Frozen, Rebuilt, Rebuilding,
     Kept, Exposed, PatchMakesTree, StartsWhereParentEnded, NothingLost, Writes,
     EditSubmodule
<1>5. CASE Commit
  <2>1. Shape'
    BY <1>5 DEF Inv, Shape, IsTree, Bases, RecordFields, Writes, add_all, Commit
  <2>2. Frozen' /\ Rebuilt' /\ Kept' /\ PatchMakesTree' /\ StartsWhereParentEnded' /\ NothingLost'
    BY <1>5 DEF Inv, Frozen, Rebuilt, Rebuilding, Kept, Exposed, PatchMakesTree,
       StartsWhereParentEnded, NothingLost, Writes, Commit
  <2> QED
    BY <2>1, <2>2 DEF Inv
<1> QED
  BY <1>1, <1>2, <1>3, <1>4, <1>5

\* Staging and checking: what each check finds stays true of a quiet worktree.
LEMMA CheckSteps ==
    ASSUME Inv,
           \/ AgentExits
           \/ diff_vs_base
           \/ Stage
           \/ CheckFlags
           \/ CheckSubmodules
    PROVE  Inv'
<1> USE DEF At, Goes, worldVars, treeVars, readVars, histVars
<1>1. CASE AgentExits
  <2>1. Shape' /\ Frozen' /\ PatchMakesTree' /\ NothingLost'
    BY <1>1 DEF Inv, Shape, IsTree, Bases, RecordFields, Frozen, PatchMakesTree,
       NothingLost, AgentExits
  <2>2. Kept'
    BY <1>1 DEF Inv, Kept, Exposed, AgentExits
  <2>3. Rebuilt' /\ StartsWhereParentEnded'
    BY <1>1 DEF Inv, Rebuilt, Rebuilding, StartsWhereParentEnded, Exposed,
       AgentExits
  <2> QED
    BY <2>1, <2>2, <2>3 DEF Inv
<1>2. CASE diff_vs_base
  <2>1. Shape'
    BY <1>2 DEF Inv, Shape, IsTree, Bases, RecordFields, add_all, diff_vs_base
  <2>2. Kept'
    BY <1>2 DEF Inv, Kept, Exposed, diff_vs_base
  <2>3. Frozen' /\ Rebuilt' /\ PatchMakesTree' /\ StartsWhereParentEnded' /\ NothingLost'
    BY <1>2 DEF Inv, Frozen, Rebuilt, Rebuilding, PatchMakesTree,
       StartsWhereParentEnded, Exposed, NothingLost, diff_vs_base
  <2> QED
    BY <2>1, <2>2, <2>3 DEF Inv
<1>3. CASE Stage
  <2>1. Shape'
    BY <1>3 DEF Inv, Shape, IsTree, Bases, RecordFields, add_all, Stage
  <2>2. Kept'
    BY <1>3 DEF Inv, Kept, Exposed, add_all, Stage
  <2>3. Frozen' /\ Rebuilt' /\ PatchMakesTree' /\ StartsWhereParentEnded' /\ NothingLost'
    BY <1>3 DEF Inv, Frozen, Rebuilt, Rebuilding, PatchMakesTree,
       StartsWhereParentEnded, Exposed, NothingLost, Stage
  <2> QED
    BY <2>1, <2>2, <2>3 DEF Inv
<1>4. CASE CheckFlags
  <2>1. Kept'
    BY <1>4 DEF Inv, Kept, Exposed, ensure_no_index_hidden_flags, add_all, Shape,
       IsTree, CheckFlags
  <2>2. Shape' /\ Frozen' /\ Rebuilt' /\ PatchMakesTree' /\ StartsWhereParentEnded' /\ NothingLost'
    BY <1>4 DEF Inv, Shape, IsTree, Bases, RecordFields, Frozen, Rebuilt,
       Rebuilding, PatchMakesTree, StartsWhereParentEnded, Exposed, NothingLost,
       CheckFlags
  <2> QED
    BY <2>1, <2>2 DEF Inv
<1>5. CASE CheckSubmodules
  <2>1. Kept'
    BY <1>5 DEF Inv, Kept, Exposed, ensure_no_dirty_submodule_worktree,
       check_no_dirty_submodule_status, Shape, CheckSubmodules
  <2>2. Shape' /\ Frozen' /\ Rebuilt' /\ PatchMakesTree' /\ StartsWhereParentEnded' /\ NothingLost'
    BY <1>5 DEF Inv, Shape, IsTree, Bases, RecordFields, Frozen, Rebuilt,
       Rebuilding, PatchMakesTree, StartsWhereParentEnded, Exposed, NothingLost,
       CheckSubmodules
  <2> QED
    BY <2>1, <2>2 DEF Inv
<1> QED
  BY <1>1, <1>2, <1>3, <1>4, <1>5

\* From the frozen index to the receipt.
LEMMA FreezeSteps ==
    ASSUME Inv,
           \/ ReadIndex
           \/ CreateSnapshot
           \/ DiffIndex
           \/ WriteTree
           \/ WritePatch
           \/ write_candidate_state_receipt
    PROVE  Inv'
<1> USE DEF At, Goes, worldVars, treeVars, readVars, histVars
<1>1. CASE ReadIndex
  <2>1. Kept'
    BY <1>1 DEF Inv, Kept, Exposed, ReadIndex
  <2>2. Shape' /\ Frozen' /\ Rebuilt' /\ PatchMakesTree' /\ StartsWhereParentEnded' /\ NothingLost'
    BY <1>1 DEF Inv, Shape, IsTree, Bases, RecordFields, Frozen, Rebuilt,
       Rebuilding, PatchMakesTree, StartsWhereParentEnded, Exposed, NothingLost,
       ReadIndex
  <2> QED
    BY <2>1, <2>2 DEF Inv
<1>2. CASE CreateSnapshot
  BY <1>2 DEF Inv, Shape, IsTree, Bases, RecordFields, Frozen, Rebuilt, Rebuilding,
     Kept, Exposed, PatchMakesTree, StartsWhereParentEnded, NothingLost,
     CreateSnapshot
<1>3. CASE DiffIndex
  <2>1. Frozen'
    BY <1>3 DEF Inv, Frozen, TreeAt, DiffIndex
  <2>2. Shape' /\ Rebuilt' /\ Kept' /\ PatchMakesTree' /\ StartsWhereParentEnded' /\ NothingLost'
    BY <1>3 DEF Inv, Shape, IsTree, Bases, RecordFields, Rebuilt, Rebuilding, Kept,
       Exposed, PatchMakesTree, StartsWhereParentEnded, NothingLost, DiffIndex
  <2> QED
    BY <2>1, <2>2 DEF Inv
<1>4. CASE WriteTree
  <2>1. Frozen'
    BY <1>4 DEF Inv, Frozen, TreeAt, ensure_no_gitlink_mutation, WriteTree
  <2>2. Kept'
    BY <1>4 DEF Inv, Kept, Exposed, WriteTree
  <2>3. Shape' /\ Rebuilt' /\ PatchMakesTree' /\ StartsWhereParentEnded' /\ NothingLost'
    BY <1>4 DEF Inv, Shape, IsTree, Bases, RecordFields, Rebuilt, Rebuilding,
       PatchMakesTree, StartsWhereParentEnded, Exposed, NothingLost, WriteTree
  <2> QED
    BY <2>1, <2>2, <2>3 DEF Inv
<1>5. CASE WritePatch
  BY <1>5 DEF Inv, Shape, IsTree, Bases, RecordFields, Frozen, Rebuilt, Rebuilding,
     Kept, Exposed, PatchMakesTree, StartsWhereParentEnded, NothingLost, WritePatch
<1>6. CASE write_candidate_state_receipt
  <2>1. Shape'
    BY <1>6 DEF Inv, Shape, IsTree, Bases, RecordFields,
       write_candidate_state_receipt
  <2>2. PatchMakesTree'
    BY <1>6, PatchOfDiff DEF Inv, PatchMakesTree, Frozen, Shape, RecordFields,
       write_candidate_state_receipt
  <2>3. NothingLost'
    BY <1>6 DEF Inv, NothingLost, Kept, Shape, RecordFields,
       write_candidate_state_receipt
  <2>4. Rebuilt'
    BY <1>6 DEF Inv, Rebuilt, Rebuilding, Shape, RecordFields,
       write_candidate_state_receipt
  <2>5. Frozen' /\ Kept' /\ StartsWhereParentEnded'
    BY <1>6 DEF Inv, Frozen, Kept, Exposed, StartsWhereParentEnded,
       write_candidate_state_receipt
  <2> QED
    BY <2>1, <2>2, <2>3, <2>4, <2>5 DEF Inv
<1> QED
  BY <1>1, <1>2, <1>3, <1>4, <1>5, <1>6

\* A run ends, sealed or not, and what happens around the runs.
LEMMA EndSteps ==
    ASSUME Inv,
           \/ Seal
           \/ Fail
           \/ \E c \in Commits : HeadMoves(c)
           \/ RepoReplaced
           \/ \E r \in Runs : FileChanges(r)
    PROVE  Inv'
<1> USE DEF At, Goes, worldVars, treeVars, readVars, histVars
<1>1. CASE Seal
  <2>1. Shape'
    BY <1>1 DEF Inv, Shape, IsTree, Bases, RecordFields, Remove, NoTree, Seal
  <2>2. PatchMakesTree'
    BY <1>1 DEF Inv, PatchMakesTree, Shape, RecordFields, Remove, Seal
  <2>3. Frozen' /\ Rebuilt' /\ Kept' /\ StartsWhereParentEnded' /\ NothingLost'
    BY <1>1 DEF Inv, Frozen, Rebuilt, Rebuilding, Kept, Exposed,
       StartsWhereParentEnded, NothingLost, Remove, Seal
  <2> QED
    BY <2>1, <2>2, <2>3 DEF Inv
<1>2. CASE Fail
  <2>1. Shape'
    BY <1>2 DEF Inv, Shape, IsTree, Bases, RecordFields, Remove, NoTree, Fail
  <2>2. Frozen' /\ Rebuilt' /\ Kept' /\ PatchMakesTree' /\ StartsWhereParentEnded' /\ NothingLost'
    BY <1>2 DEF Inv, Frozen, Rebuilt, Rebuilding, Kept, Exposed, PatchMakesTree,
       StartsWhereParentEnded, NothingLost, Remove, Fail
  <2> QED
    BY <2>1, <2>2 DEF Inv
<1>3. ASSUME NEW c \in Commits, HeadMoves(c) PROVE Inv'
  <2>1. Kept'
    BY <1>3 DEF Inv, Kept, Exposed, Tampers, add_all, HeadMoves
  <2>2. Shape' /\ Frozen' /\ Rebuilt' /\ PatchMakesTree' /\ StartsWhereParentEnded' /\ NothingLost'
    BY <1>3 DEF Inv, Shape, IsTree, Bases, RecordFields, Frozen, Rebuilt,
       Rebuilding, PatchMakesTree, StartsWhereParentEnded, Exposed, NothingLost,
       Tampers, HeadMoves
  <2> QED
    BY <2>1, <2>2 DEF Inv
<1>4. CASE RepoReplaced
  <2>1. Kept'
    BY <1>4 DEF Inv, Kept, Exposed, Tampers, add_all, RepoReplaced
  <2>2. Shape' /\ Frozen' /\ Rebuilt' /\ PatchMakesTree' /\ StartsWhereParentEnded' /\ NothingLost'
    BY <1>4 DEF Inv, Shape, IsTree, Bases, RecordFields, Frozen, Rebuilt,
       Rebuilding, PatchMakesTree, StartsWhereParentEnded, Exposed, NothingLost,
       Tampers, RepoReplaced
  <2> QED
    BY <2>1, <2>2 DEF Inv
<1>5. ASSUME NEW r \in Runs, FileChanges(r) PROVE Inv'
  <2>1. Kept'
    BY <1>5 DEF Inv, Kept, Exposed, Tampers, add_all, FileChanges
  <2>2. Shape' /\ Frozen' /\ Rebuilt' /\ PatchMakesTree' /\ StartsWhereParentEnded' /\ NothingLost'
    BY <1>5, ZenonT(40) DEF Inv, Shape, IsTree, Bases, RecordFields, Frozen, Rebuilt,
       Rebuilding, PatchMakesTree, StartsWhereParentEnded, Exposed, NothingLost,
       Tampers, FileChanges
  <2> QED
    BY <2>1, <2>2 DEF Inv
<1> QED
  BY <1>1, <1>2, <1>3, <1>4, <1>5

\* Each step keeps the invariant.
LEMMA NextInv == Inv /\ [Next]_vars => Inv'
<1> SUFFICES ASSUME Inv, [Next]_vars PROVE Inv'
  OBVIOUS
<1>1. CASE UNCHANGED vars
  BY <1>1 DEF Inv, Shape, Frozen, Rebuilt, Kept, PatchMakesTree, StartsWhereParentEnded,
     NothingLost, IsTree, At, add_all, vars, worldVars, treeVars, readVars, histVars
<1>2. CASE Next
  BY <1>2, StartSteps, RebuildSteps, WriteSteps, CheckSteps, FreezeSteps, EndSteps DEF Next
<1> QED
  BY <1>1, <1>2

LEMMA Invariance == Spec => []Inv
<1> QED
  BY InitInv, NextInv, PTL DEF Spec

\* A sealed patch makes the tree its receipt declares, and moves no submodule, for
\* any writes to the worktree and its index during capture_cumulative_candidate.
THEOREM CapturedPatchIsExact == Spec => []PatchMakesTree
<1>1. Inv => PatchMakesTree
  BY DEF Inv
<1> QED
  BY <1>1, Invariance, PTL

\* A continuation's provider starts in the tree its sealed parent recorded, for any
\* changes to the parent's files between the reads of
\* materialize_parent_candidate_state.
THEOREM ContinuationIsExact == Spec => []StartsWhereParentEnded
<1>1. Inv => StartsWhereParentEnded
  BY DEF Inv
<1> QED
  BY <1>1, Invariance, PTL

\* A capture that succeeds over a worktree nobody writes to any more has in it all
\* that the provider left (the checks of capture_cumulative_candidate).
THEOREM CaptureLosesNothing == Spec => []NothingLost
<1>1. Inv => NothingLost
  BY DEF Inv
<1> QED
  BY <1>1, Invariance, PTL

-----------------------------------------------------------------------------
(* The lineage of a record *)

FileFields == {"receipt", "patch", "srcReceipt", "srcPatch"}

\* What `git diff` writes: entries of the tree, each from one thing to another.
IsPatch(b) ==
    /\ DOMAIN b \subseteq Paths
    /\ b = [p \in DOMAIN b |-> [old |-> b[p].old, new |-> b[p].new]]
    /\ \A p \in DOMAIN b : b[p].old # b[p].new

\* The run in hand has its obligation on record, and a continuation's is its
\* parent's.
InHand ==
    /\ pc # "idle" =>
         record[run].stage = "open" /\ record[run].parent = parent /\ record[run].base = base
    /\ pc \in Rebuilding \cup {"load"} =>
         record[run].base = record[parent].base /\ record[run].repo = record[parent].repo

\* A receipt on record tells what the record tells, and its patch is the
\* difference to its tree.
Receipts ==
    \A r \in Runs :
        LET c == record[r].receipt
        IN  c # Gone =>
              /\ c.run = r /\ c.repo = record[r].repo /\ c.base = record[r].base
              /\ c.base # "HEAD" => c.patch = Diff(TreeOf[c.base], c.tree)

\* Every patch file, and the patch in hand, is one that git made.
Files ==
    /\ DOMAIN disk = Runs
    /\ \A r \in Runs : DOMAIN disk[r] = FileFields
    /\ \A r \in Runs : disk[r].patch # Gone => IsPatch(disk[r].patch)
    /\ IsPatch(bytes)

\* The copied patch is the one in hand, and it is the difference between the
\* base and what was rebuilt.
Applied ==
    /\ pc \in {"child add", "apply", "applied", "compare"} => disk[run].srcPatch = bytes
    /\ src # Gone /\ src.base # "HEAD" =>
         /\ pc = "apply" => idx = TreeOf[src.base]
         /\ pc = "applied" => bytes = Diff(TreeOf[src.base], idx)
         /\ pc = "compare" => bytes = Diff(TreeOf[src.base], oid)

\* A record with a materialization is bound to a sealed parent, whose receipt
\* nobody changes any more.
Lineage ==
    \A r \in Runs :
        LET m == record[r].mat
            p == record[record[r].parent]
        IN  m # Gone =>
              /\ record[r].stage # "none" /\ record[r].parent \in Runs
              /\ p.stage = "sealed" /\ p.receipt # Gone
              /\ record[r].base = p.base /\ record[r].repo = p.repo
              /\ m.tree = p.receipt.tree
              /\ record[r].base # "HEAD" => m.patch = p.receipt.patch

LineageInv == InHand /\ Receipts /\ Files /\ Applied /\ Lineage

\* What git writes is a patch; so is the empty one.
LEMMA DiffIsPatch ==
    ASSUME NEW t, NEW u
    PROVE  IsPatch(Diff(t, u)) /\ IsPatch(NoPatch)
BY DEF IsPatch, Diff, NoPatch

\* A patch that applies to a tree is the difference to the tree it makes.
LEMMA DiffOfPatch ==
    ASSUME NEW t, NEW b, IsTree(t), IsPatch(b), \A p \in DOMAIN b : t[p] = b[p].old
    PROVE  b = Diff(t, Patched(t, b))
<1> DEFINE u == Patched(t, b)
<1>1. \A p \in Paths : u[p] = IF p \in DOMAIN b THEN b[p].new ELSE t[p]
  BY DEF Patched
<1>2. {q \in Paths : t[q] # u[q]} = DOMAIN b
  BY <1>1 DEF IsPatch
<1>3. \A p \in DOMAIN b : b[p] = [old |-> t[p], new |-> u[p]]
  <2> SUFFICES ASSUME NEW p \in DOMAIN b PROVE b[p] = [old |-> t[p], new |-> u[p]]
    OBVIOUS
  <2>1. b[p] = [old |-> b[p].old, new |-> b[p].new]
    BY DEF IsPatch
  <2>2. p \in Paths
    BY DEF IsPatch
  <2> QED
    BY <1>1, <2>1, <2>2
<1>4. b = [p \in DOMAIN b |-> [old |-> t[p], new |-> u[p]]]
  <2>1. b = [p \in DOMAIN b |-> b[p]]
    BY DEF IsPatch
  <2> QED
    BY <1>3, <2>1
<1> QED
  BY <1>2, <1>4 DEF Diff

\* Nothing is recorded.
LEMMA InitLineage == Init => LineageInv
BY DiffIsPatch DEF Init, LineageInv, InHand, Receipts, Files, Applied, Lineage, Rebuilding,
   NoRecord, NoFiles, FileFields

\* Starting a run: its record is new, so nothing on record names it as a parent.
LEMMA LineageStart ==
    ASSUME Inv, Inv', LineageInv,
           \/ \E r \in Runs : BeginRun(r)
           \/ \E r \in Runs, p \in Runs : resolve_inherited_candidate_obligation(r, p)
           \/ AddWorktree
    PROVE  LineageInv'
<1> USE DEF At, Goes, worldVars, treeVars, readVars, histVars
<1>1. ASSUME NEW r \in Runs, BeginRun(r) PROVE LineageInv'
  <2>1. InHand'
    BY <1>1 DEF Inv, Shape, RecordFields, LineageInv, InHand,
       Rebuilding, BeginRun, NoRecord
  <2>2. Receipts'
    BY <1>1 DEF Inv, Shape, RecordFields, LineageInv, Receipts,
       InHand, BeginRun, NoRecord
  <2>3. Files'
    BY <1>1 DEF Inv, Shape, RecordFields, LineageInv, Files,
       BeginRun, NoRecord
  <2>4. Applied'
    BY <1>1 DEF Inv, Shape, RecordFields, LineageInv, Applied,
       Rebuilding, BeginRun, NoRecord
  <2>5. Lineage'
    <3>1. record[r].stage = "none"
      <4>1. r \in Nat /\ (record[r].stage # "none" <=> r < r)
        BY <1>1, CandidateAssumption DEF BeginRun
      <4> QED
        BY <4>1
    <3>2. \A s \in Runs \ {r} : record'[s] = record[s]
      BY <1>1 DEF Inv, Shape, BeginRun
    <3>3. record'[r].mat = Gone
      BY <1>1 DEF Inv, Shape, NoRecord, BeginRun
    <3>4. \A s \in Runs : record[s].mat # Gone => record[s].parent \in Runs \ {r}
      BY <3>1 DEF LineageInv, Lineage
    <3> QED
      BY <3>2, <3>3, <3>4 DEF LineageInv, Lineage
  <2> QED
    BY <2>1, <2>2, <2>3, <2>4, <2>5 DEF LineageInv
<1>2. ASSUME NEW r \in Runs, NEW p \in Runs, resolve_inherited_candidate_obligation(r, p)
      PROVE  LineageInv'
  <2>1. InHand'
    BY <1>2 DEF Inv, Shape, RecordFields, LineageInv, InHand,
       Rebuilding, NoRecord, load_verified_candidate_receipt, verify_prefix,
       verify_candidate_state_captured, resolve_and_verify,
       resolve_inherited_candidate_obligation
  <2>2. Receipts'
    BY <1>2 DEF Inv, Shape, RecordFields, LineageInv, Receipts,
       InHand, NoRecord, load_verified_candidate_receipt, verify_prefix,
       verify_candidate_state_captured, resolve_and_verify,
       resolve_inherited_candidate_obligation
  <2>3. Files'
    BY <1>2 DEF Inv, Shape, RecordFields, LineageInv, Files,
       NoRecord, load_verified_candidate_receipt, verify_prefix,
       verify_candidate_state_captured, resolve_and_verify,
       resolve_inherited_candidate_obligation
  <2>4. Applied'
    BY <1>2 DEF Inv, Shape, RecordFields, LineageInv, Applied,
       Rebuilding, NoRecord, load_verified_candidate_receipt, verify_prefix,
       verify_candidate_state_captured, resolve_and_verify,
       resolve_inherited_candidate_obligation
  <2>5. Lineage'
    <3>1. record[r].stage = "none"
      <4>1. r \in Nat /\ (record[r].stage # "none" <=> r < r)
        BY <1>2, CandidateAssumption DEF resolve_inherited_candidate_obligation
      <4> QED
        BY <4>1
    <3>2. \A s \in Runs \ {r} : record'[s] = record[s]
      BY <1>2 DEF Inv, Shape, resolve_inherited_candidate_obligation
    <3>3. record'[r].mat = Gone
      BY <1>2 DEF Inv, Shape, NoRecord, resolve_inherited_candidate_obligation
    <3>4. \A s \in Runs : record[s].mat # Gone => record[s].parent \in Runs \ {r}
      BY <3>1 DEF LineageInv, Lineage
    <3> QED
      BY <3>2, <3>3, <3>4 DEF LineageInv, Lineage
  <2> QED
    BY <2>1, <2>2, <2>3, <2>4, <2>5 DEF LineageInv
<1>3. CASE AddWorktree
  BY <1>3 DEF LineageInv, InHand, Receipts, Files, Applied, Lineage, Rebuilding, Exposed,
     Checkout, AddWorktree
<1> QED
  BY <1>1, <1>2, <1>3

\* Rebuilding the parent's tree.
LEMMA LineageRebuild ==
    ASSUME Inv, Inv', LineageInv,
           \/ LoadParent
           \/ RereadPatch
           \/ CopyEvidence
           \/ AddChildWorktree
           \/ ApplyPatch
           \/ finish_apply
           \/ Materialized
    PROVE  LineageInv'
<1> USE DEF At, Goes, worldVars, treeVars, readVars, histVars
<1>1. CASE LoadParent
  BY <1>1 DEF LineageInv, InHand, Receipts, Files, Applied, Lineage, Rebuilding, Exposed,
     LoadParent
<1>2. CASE RereadPatch
  <2>1. parent \in Runs
    BY <1>2 DEF Inv, Rebuilt, Rebuilding, RereadPatch
  <2> QED
    BY <1>2, <2>1 DEF LineageInv, InHand, Receipts, Files, Applied, Lineage, Rebuilding,
       RereadPatch
<1>3. CASE CopyEvidence
  <2>1. InHand'
    BY <1>3 DEF Inv, Shape, RecordFields, LineageInv, InHand,
       Rebuilding, CopyEvidence
  <2>2. Receipts'
    BY <1>3 DEF Inv, Shape, RecordFields, LineageInv, Receipts,
       InHand, CopyEvidence
  <2>3. Files'
    BY <1>3 DEF Inv, Shape, LineageInv, Files, FileFields, CopyEvidence
  <2>4. Applied'
    BY <1>3 DEF Inv, Shape, LineageInv, Files, FileFields, Applied, CopyEvidence
  <2>5. Lineage'
    BY <1>3 DEF Inv, Shape, RecordFields, LineageInv, Lineage,
       InHand, CopyEvidence
  <2> QED
    BY <2>1, <2>2, <2>3, <2>4, <2>5 DEF LineageInv
<1>4. CASE AddChildWorktree
  <2>1. InHand'
    BY <1>4 DEF Inv, Shape, RecordFields, LineageInv, InHand,
       Rebuilding, Checkout, TreeAt, AddChildWorktree
  <2>2. Receipts'
    BY <1>4 DEF Inv, Shape, RecordFields, LineageInv, Receipts,
       InHand, Checkout, TreeAt, AddChildWorktree
  <2>3. Files'
    BY <1>4 DEF Inv, Shape, RecordFields, LineageInv, Files,
       Checkout, TreeAt, AddChildWorktree
  <2>4. Applied'
    <3>1. src.base # "HEAD" => idx' = TreeOf[src.base]
      BY <1>4 DEF Checkout, TreeAt, AddChildWorktree
    <3>2. \A t : Diff(t, t) = NoPatch
      BY DEF Diff, NoPatch
    <3> QED
      BY <1>4, <3>1, <3>2 DEF LineageInv, Applied, AddChildWorktree
  <2>5. Lineage'
    BY <1>4 DEF Inv, Shape, RecordFields, LineageInv, Lineage,
       InHand, Checkout, TreeAt, AddChildWorktree
  <2> QED
    BY <2>1, <2>2, <2>3, <2>4, <2>5 DEF LineageInv
<1>5. CASE ApplyPatch
  <2>1. InHand'
    BY <1>5 DEF Inv, Shape, RecordFields, LineageInv, InHand,
       Rebuilding, ApplyPatch
  <2>2. Receipts'
    BY <1>5 DEF Inv, Shape, RecordFields, LineageInv, Receipts,
       InHand, ApplyPatch
  <2>3. Files'
    BY <1>5 DEF Inv, Shape, RecordFields, LineageInv, Files, ApplyPatch
  <2>4. Applied'
    <3>1. \A p \in DOMAIN bytes : idx[p] = bytes[p].old
      BY <1>5 DEF Applies, ApplyPatch
    <3>2. bytes = Diff(idx, Patched(idx, bytes))
      BY <3>1, DiffOfPatch DEF Inv, Shape, LineageInv, Files
    <3> QED
      BY <1>5, <3>2 DEF LineageInv, Applied, ApplyPatch
  <2>5. Lineage'
    BY <1>5 DEF Inv, Shape, RecordFields, LineageInv, Lineage,
       InHand, ApplyPatch
  <2> QED
    BY <2>1, <2>2, <2>3, <2>4, <2>5 DEF LineageInv
<1>6. CASE finish_apply
  BY <1>6 DEF LineageInv, InHand, Receipts, Files, Applied, Lineage, Rebuilding, Exposed,
     finish_apply
<1>7. CASE Materialized
  <2>1. /\ run \in Runs /\ parent \in Runs \ {run} /\ src = record[parent].receipt /\ src # Gone
        /\ record[parent].stage = "sealed" /\ oid = src.tree
    BY <1>7 DEF Inv, Shape, Rebuilt, Rebuilding, Materialized
  <2>2. src.base # "HEAD" => disk[run].srcPatch = src.patch
    BY <1>7, <2>1 DEF LineageInv, Receipts, Applied, Materialized
  <2>3. InHand' /\ Receipts' /\ Files' /\ Applied'
    BY <1>7, <2>1 DEF Inv, Shape, RecordFields, LineageInv, InHand, Receipts, Files, Applied,
       Rebuilding, Materialized
  <2>4. Lineage'
    BY <1>7, <2>1, <2>2 DEF Inv, Shape, RecordFields, LineageInv, InHand, Receipts, Lineage,
       Rebuilding, Materialized
  <2> QED
    BY <2>3, <2>4 DEF LineageInv
<1> QED
  BY <1>1, <1>2, <1>3, <1>4, <1>5, <1>6, <1>7

\* The provider writes in the worktree, and in nothing a record binds.
LEMMA LineageAgent ==
    ASSUME Inv, Inv', LineageInv,
           \/ \E p \in Paths, e \in Entries : EditFile(p, e)
           \/ \E p \in Paths, e \in Entries : EditIndex(p, e)
           \/ \E p \in Paths : FlagEntry(p)
           \/ \E p \in Paths : EditSubmodule(p)
           \/ Commit
           \/ AgentExits
    PROVE  LineageInv'
<1> USE DEF At, Goes, worldVars, treeVars, readVars, histVars
<1>1. ASSUME NEW p \in Paths, NEW e \in Entries, EditFile(p, e) PROVE LineageInv'
  BY <1>1 DEF LineageInv, InHand, Receipts, Files, Applied, Lineage, Rebuilding, Exposed,
     Writes, EditFile
<1>2. ASSUME NEW p \in Paths, NEW e \in Entries, EditIndex(p, e) PROVE LineageInv'
  BY <1>2 DEF LineageInv, InHand, Receipts, Files, Applied, Lineage, Rebuilding, Exposed,
     Writes, EditIndex
<1>3. ASSUME NEW p \in Paths, FlagEntry(p) PROVE LineageInv'
  BY <1>3 DEF LineageInv, InHand, Receipts, Files, Applied, Lineage, Rebuilding, Exposed,
     Writes, FlagEntry
<1>4. ASSUME NEW p \in Paths, EditSubmodule(p) PROVE LineageInv'
  BY <1>4 DEF LineageInv, InHand, Receipts, Files, Applied, Lineage, Rebuilding, Exposed,
     Writes, EditSubmodule
<1>5. CASE Commit
  BY <1>5 DEF LineageInv, InHand, Receipts, Files, Applied, Lineage, Rebuilding, Exposed,
     Writes, Commit
<1>6. CASE AgentExits
  BY <1>6 DEF LineageInv, InHand, Receipts, Files, Applied, Lineage, Rebuilding, Exposed,
     AgentExits
<1> QED
  BY <1>1, <1>2, <1>3, <1>4, <1>5, <1>6

\* The capture, up to the receipt.
LEMMA LineageCapture ==
    ASSUME Inv, Inv', LineageInv,
           \/ diff_vs_base
           \/ Stage
           \/ CheckFlags
           \/ CheckSubmodules
           \/ ReadIndex
           \/ CreateSnapshot
           \/ DiffIndex
           \/ WriteTree
           \/ WritePatch
           \/ write_candidate_state_receipt
    PROVE  LineageInv'
<1> USE DEF At, Goes, worldVars, treeVars, readVars, histVars
<1>1. CASE diff_vs_base
  BY <1>1 DEF LineageInv, InHand, Receipts, Files, Applied, Lineage, Rebuilding, Exposed,
     diff_vs_base
<1>2. CASE Stage
  BY <1>2 DEF LineageInv, InHand, Receipts, Files, Applied, Lineage, Rebuilding, Exposed,
     Stage
<1>3. CASE CheckFlags
  BY <1>3 DEF LineageInv, InHand, Receipts, Files, Applied, Lineage, Rebuilding, Exposed,
     CheckFlags
<1>4. CASE CheckSubmodules
  BY <1>4 DEF LineageInv, InHand, Receipts, Files, Applied, Lineage, Rebuilding, Exposed,
     CheckSubmodules
<1>5. CASE ReadIndex
  BY <1>5 DEF LineageInv, InHand, Receipts, Files, Applied, Lineage, Rebuilding, Exposed,
     ReadIndex
<1>6. CASE CreateSnapshot
  BY <1>6 DEF LineageInv, InHand, Receipts, Files, Applied, Lineage, Rebuilding, Exposed,
     CreateSnapshot
<1>7. CASE DiffIndex
  <2>1. InHand'
    BY <1>7 DEF Inv, Shape, RecordFields, LineageInv, InHand,
       Rebuilding, DiffIndex
  <2>2. Receipts'
    BY <1>7 DEF Inv, Shape, RecordFields, LineageInv, Receipts,
       InHand, DiffIndex
  <2>3. Files'
    BY <1>7, DiffIsPatch DEF LineageInv, Files, DiffIndex
  <2>4. Applied'
    BY <1>7 DEF Inv, Shape, RecordFields, LineageInv, Applied,
       Rebuilding, DiffIndex
  <2>5. Lineage'
    BY <1>7 DEF Inv, Shape, RecordFields, LineageInv, Lineage,
       InHand, DiffIndex
  <2> QED
    BY <2>1, <2>2, <2>3, <2>4, <2>5 DEF LineageInv
<1>8. CASE WriteTree
  BY <1>8 DEF LineageInv, InHand, Receipts, Files, Applied, Lineage, Rebuilding, Exposed,
     WriteTree
<1>9. CASE WritePatch
  BY <1>9 DEF LineageInv, InHand, Receipts, Files, Applied, Lineage, Rebuilding, Exposed,
     WritePatch
<1>10. CASE write_candidate_state_receipt
  <2>1. InHand'
    BY <1>10 DEF Inv, Shape, RecordFields, LineageInv, InHand,
       Rebuilding, write_candidate_state_receipt
  <2>2. Receipts'
    BY <1>10 DEF Inv, Shape, RecordFields, FileFields, Rebuilt, Frozen, LineageInv,
       Receipts, InHand, write_candidate_state_receipt
  <2>3. Files'
    BY <1>10 DEF Inv, Shape, RecordFields, LineageInv, Files,
       write_candidate_state_receipt
  <2>4. Applied'
    BY <1>10 DEF Inv, Shape, RecordFields, LineageInv, Applied,
       Rebuilding, write_candidate_state_receipt
  <2>5. Lineage'
    BY <1>10 DEF Inv, Shape, RecordFields, LineageInv, Lineage,
       InHand, write_candidate_state_receipt
  <2> QED
    BY <2>1, <2>2, <2>3, <2>4, <2>5 DEF LineageInv
<1> QED
  BY <1>1, <1>2, <1>3, <1>4, <1>5, <1>6, <1>7, <1>8, <1>9, <1>10

\* A run ends, and what happens around the runs.
LEMMA LineageEnd ==
    ASSUME Inv, Inv', LineageInv,
           \/ Seal
           \/ Fail
           \/ \E c \in Commits : HeadMoves(c)
           \/ RepoReplaced
           \/ \E r \in Runs : FileChanges(r)
    PROVE  LineageInv'
<1> USE DEF At, Goes, worldVars, treeVars, readVars, histVars
<1>1. CASE Seal
  <2>1. InHand'
    BY <1>1 DEF Inv, Shape, RecordFields, LineageInv, InHand,
       Rebuilding, Remove, Seal
  <2>2. Receipts'
    BY <1>1 DEF Inv, Shape, RecordFields, LineageInv, Receipts,
       InHand, Remove, Seal
  <2>3. Files'
    BY <1>1, DiffIsPatch DEF LineageInv, Files, Remove, Seal
  <2>4. Applied'
    BY <1>1 DEF Inv, Shape, RecordFields, LineageInv, Applied,
       Rebuilding, Remove, Seal
  <2>5. Lineage'
    BY <1>1 DEF Inv, Shape, RecordFields, LineageInv, Lineage,
       InHand, Remove, Seal
  <2> QED
    BY <2>1, <2>2, <2>3, <2>4, <2>5 DEF LineageInv
<1>2. CASE Fail
  <2>1. InHand'
    BY <1>2 DEF Inv, Shape, RecordFields, LineageInv, InHand,
       Rebuilding, Remove, Fail
  <2>2. Receipts'
    BY <1>2 DEF Inv, Shape, RecordFields, LineageInv, Receipts,
       InHand, Remove, Fail
  <2>3. Files'
    BY <1>2, DiffIsPatch DEF LineageInv, Files, Remove, Fail
  <2>4. Applied'
    BY <1>2 DEF Inv, Shape, RecordFields, LineageInv, Applied,
       Rebuilding, Remove, Fail
  <2>5. Lineage'
    BY <1>2 DEF Inv, Shape, RecordFields, LineageInv, Lineage,
       InHand, Remove, Fail
  <2> QED
    BY <2>1, <2>2, <2>3, <2>4, <2>5 DEF LineageInv
<1>3. ASSUME NEW c \in Commits, HeadMoves(c) PROVE LineageInv'
  BY <1>3 DEF LineageInv, InHand, Receipts, Files, Applied, Lineage, Rebuilding, Exposed,
     Tampers, HeadMoves
<1>4. CASE RepoReplaced
  BY <1>4 DEF LineageInv, InHand, Receipts, Files, Applied, Lineage, Rebuilding, Exposed,
     Tampers, RepoReplaced
<1>5. ASSUME NEW r \in Runs, FileChanges(r) PROVE LineageInv'
  <2>1. InHand'
    BY <1>5 DEF Inv, Shape, RecordFields, LineageInv, InHand,
       Rebuilding, Tampers, FileChanges
  <2>2. Receipts'
    BY <1>5 DEF Inv, Shape, RecordFields, LineageInv, Receipts,
       InHand, Tampers, FileChanges
  <2>3. Files'
    BY <1>5, DiffIsPatch DEF LineageInv, Files, FileFields, FileChanges
  <2>4. Applied'
    <3>1. disk'[run].srcPatch = disk[run].srcPatch \/ run \notin Runs
      BY <1>5 DEF LineageInv, Files, FileFields, FileChanges
    <3> QED
      BY <1>5, <3>1 DEF Inv, Shape, LineageInv, Applied, FileChanges
  <2>5. Lineage'
    BY <1>5 DEF Inv, Shape, RecordFields, LineageInv, Lineage,
       InHand, Tampers, FileChanges
  <2> QED
    BY <2>1, <2>2, <2>3, <2>4, <2>5 DEF LineageInv
<1> QED
  BY <1>1, <1>2, <1>3, <1>4, <1>5

\* Each step keeps the lineage.
LEMMA NextLineage == Inv /\ Inv' /\ LineageInv /\ [Next]_vars => LineageInv'
<1> SUFFICES ASSUME Inv, Inv', LineageInv, [Next]_vars PROVE LineageInv'
  OBVIOUS
<1>1. CASE UNCHANGED vars
  BY <1>1 DEF LineageInv, InHand, Receipts, Files, Applied, Lineage, vars, worldVars,
     treeVars, readVars, histVars
<1>2. CASE Next
  BY <1>2, LineageStart, LineageRebuild, LineageAgent, LineageCapture, LineageEnd DEF Next
<1> QED
  BY <1>1, <1>2

\* The receipt a record carries is its parent's own, and so is the patch when the
\* base is a commit, for any changes to the parent's files between the reads of
\* materialize_parent_candidate_state, in every record that
\* verify_candidate_state_materialized accepts.
THEOREM LineageHolds == Spec => []LineageIsSound
<1>1. Inv /\ LineageInv => LineageIsSound
  BY DEF LineageInv, Receipts, Lineage, LineageIsSound, verify_prefix,
     verify_candidate_state_materialized, resolve_and_verify, resolve_command_binding_facts
<1>2. Spec => []LineageInv
  BY InitInv, NextInv, InitLineage, NextLineage, PTL DEF Spec
<1> QED
  BY <1>1, <1>2, Invariance, PTL
=============================================================================
