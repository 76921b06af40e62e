--------------------------- MODULE CandidateChain ---------------------------
(***************************************************************************)
(* How a conversation's candidate state travels from run to run: `o7 run`  *)
(* and `o7 continue` capture what the provider left in the worktree        *)
(* (src/worktree.rs, capture_cumulative_candidate), the record binds the   *)
(* patch and its receipt by digest, and the next continuation verifies the *)
(* parent's record (o7-run candidate.rs) and rebuilds its tree in a fresh  *)
(* worktree (apply_candidate_patch).                                       *)
(*                                                                         *)
(* The provider, and what it left running, writes in the worktree and in   *)
(* its index between any two git commands of the capture; the files of a   *)
(* record may change on disk between any two reads of them.  A digest is   *)
(* injective, so the digest of a file is its content, and a tree's object  *)
(* id is the tree.  Paths are those git does not ignore.                   *)
(***************************************************************************)
EXTENDS Naturals, FiniteSets

CONSTANTS
    Runs,      \* the runs of the conversation, numbered in the order they may start
    Paths,     \* the paths of a tree
    Blobs,     \* contents of a regular file
    Links,     \* commits a gitlink names
    Gone,      \* no entry at a path; no file; no receipt
    Commits,   \* the commits of the repository
    TreeOf,    \* the tree of each
    MaxEdits,  \* how often the worktree or its index is written to
    MaxTampers \* how often the repository or a record's file changes

Entries == Blobs \cup Links \cup {Gone}
Trees == [Paths -> Entries]

ASSUME CandidateAssumption ==
    /\ Runs \subseteq Nat \ {0}
    /\ Gone \notin Blobs \cup Links /\ Blobs \cap Links = {}
    /\ TreeOf \in [Commits -> Trees]
    /\ {MaxEdits, MaxTampers} \subseteq Nat

VARIABLES
    pc, run, parent,                     \* the step, the run, its parent (0 for none)
    head, repo,                          \* what HEAD of the repository is, and its identity
    branch, wt, idx, hidden, dirty,      \* the worktree: its HEAD's tree, files, index,
                                         \* flagged index entries, submodules with changes
    base, src,                           \* the obligation's base; the parent's verified receipt
    bytes, snap, oid,                    \* what the step in hand read: a patch, an index, a tree
    record,                              \* what events.jsonl of each run binds
    disk,                                \* the candidate files in each run's directory
    start, left, quiet,                  \* history: the tree the provider started from and
                                         \* left, and whether it really stopped there
    edits, tampers

worldVars == <<head, repo, tampers>>
treeVars  == <<branch, wt, idx, hidden, dirty>>
readVars  == <<base, src, bytes, snap, oid>>
histVars  == <<start, left, quiet>>
vars == <<pc, run, parent, worldVars, treeVars, readVars, record, disk, histVars, edits>>

-----------------------------------------------------------------------------
(* Git, as the code uses it. *)

\* A base that is not a commit is the name HEAD, which the worktree resolves to
\* the tip of its own branch and the repository to its own HEAD.
TreeAt(b, tip) == IF b = "HEAD" THEN tip ELSE TreeOf[b]

\* The identity a receipt is bound to: the repository's, with the conversation
\* and the patch kind, which are compared in the same places.
repository_identity == repo

NoTree == [p \in Paths |-> Gone]
NoPatch == [p \in {} |-> Gone]

\* `git add -A` leaves an entry that carries a hidden flag as it is.
add_all == [p \in Paths |-> IF p \in hidden THEN idx[p] ELSE wt[p]]

\* `git diff --cached --binary` and `git apply --index`.
Diff(from, to) ==
    [p \in {q \in Paths : from[q] # to[q]} |-> [old |-> from[p], new |-> to[p]]]
Applies(patch) == \A p \in DOMAIN patch : idx[p] = patch[p].old /\ wt[p] = patch[p].old
Patched(tree, patch) == [p \in Paths |-> IF p \in DOMAIN patch THEN patch[p].new ELSE tree[p]]

gitlink_entries(tree) == {<<p, tree[p]>> : p \in {q \in Paths : tree[q] \in Links}}
ensure_no_gitlink_mutation(b, tree) ==
    gitlink_entries(tree) = gitlink_entries(TreeAt(b, branch))

\* The S field `git status` reports for an entry: a moved HEAD, or content of
\* its own that nobody committed.  It reports nothing for a hidden entry.
check_no_dirty_submodule_status(p) ==
    \/ idx[p] \in Links /\ wt[p] \in Links /\ wt[p] # idx[p]
    \/ p \in dirty
ensure_no_dirty_submodule_worktree ==
    \A p \in Paths \ hidden : ~check_no_dirty_submodule_status(p)
ensure_no_index_hidden_flags_bug == TRUE
ensure_no_index_hidden_flags == hidden = {}

-----------------------------------------------------------------------------
(* The evidence: o7-run's candidate.rs. *)

NoRecord == [stage |-> "none", parent |-> 0, base |-> "HEAD", repo |-> 0,
             receipt |-> Gone, mat |-> Gone]
NoFiles == [receipt |-> Gone, patch |-> Gone, srcReceipt |-> Gone, srcPatch |-> Gone]

\* A file resolves when its bytes have the digest a reference declares; the
\* command binding names the parent, or there is none.
resolve_and_verify(r, locator, digest) == disk[r][locator] = digest
resolve_command_binding_facts(r) == record[r].parent

\* The receipt on disk is the one the events bind, tells what the contract
\* and the command binding tell, and names the patch that is on disk.
verify_candidate_state_captured(r) ==
    LET c == disk[r].receipt
    IN  /\ record[r].receipt # Gone
        /\ resolve_and_verify(r, "receipt", record[r].receipt)
        /\ c.repo = record[r].repo /\ c.base = record[r].base
        /\ c.run = r /\ c.parent = resolve_command_binding_facts(r)
        /\ resolve_and_verify(r, "patch", c.patch)

\* The copies of the parent's receipt and patch are the ones the events bind;
\* the copied receipt is the parent's, agrees with this run's contract, and
\* names the copied patch and the tree this run was built with.
verify_candidate_state_materialized_bug(r) ==
    LET m == record[r].mat
        c == disk[r].srcReceipt
    IN  /\ m # Gone /\ m.run = resolve_command_binding_facts(r)
        /\ resolve_and_verify(r, "srcReceipt", m.receipt) /\ c.run = m.run
        /\ c.repo = record[r].repo /\ c.base = record[r].base
        /\ resolve_and_verify(r, "srcPatch", m.patch)
        /\ m.tree = c.tree
verify_candidate_state_materialized(r) ==
    LET m == record[r].mat
        c == disk[r].srcReceipt
    IN  /\ m # Gone /\ m.run = resolve_command_binding_facts(r)
        /\ resolve_and_verify(r, "srcReceipt", m.receipt) /\ c.run = m.run
        /\ c.repo = record[r].repo /\ c.base = record[r].base
        /\ resolve_and_verify(r, "srcPatch", m.patch) /\ c.patch = m.patch
        /\ m.tree = c.tree

\* What every reader of a record checks of its candidate evidence.
verify_prefix(r) ==
    /\ record[r].stage # "none"
    /\ record[r].receipt # Gone => verify_candidate_state_captured(r)
    /\ record[r].mat # Gone => verify_candidate_state_materialized(r)

load_verified_candidate_receipt(r) == verify_prefix(r) /\ verify_candidate_state_captured(r)

-----------------------------------------------------------------------------
(* Starting a run. *)

Goes(to) == pc' = to
At(step) == pc = step

\* `o7 run --ledger`: the base is resolved, or kept as the name it is when git
\* fails; the obligation is fixed before the worktree exists.
BeginRun(r) ==
    /\ At("idle")
    /\ \A s \in Runs : record[s].stage # "none" <=> s < r
    /\ \E b \in {head, "HEAD"} :
          /\ base' = b
          /\ record' = [record EXCEPT ![r] =
                 [NoRecord EXCEPT !.stage = "open", !.base = b, !.repo = repository_identity]]
    /\ run' = r /\ parent' = 0
    /\ Goes("add")
    /\ UNCHANGED <<worldVars, treeVars, src, bytes, snap, oid, disk, histVars, edits>>

\* `worktree::add`: at the `--base` of the command line, or for a continuation
\* at the base of the parent's receipt.
Checkout(tree) ==
    /\ branch' = tree /\ wt' = tree /\ idx' = tree
    /\ UNCHANGED <<hidden, dirty>>

AddWorktree ==
    /\ At("add")
    /\ Checkout(TreeOf[head])
    /\ start' = TreeOf[head]
    /\ Goes("agent")
    /\ UNCHANGED <<run, parent, worldVars, readVars, record, disk, left, quiet, edits>>

\* `o7 continue`, before RunStarted: the child inherits the obligation of a
\* parent whose record and receipt verify, in the repository they belong to.
resolve_inherited_candidate_obligation(r, p) ==
    /\ At("idle")
    /\ \A s \in Runs : record[s].stage # "none" <=> s < r
    /\ load_verified_candidate_receipt(p)
    /\ disk[p].receipt.run = p /\ disk[p].receipt.repo = repository_identity
    /\ base' = disk[p].receipt.base
    /\ record' = [record EXCEPT ![r] = [NoRecord EXCEPT
           !.stage = "open", !.parent = p, !.base = base', !.repo = disk[p].receipt.repo]]
    /\ run' = r /\ parent' = p
    /\ Goes("load")
    /\ UNCHANGED <<worldVars, treeVars, src, bytes, snap, oid, disk, histVars, edits>>

\* `materialize_parent_candidate_state`: the parent is read and verified again,
\* and must be sealed.
LoadParent ==
    /\ At("load")
    /\ load_verified_candidate_receipt(parent)
    /\ record[parent].stage = "sealed"
    /\ src' = disk[parent].receipt
    /\ src'.run = parent /\ src'.repo = repository_identity
    /\ Goes("reread")
    /\ UNCHANGED <<run, parent, worldVars, treeVars, base, bytes, snap, oid,
                   record, disk, histVars, edits>>

\* The patch is read once more ...
RereadPatch ==
    /\ At("reread") /\ disk[parent].patch # Gone
    /\ bytes' = disk[parent].patch
    /\ Goes("copy")
    /\ UNCHANGED <<run, parent, worldVars, treeVars, base, src, snap, oid,
                   record, disk, histVars, edits>>

\* ... and so is the receipt; both are copied into the child's directory.
CopyEvidence ==
    /\ At("copy")
    /\ disk' = [disk EXCEPT ![run] =
           [@ EXCEPT !.srcReceipt = disk[parent].receipt, !.srcPatch = bytes]]
    /\ Goes("child add")
    /\ UNCHANGED <<run, parent, worldVars, treeVars, readVars, record, histVars, edits>>

AddChildWorktree ==
    /\ At("child add")
    /\ Checkout(TreeAt(src.base, TreeOf[head]))
    /\ Goes(IF bytes = NoPatch THEN "applied" ELSE "apply")
    /\ UNCHANGED <<run, parent, worldVars, readVars, record, disk, histVars, edits>>

\* `apply_candidate_patch` of a patch that applies cleanly; any other fails.
ApplyPatch ==
    /\ At("apply") /\ Applies(bytes)
    /\ wt' = Patched(wt, bytes) /\ idx' = Patched(idx, bytes)
    /\ Goes("applied")
    /\ UNCHANGED <<run, parent, worldVars, branch, hidden, dirty, readVars, record, disk,
                   histVars, edits>>

finish_apply ==
    /\ At("applied")
    /\ ensure_no_index_hidden_flags /\ ensure_no_dirty_submodule_worktree
    /\ oid' = idx
    /\ ensure_no_gitlink_mutation(src.base, oid')
    /\ Goes("compare")
    /\ UNCHANGED <<run, parent, worldVars, treeVars, base, src, bytes, snap,
                   record, disk, histVars, edits>>

\* The rebuilt tree must be the one the parent's receipt declares; then
\* CandidateStateMaterialized is appended, and AgentStarted after it.
Materialized_bug ==
    /\ At("compare")
    /\ record' = [record EXCEPT ![run].mat =
           [run |-> parent, receipt |-> disk[run].srcReceipt, patch |-> disk[run].srcPatch,
            tree |-> oid]]
    /\ start' = wt
    /\ Goes("agent")
    /\ UNCHANGED <<run, parent, worldVars, treeVars, readVars, disk, left, quiet, edits>>
Materialized ==
    /\ At("compare") /\ oid = src.tree
    /\ record' = [record EXCEPT ![run].mat =
           [run |-> parent, receipt |-> disk[run].srcReceipt, patch |-> disk[run].srcPatch,
            tree |-> oid]]
    /\ start' = wt
    /\ Goes("agent")
    /\ UNCHANGED <<run, parent, worldVars, treeVars, readVars, disk, left, quiet, edits>>

-----------------------------------------------------------------------------
(* The provider, and what it leaves running, in the worktree. *)

Exposed == {"agent", "exited", "capture", "flags", "submodules", "read", "temp",
            "diff", "tree"}

Writes ==
    /\ pc \in Exposed /\ edits < MaxEdits
    /\ edits' = edits + 1
    /\ quiet' = (quiet /\ At("agent"))
    /\ UNCHANGED <<pc, run, parent, worldVars, readVars, record, disk, start, left>>

EditFile(p, e) ==
    /\ Writes /\ wt[p] # e
    /\ wt' = [wt EXCEPT ![p] = e]
    /\ dirty' = dirty \ {p}
    /\ UNCHANGED <<branch, idx, hidden>>

EditIndex(p, e) ==
    /\ Writes /\ idx[p] # e
    /\ idx' = [idx EXCEPT ![p] = e]
    /\ hidden' = hidden \ {p}
    /\ UNCHANGED <<branch, wt, dirty>>

FlagEntry(p) ==
    /\ Writes /\ idx[p] # Gone /\ p \notin hidden
    /\ hidden' = hidden \cup {p}
    /\ UNCHANGED <<branch, wt, idx, dirty>>

EditSubmodule(p) ==
    /\ Writes /\ wt[p] \in Links /\ p \notin dirty
    /\ dirty' = dirty \cup {p}
    /\ UNCHANGED <<branch, wt, idx, hidden>>

Commit ==
    /\ Writes /\ branch # add_all
    /\ idx' = add_all /\ branch' = add_all
    /\ UNCHANGED <<wt, hidden, dirty>>

AgentExits ==
    /\ At("agent")
    /\ left' = [tree |-> wt, dirty |-> dirty]
    /\ Goes("exited")
    /\ UNCHANGED <<run, parent, worldVars, treeVars, readVars, record, disk, start, quiet, edits>>

-----------------------------------------------------------------------------
(* Capturing the candidate. *)

\* `diff_vs_base` stages everything for the record's diff.patch.
diff_vs_base ==
    /\ At("exited")
    /\ idx' = add_all
    /\ Goes("capture")
    /\ UNCHANGED <<run, parent, worldVars, branch, wt, hidden, dirty, readVars, record, disk,
                   histVars, edits>>

\* `capture_cumulative_candidate`: stage, check the flags, check the submodules.
Stage ==
    /\ At("capture")
    /\ idx' = add_all
    /\ Goes("flags")
    /\ UNCHANGED <<run, parent, worldVars, branch, wt, hidden, dirty, readVars, record, disk,
                   histVars, edits>>

CheckFlags ==
    /\ At("flags") /\ ensure_no_index_hidden_flags
    /\ Goes("submodules")
    /\ UNCHANGED <<run, parent, worldVars, treeVars, readVars, record, disk, histVars, edits>>

CheckSubmodules ==
    /\ At("submodules") /\ ensure_no_dirty_submodule_worktree
    /\ Goes("read")
    /\ UNCHANGED <<run, parent, worldVars, treeVars, readVars, record, disk, histVars, edits>>

\* One read of the index ...
ReadIndex ==
    /\ At("read")
    /\ snap' = idx
    /\ Goes("temp")
    /\ UNCHANGED <<run, parent, worldVars, treeVars, base, src, bytes, oid, record, disk,
                   histVars, edits>>

\* ... is written to a private file that no one else names: every command below
\* reads that file and never the worktree's own index again.
CreateSnapshot ==
    /\ At("temp")
    /\ Goes("diff")
    /\ UNCHANGED <<run, parent, worldVars, treeVars, readVars, record, disk, histVars, edits>>

DiffIndex ==
    /\ At("diff")
    /\ bytes' = Diff(TreeAt(base, branch), snap)
    /\ Goes("tree")
    /\ UNCHANGED <<run, parent, worldVars, treeVars, base, src, snap, oid, record, disk,
                   histVars, edits>>

WriteTree_bug ==
    /\ At("tree")
    /\ oid' = idx
    /\ ensure_no_gitlink_mutation(base, oid')
    /\ Goes("patch")
    /\ UNCHANGED <<run, parent, worldVars, treeVars, base, src, bytes, snap, record, disk,
                   histVars, edits>>
WriteTree ==
    /\ At("tree")
    /\ oid' = snap
    /\ ensure_no_gitlink_mutation(base, oid')
    /\ Goes("patch")
    /\ UNCHANGED <<run, parent, worldVars, treeVars, base, src, bytes, snap, record, disk,
                   histVars, edits>>

-----------------------------------------------------------------------------
(* The record's side of the capture. *)

WritePatch ==
    /\ At("patch")
    /\ disk' = [disk EXCEPT ![run].patch = bytes]
    /\ Goes("receipt")
    /\ UNCHANGED <<run, parent, worldVars, treeVars, readVars, record, histVars, edits>>

\* The receipt names the patch by the digest of the bytes that were captured.
write_candidate_state_receipt ==
    /\ At("receipt")
    /\ LET c == [run |-> run, parent |-> parent, repo |-> record[run].repo, base |-> base,
                 tree |-> oid, patch |-> bytes]
       IN  /\ disk' = [disk EXCEPT ![run].receipt = c]
           /\ record' = [record EXCEPT ![run].receipt = c]
    /\ Goes("captured")
    /\ UNCHANGED <<run, parent, worldVars, treeVars, readVars, histVars, edits>>

\* The worktree is removed, whatever the outcome.
Remove ==
    /\ branch' = NoTree /\ wt' = NoTree /\ idx' = NoTree /\ hidden' = {} /\ dirty' = {}
    /\ base' = "HEAD" /\ src' = Gone /\ bytes' = NoPatch /\ snap' = NoTree /\ oid' = NoTree
    /\ start' = NoTree /\ left' = Gone /\ quiet' = TRUE
    /\ run' = 0 /\ parent' = 0
    /\ Goes("idle")

Seal ==
    /\ At("captured")
    /\ record' = [record EXCEPT ![run].stage = "sealed"]
    /\ Remove
    /\ UNCHANGED <<worldVars, disk, edits>>

\* A check refuses, git or a write fails, or the process dies: the record stays
\* as far as it came.
Fail ==
    /\ ~At("idle")
    /\ Remove
    /\ UNCHANGED <<worldVars, record, disk, edits>>

-----------------------------------------------------------------------------
(* The repository and the records meanwhile. *)

Tampers == tampers < MaxTampers /\ tampers' = tampers + 1

HeadMoves(c) ==
    /\ Tampers /\ head # c /\ head' = c
    /\ UNCHANGED <<pc, run, parent, repo, treeVars, readVars, record, disk, histVars, edits>>

RepoReplaced ==
    /\ Tampers /\ repo' = repo + 1
    /\ UNCHANGED <<pc, run, parent, head, treeVars, readVars, record, disk, histVars, edits>>

\* A candidate file of a record holds something else: another tree's patch, or
\* a receipt that differs in one field.
FileChanges(r) ==
    /\ Tampers /\ disk[r].receipt # Gone
    /\ \E c, d \in Commits :
          LET t == TreeOf[c]
              q == Diff(t, TreeOf[d])
          IN  \/ disk' = [disk EXCEPT ![r].patch = q]
              \/ disk' = [disk EXCEPT ![r].receipt.patch = q]
              \/ disk' = [disk EXCEPT ![r].receipt.tree = t]
              \/ disk' = [disk EXCEPT ![r].receipt.base = c]
              \/ \E s \in Runs : disk' = [disk EXCEPT ![r].receipt.run = s]
    /\ disk' # disk
    /\ UNCHANGED <<pc, run, parent, head, repo, treeVars, readVars, record, histVars, edits>>

Init ==
    /\ pc = "idle" /\ run = 0 /\ parent = 0
    /\ head \in Commits /\ repo = 1
    /\ branch = NoTree /\ wt = NoTree /\ idx = NoTree /\ hidden = {} /\ dirty = {}
    /\ base = "HEAD" /\ src = Gone /\ bytes = NoPatch /\ snap = NoTree /\ oid = NoTree
    /\ record = [r \in Runs |-> NoRecord] /\ disk = [r \in Runs |-> NoFiles]
    /\ start = NoTree /\ left = Gone /\ quiet = TRUE
    /\ edits = 0 /\ tampers = 0

Next ==
    \/ \E r \in Runs : BeginRun(r) \/ FileChanges(r)
    \/ \E r, p \in Runs : resolve_inherited_candidate_obligation(r, p)
    \/ AddWorktree \/ LoadParent \/ RereadPatch \/ CopyEvidence \/ AddChildWorktree
    \/ ApplyPatch \/ finish_apply \/ Materialized
    \/ \E p \in Paths, e \in Entries : EditFile(p, e) \/ EditIndex(p, e)
    \/ \E p \in Paths : FlagEntry(p) \/ EditSubmodule(p)
    \/ Commit \/ AgentExits
    \/ diff_vs_base \/ Stage \/ CheckFlags \/ CheckSubmodules \/ ReadIndex
    \/ CreateSnapshot \/ DiffIndex \/ WriteTree \/ WritePatch \/ write_candidate_state_receipt \/ Seal \/ Fail
    \/ \E c \in Commits : HeadMoves(c)
    \/ RepoReplaced

Spec == Init /\ [][Next]_vars

-----------------------------------------------------------------------------
(* Properties *)

\* The two halves of a receipt agree, whoever wrote to the index meanwhile: the
\* patch turns the immutable base into exactly the tree the receipt declares,
\* and touches no gitlink (capture_cumulative_candidate_with_hook).
PatchMakesTree ==
    \A r \in Runs :
        LET c == record[r].receipt
        IN  c # Gone /\ c.base # "HEAD" =>
              /\ Patched(TreeOf[c.base], c.patch) = c.tree
              /\ gitlink_entries(c.tree) = gitlink_entries(TreeOf[c.base])

\* When nothing outlived the provider, a capture that succeeds loses none of
\* its work: the receipt's tree is the worktree it left, and no submodule held
\* uncommitted content (the checks before the index is frozen).
NothingLost ==
    At("captured") /\ quiet =>
        record[run].receipt.tree = left.tree /\ left.dirty = {}

\* A continuation's provider starts in the tree its sealed parent recorded,
\* even if the parent's files or the repository's HEAD changed after they were
\* verified (materialize_parent_candidate_state).
StartsWhereParentEnded ==
    pc \in Exposed /\ parent # 0 =>
        /\ record[parent].stage = "sealed"
        /\ start = record[parent].receipt.tree

\* A record that verifies tells the truth about its lineage: the receipt it
\* carries is its parent's own in everything that matters, and it was built with
\* its tree, from the same base of the same repository; the patch it carries is
\* the parent's own when that base is a commit
\* (verify_candidate_state_materialized).  A base that stayed the name HEAD may
\* be another tree by now, and then another patch, put in the place of the
\* parent's between two reads of it, makes the same tree.
LineageIsSound ==
    \A r \in Runs :
        record[r].mat # Gone /\ verify_prefix(r) =>
            LET p == record[record[r].parent]
                c == disk[r].srcReceipt
            IN  /\ \A f \in {"run", "repo", "base", "tree"} : c[f] = p.receipt[f]
                /\ record[r].mat.tree = p.receipt.tree
                /\ record[r].base = p.base /\ record[r].repo = p.repo
                /\ record[r].base # "HEAD" =>
                     c.patch = p.receipt.patch /\ disk[r].srcPatch = p.receipt.patch
=============================================================================
