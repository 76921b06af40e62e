--------------------------- MODULE WorktreeStore ---------------------------
(***************************************************************************)
(* The durable owner of worktrees (crates/o7-worktree): `create`,          *)
(* `reopen`, `cleanup` and `prune` over one state root, the descriptor     *)
(* bound removal of a directory (reap.rs), and the removal through a       *)
(* handle, which takes no lock.                                            *)
(*                                                                         *)
(* A worktree lives under a name derived from its identity (run, live      *)
(* repository, revision): digests are injective, so the triple itself is   *)
(* the name.  An inode is a number that is never handed out twice; `place` *)
(* says where its only name is: a worktree name, the quarantine name of    *)
(* the process that is removing it, "left" (a quarantine name no process   *)
(* holds any more, still inside the state root), "away" (outside), "gone"  *)
(* (link count zero) or "unborn".                                          *)
(*                                                                         *)
(* Another process of the same user may move, swap or plant entries, at    *)
(* most MaxMeddle times; a process that runs an operation may die at any   *)
(* step.                                                                   *)
(***************************************************************************)
EXTENDS Naturals, FiniteSets, FiniteSetsExt

CONSTANTS
    Procs,      \* o7d instances over the same state root
    Runs,       \* run ids
    Revs,       \* committed revisions
    MaxRepo,    \* how many directories the repository path may name in turn
    MaxIno,     \* how many directories may be born
    MaxMeddle,  \* how often another process may interfere with the entries
    MaxDeaths,  \* how often an o7d instance may die
    Nobody      \* the lock's holder when it is free

ASSUME StoreAssumption ==
    /\ MaxRepo \in Nat \ {0} /\ MaxIno \in Nat \ {0}
    /\ MaxMeddle \in Nat /\ MaxDeaths \in Nat
    /\ Nobody \notin Procs

Inodes == 1..MaxIno

\* WorktreeIdentity::digest and StateRoot::worktree_path
Names == Runs \X (1..MaxRepo) \X Revs

\* A fresh quarantine name, and the places that are no name in use.
Quarantine(p) == <<"reap", p>>
Left    == <<"left">>
Away    == <<"away">>
Gone    == <<"gone">>
NotBorn == <<"unborn">>

InUse == Names \cup {Quarantine(p) : p \in Procs}

\* The owner of a directory no create made or took for its own.
Foreign == <<"foreign">>

\* A WorktreeRecord: the identity triple, the inode recorded at creation and
\* whether its fields still hash to its digest and its path.
Records == [name : Names, ino : Inodes, intact : BOOLEAN]

VARIABLES
    place,      \* where each inode is
    owner,      \* the name a create made an inode for, or took it for, or Foreign
    content,    \* what a directory holds
    file,       \* the records in worktrees.json
    lock,       \* the holder of the exclusive flock on .lock
    pc,         \* where each process is in its operation
    ctx,        \* the operation: its kind, record and the state it will persist
    handle,     \* the Worktree handle each process holds, as a set of records
    answer,     \* what the operation that returned last said, until the next starts
    repo,       \* which directory the repository path names now
    meddled, deaths

fsVars   == <<place, owner, content>>
envVars  == <<repo, meddled, deaths>>
procVars == <<lock, pc, ctx, handle, answer>>
vars     == <<fsVars, file, procVars, envVars>>

-----------------------------------------------------------------------------
\* The file system

\* The inode under a name, as a set of at most one.
At(n) == {i \in Inodes : place[i] = n}

InRoot(i) == place[i] \in InUse \cup {Left}

Unborn == {i \in Inodes : place[i] = NotBorn}

\* attest_owned_dir: the entry at a path is the recorded directory.  The owner
\* and mode checks are the same refusal as another identity.
attest(n, ino) == At(n) = {ino}

\* verify_fd: the same proof on a descriptor opened relative to the root's.
verify_fd(n, ino) == At(n) = {ino}

\* canonical_repo_id and resolve_commit give the identity a run has now.
Identity(run, rev) == <<run, repo, rev>>

\* run_bounded: a git child ends well, or fails, or is killed with its group at
\* the deadline, or said more than its budget; only the first has output.
run_bounded == {"ok", "Command", "Timeout", "OutputTooLarge"}

\* What list_tree's entries are to the preflight: within MaterializeLimits, or
\* refused for a path, a mode, a count or a size.
Listings == {"fits", "UnsafePath", "UnsupportedMode", "TooMany", "TooLarge"}

\* verify_record_integrity: the record's fields give its digest and its path.
verify_record_integrity(r) == r.intact

Idle == [op |-> "none", recs |-> {}, next |-> {}, how |-> "none"]

Silent == [kind |-> "none", inos |-> {}]

\* A fresh directory; place and owner are new, the rest is the caller's.
Born(i, n, who, what) ==
    /\ place' = [place EXCEPT ![i] = n]
    /\ owner' = [owner EXCEPT ![i] = who]
    /\ content' = [content EXCEPT ![i] = what]

\* Whatever is left under the quarantine name of a removal that is over stays
\* there: the next removal takes a fresh name.
Abandon(p) ==
    place' = [i \in Inodes |-> IF place[i] = Quarantine(p) THEN Left ELSE place[i]]

-----------------------------------------------------------------------------
\* Operations begin and end

\* Mutant: the lock is not waited for.
Locked_bug(p) == lock' = p

\* The lock is taken for every operation of the store and freed with its guard.
Locked(p) == /\ lock = Nobody
             /\ lock' = p

Unlock(p) == lock' = IF lock = p THEN Nobody ELSE lock

Goto(p, step) == pc' = [pc EXCEPT ![p] = step]

\* The operation of p returns.
Return(p, kind, inos) ==
    /\ Goto(p, "idle")
    /\ Unlock(p)
    /\ ctx' = [ctx EXCEPT ![p] = Idle]
    /\ answer' = [kind |-> kind, inos |-> inos]

\* The operation of p starts at a step, with the record it is about and the
\* state it will write.
Start(p, op, step, recs, next) ==
    /\ pc[p] = "idle"
    /\ Goto(p, step)
    /\ ctx' = [ctx EXCEPT ![p] = [op |-> op, recs |-> recs, next |-> next, how |-> "none"]]
    /\ answer' = Silent

\* An operation that refuses before it changed anything.
Refuse(p) ==
    /\ pc[p] = "idle"
    /\ lock = Nobody
    /\ answer' = [kind |-> "error", inos |-> {}]
    /\ UNCHANGED <<fsVars, file, lock, pc, ctx, handle, envVars>>

Rec(p) == CHOOSE r \in ctx[p].recs : TRUE

Tracked(run) == {r \in file : r.name[1] = run}

-----------------------------------------------------------------------------
\* WorktreeStore::create and Worktree::create

\* Lock, load, refuse a tracked run; then Worktree::create takes the live
\* repository's identity and refuses a state root inside the repository.
CreateBegin(p, run, rev) ==
    \/ /\ Tracked(run) = {}
       /\ Locked(p)
       /\ \E i \in Unborn :
            LET rec == [name |-> Identity(run, rev), ino |-> Min(Unborn), intact |-> TRUE]
            IN  /\ i = Min(Unborn)
                /\ Start(p, "create", "plan", {rec}, file \cup {rec})
       /\ UNCHANGED <<fsVars, file, handle, envVars>>
    \/ Refuse(p)

\* MaterializePlan::prepare lists the whole tree and checks every entry's path,
\* mode and size and the totals, before anything is written: a refusal leaves
\* the root as it was.
Preflight(p) ==
    /\ pc[p] = "plan"
    /\ \E git \in run_bounded, listed \in Listings :
         \/ /\ git = "ok" /\ listed = "fits"
            /\ Goto(p, "mkdir")
            /\ UNCHANGED <<lock, ctx, answer>>
         \/ /\ git # "ok" \/ listed # "fits"
            /\ Return(p, "error", {})
    /\ UNCHANGED <<fsVars, file, handle, envVars>>

\* StateRoot::create_worktree_dir, up to mkdirat: it fails when there is an entry
\* at the name, and may fail otherwise.
MkDir(p) ==
    /\ pc[p] = "mkdir"
    /\ \/ /\ Return(p, "error", {})
          /\ UNCHANGED fsVars
       \/ /\ At(Rec(p).name) = {}
          /\ \E i \in Unborn :
               /\ i = Min(Unborn)
               /\ Born(i, Rec(p).name, Rec(p).name, "empty")
          /\ Goto(p, "bind")
          /\ UNCHANGED <<lock, ctx, answer>>
    /\ UNCHANGED <<file, handle, envVars>>

\* The rest of create_worktree_dir opens the name again and takes the identity of
\* what is there now, with its owner and its bits proven: the directory just made,
\* or one that was swapped in since and is the store's from here on.  A failure
\* (open, fchmod, verify, stat) returns with the entry there.
BindDir(p) ==
    /\ pc[p] = "bind"
    /\ \/ /\ Return(p, "error", {})
          /\ UNCHANGED owner
       \/ \E i \in At(Rec(p).name) :
            /\ owner' = [owner EXCEPT ![i] = Rec(p).name]
            /\ LET rec == [Rec(p) EXCEPT !.ino = i]
               IN  ctx' = [ctx EXCEPT ![p] =
                     [op |-> "create", recs |-> {rec},
                      next |-> (ctx[p].next \ {Rec(p)}) \cup {rec}, how |-> "none"]]
            /\ Goto(p, "init")
            /\ UNCHANGED <<lock, answer>>
    /\ UNCHANGED <<place, content, file, handle, envVars>>

\* A build step works through the path: on whatever directory is there, and it
\* fails when there is none.  Any step may fail, and a failed build removes the
\* directory before it returns the error.
BuildStep(p, from, to, holds) ==
    /\ pc[p] = from
    /\ \/ /\ At(Rec(p).name) # {}
          /\ content' = [i \in Inodes |->
                IF i \in At(Rec(p).name) /\ owner[i] # Foreign THEN holds ELSE content[i]]
          /\ Goto(p, to)
       \/ /\ Goto(p, "open")
          /\ UNCHANGED content
    /\ UNCHANGED <<place, owner, file, lock, ctx, handle, answer, envVars>>

\* init_detached_worktree: git init, the alternates file that borrows the
\* source's objects, the detached HEAD and the index.
InitDetached(p) == BuildStep(p, "init", "copy", "borrowed")

\* Mutant: the record is written before the tree.
CopyClosure_bug(p) == BuildStep(p, "copy", "persist", "objects")

\* copy_object_closure, within its byte budget, and the removal of alternates.
CopyClosure(p) == BuildStep(p, "copy", "write", "objects")

\* MaterializePlan::write
WriteTree(p) == BuildStep(p, "write", "persist", "whole")

-----------------------------------------------------------------------------
\* remove_verified_relative: the removal of one directory in five steps

\* What the removal's result means to the operation that asked for it: a failed
\* create ignores it; cleanup drops the record when the directory was removed or
\* was not there; the handle's cleanup holds no record.
ReapEnds(p, result) ==
    /\ \/ /\ ctx[p].op = "create"
          /\ Return(p, "error", {})
       \/ /\ ctx[p].op = "cleanup" /\ result \in {"reaped", "vanished"}
          /\ Goto(p, "persist")
          /\ ctx' = [ctx EXCEPT ![p] = [@ EXCEPT !.how = result]]
          /\ UNCHANGED <<lock, answer>>
       \/ /\ ctx[p].op = "cleanup" /\ result \notin {"reaped", "vanished"}
          /\ Return(p, result, {Rec(p).ino})
       \/ /\ ctx[p].op = "handle"
          /\ Return(p, result, {Rec(p).ino})
    /\ UNCHANGED <<file, handle, envVars>>

\* remove_worktree_dir re-proves the bound root before anything is removed under
\* it: a root whose owner or bits changed ends the removal unproven.
remove_worktree_dir(p) ==
    /\ pc[p] = "open"
    /\ ReapEnds(p, "unproven")
    /\ UNCHANGED fsVars

\* openat without following links, and the proof on the open descriptor.
ReapOpen(p) ==
    /\ pc[p] = "open"
    /\ LET r == Rec(p)
       IN \/ /\ At(r.name) = {}
             /\ ReapEnds(p, "vanished")
          \/ /\ At(r.name) # {} /\ ~verify_fd(r.name, r.ino)
             /\ ReapEnds(p, "unproven")
          \/ /\ verify_fd(r.name, r.ino)
             /\ Goto(p, "rename")
             /\ UNCHANGED <<file, lock, ctx, handle, answer, envVars>>
    /\ UNCHANGED fsVars

\* renameat2(RENAME_NOREPLACE) to a fresh name moves whatever is there now; any
\* other error leaves it.
ReapRename(p) ==
    /\ pc[p] = "rename"
    /\ LET n == Rec(p).name
       IN \/ /\ At(n) = {}
             /\ ReapEnds(p, "vanished")
             /\ UNCHANGED place
          \/ /\ ReapEnds(p, "unproven")
             /\ UNCHANGED place
          \/ /\ At(n) # {}
             /\ place' = [i \in Inodes |-> IF place[i] = n THEN Quarantine(p) ELSE place[i]]
             /\ Goto(p, "prove")
             /\ UNCHANGED <<file, lock, ctx, handle, answer, envVars>>
    /\ UNCHANGED <<owner, content>>

\* The proof again, on the quarantined entry.
ReapProve(p) ==
    /\ pc[p] = "prove"
    /\ \/ /\ verify_fd(Quarantine(p), Rec(p).ino)
          /\ Goto(p, "clear")
          /\ UNCHANGED <<place, file, lock, ctx, handle, answer, envVars>>
       \/ /\ ~verify_fd(Quarantine(p), Rec(p).ino)
          /\ ReapEnds(p, "unproven")
          /\ Abandon(p)
    /\ UNCHANGED <<owner, content>>

\* Mutant: the contents are cleared through the quarantine name.
ReapClear_bug(p) ==
    /\ pc[p] = "clear"
    /\ content' = [i \in Inodes |-> IF place[i] = Quarantine(p) THEN "empty" ELSE content[i]]
    /\ Goto(p, "rmdir")
    /\ UNCHANGED <<place, owner, file, lock, ctx, handle, answer, envVars>>

\* clear_dir works on the descriptor that was proven, wherever its name is now;
\* an error leaves some of the contents.
ReapClear(p) ==
    /\ pc[p] = "clear"
    /\ \/ /\ content' = [content EXCEPT ![Rec(p).ino] = "empty"]
          /\ Goto(p, "rmdir")
          /\ UNCHANGED <<place, file, lock, ctx, handle, answer, envVars>>
       \/ /\ content' = [content EXCEPT ![Rec(p).ino] = "part"]
          /\ ReapEnds(p, "io")
          /\ Abandon(p)
    /\ UNCHANGED owner

\* Mutant: a successful rmdir is taken for the removal of the worktree.
ReapRmdir_bug(p) ==
    /\ pc[p] = "rmdir"
    /\ \/ \E i \in At(Quarantine(p)) :
            /\ content[i] = "empty"
            /\ place' = [place EXCEPT ![i] = Gone]
            /\ ReapEnds(p, "reaped")
       \/ /\ ReapEnds(p, "io")
          /\ Abandon(p)
    /\ UNCHANGED <<owner, content>>

\* unlinkat(REMOVEDIR) removes an empty directory under the quarantine name,
\* whichever it is, or fails; the link count on the proven descriptor then
\* tells whether ours is gone.
ReapRmdir(p) ==
    /\ pc[p] = "rmdir"
    /\ \/ \E i \in At(Quarantine(p)) :
            /\ content[i] = "empty"
            /\ place' = [place EXCEPT ![i] = Gone]
            /\ ReapEnds(p, IF place'[Rec(p).ino] = Gone THEN "reaped" ELSE "unproven")
       \/ /\ ReapEnds(p, "io")
          /\ Abandon(p)
    /\ UNCHANGED <<owner, content>>

-----------------------------------------------------------------------------
\* WorktreeStore::cleanup, Worktree::cleanup, reopen and prune

\* An unknown run and a record that disagrees with its own digest are refused.
CleanupBegin(p, run) ==
    \/ \E r \in Tracked(run) :
         /\ verify_record_integrity(r)
         /\ Locked(p)
         /\ Start(p, "cleanup", "open", {r}, file \ {r})
         /\ UNCHANGED <<fsVars, file, handle, envVars>>
    \/ /\ \A r \in Tracked(run) : ~verify_record_integrity(r)
       /\ Refuse(p)

\* The handle's own cleanup consumes it and takes no lock.
HandleCleanup(p) ==
    /\ handle[p] # {}
    /\ Start(p, "handle", "open", handle[p], {})
    /\ handle' = [handle EXCEPT ![p] = {}]
    /\ UNCHANGED <<fsVars, file, lock, envVars>>

\* reopen hands out the recorded worktree when the record is intact, the live
\* repository is the recorded one and the directory is proven.
Reopen(p, run) ==
    /\ lock = Nobody /\ pc[p] = "idle"
    /\ \/ \E r \in Tracked(run) :
            /\ verify_record_integrity(r)
            /\ r.name[2] = repo
            /\ attest(r.name, r.ino)
            /\ handle' = [handle EXCEPT ![p] = {r}]
            /\ answer' = [kind |-> "opened", inos |-> {r.ino}]
            /\ UNCHANGED <<fsVars, file, lock, pc, ctx, envVars>>
       \/ Refuse(p)

\* prune keeps a record unless it is intact and nothing is at its path.
Reconciled ==
    {r \in file : verify_record_integrity(r) => At(r.name) # {}}

PruneBegin(p) ==
    /\ Locked(p)
    /\ Start(p, "prune", "persist", {}, Reconciled)
    /\ UNCHANGED <<fsVars, file, handle, envVars>>

\* Mutant: quarantine names are hidden files and skipped.
unreferenced_dirs_bug(records) ==
    {i \in Inodes : place[i] \in Names \ {r.name : r \in records}}

\* unreferenced_dirs: every directory under the root whose name is not the
\* digest of a record that remains.
unreferenced_dirs(records) ==
    {i \in Inodes : InRoot(i) /\ place[i] \notin {r.name : r \in records}}

PruneLists(p) ==
    /\ pc[p] = "list"
    /\ \/ Return(p, "listed", unreferenced_dirs(ctx[p].next))
       \/ Return(p, "error", {})
    /\ UNCHANGED <<fsVars, file, handle, envVars>>

\* write_state_file_atomic replaces the whole file with the state the operation
\* loaded and changed; it may fail before the rename, or after it, when the
\* directory cannot be synchronised.
Persist(p) ==
    /\ pc[p] = "persist"
    /\ \/ /\ Return(p, "error", {})
          /\ UNCHANGED <<file, handle>>
       \/ /\ file' = ctx[p].next
          /\ \/ /\ Return(p, "error", {})
                /\ UNCHANGED handle
             \/ /\ ctx[p].op = "create"
                /\ handle' = [handle EXCEPT ![p] = ctx[p].recs]
                /\ Return(p, "created", {Rec(p).ino})
             \/ /\ ctx[p].op = "cleanup"
                /\ Return(p, ctx[p].how, {Rec(p).ino})
                /\ UNCHANGED handle
             \/ /\ ctx[p].op = "prune"
                /\ Goto(p, "list")
                /\ UNCHANGED <<lock, ctx, handle, answer>>
    /\ UNCHANGED <<fsVars, envVars>>

-----------------------------------------------------------------------------
\* The environment

\* The process dies in an operation or with a handle in its hands: its lock is
\* freed, its handle and its loaded state are lost.
Die(p) ==
    /\ deaths < MaxDeaths
    /\ pc[p] # "idle" \/ handle[p] # {}
    /\ deaths' = deaths + 1
    /\ Goto(p, "idle")
    /\ Unlock(p)
    /\ ctx' = [ctx EXCEPT ![p] = Idle]
    /\ handle' = [handle EXCEPT ![p] = {}]
    /\ answer' = Silent
    /\ Abandon(p)
    /\ UNCHANGED <<owner, content, file, repo, meddled>>

\* The repository path comes to name another directory.
RepoReplaced ==
    /\ repo < MaxRepo
    /\ repo' = repo + 1
    /\ UNCHANGED <<fsVars, file, procVars, meddled, deaths>>

Meddle ==
    /\ meddled < MaxMeddle
    /\ meddled' = meddled + 1
    /\ UNCHANGED <<file, procVars, repo, deaths>>

\* Another process moves a directory out of the root, or removes it.
MoveAway ==
    /\ Meddle
    /\ \E i \in Inodes, to \in {Away, Gone} :
         /\ InRoot(i) /\ owner[i] # Foreign
         /\ place' = [place EXCEPT ![i] = to]
    /\ UNCHANGED <<owner, content>>

\* It plants a directory of its own, empty or not, under a worktree's name or a
\* quarantine name in use, moving away what is there.
Swap ==
    /\ Meddle
    /\ \E i \in Unborn, n \in Names \cup {q \in InUse : At(q) # {}}, what \in {"empty", "whole"} :
         /\ i = Min(Unborn)
         /\ place' = [j \in Inodes |-> IF j = i THEN n
                                       ELSE IF place[j] = n THEN Away ELSE place[j]]
         /\ owner' = [owner EXCEPT ![i] = Foreign]
         /\ content' = [content EXCEPT ![i] = what]

\* A record in the state file no longer agrees with its digest.
Tamper ==
    /\ meddled < MaxMeddle
    /\ meddled' = meddled + 1
    /\ lock = Nobody
    /\ \E r \in file : file' = (file \ {r}) \cup {[r EXCEPT !.intact = FALSE]}
    /\ UNCHANGED <<fsVars, procVars, repo, deaths>>

-----------------------------------------------------------------------------
Init ==
    /\ place = [i \in Inodes |-> NotBorn]
    /\ owner = [i \in Inodes |-> Foreign]
    /\ content = [i \in Inodes |-> "empty"]
    /\ file = {}
    /\ lock = Nobody
    /\ pc = [p \in Procs |-> "idle"]
    /\ ctx = [p \in Procs |-> Idle]
    /\ handle = [p \in Procs |-> {}]
    /\ answer = Silent
    /\ repo = 1 /\ meddled = 0 /\ deaths = 0

Operation(p) ==
    \/ \E run \in Runs, rev \in Revs : CreateBegin(p, run, rev)
    \/ \E run \in Runs : CleanupBegin(p, run) \/ Reopen(p, run)
    \/ HandleCleanup(p) \/ PruneBegin(p)
    \/ Preflight(p) \/ MkDir(p) \/ BindDir(p)
    \/ InitDetached(p) \/ CopyClosure(p) \/ WriteTree(p)
    \/ remove_worktree_dir(p) \/ ReapOpen(p) \/ ReapRename(p) \/ ReapProve(p) \/ ReapClear(p) \/ ReapRmdir(p)
    \/ Persist(p) \/ PruneLists(p)

Next ==
    \/ \E p \in Procs : Operation(p) \/ Die(p)
    \/ RepoReplaced \/ MoveAway \/ Swap \/ Tamper

Spec == Init /\ [][Next]_vars

-----------------------------------------------------------------------------
\* Properties

\* Types of the store's state (WorktreeStore, StateFile, WorktreeRecord).
StoreTypeOK ==
    /\ place \in [Inodes -> InUse \cup {Left, Away, Gone, NotBorn}]
    /\ owner \in [Inodes -> Names \cup {Foreign}]
    /\ content \in [Inodes -> {"empty", "borrowed", "objects", "whole", "part"}]
    /\ file \subseteq Records
    /\ lock \in Procs \cup {Nobody}
    /\ \A p \in Procs : handle[p] \subseteq Records /\ ctx[p].recs \subseteq Records
    /\ \A n \in InUse : Cardinality(At(n)) <= 1

\* What another process put there is not destroyed: the removal of a worktree
\* (remove_verified_relative) never empties and never unlinks a directory with
\* contents that is not the store's, however entries are swapped between its
\* proofs and its unlinks.  The store's are the directories its creates bound:
\* one that was swapped in between the mkdirat and the openat of
\* create_worktree_dir is bound as the one just made (BindDir), and a failed
\* build or a cleanup clears it.
ForeignTreesKept ==
    [][\A i \in Inodes : owner[i] = Foreign /\ content[i] = "whole" =>
          content'[i] = "whole" /\ place'[i] # Gone]_vars

\* A cleanup that says it removed the directory itself removed the one that was
\* recorded: an empty directory swapped in before the rmdir is no success.
RemovalProven ==
    answer.kind = "reaped" => \A i \in answer.inos : place[i] = Gone

\* No update of worktrees.json is lost: a record leaves it only with a cleanup of
\* that worktree or with a prune that chose to drop it, so the write of a stale
\* copy never drops a record another operation added.
OnlyDroppedLeave ==
    [][\A r \in file : r.intact /\ r \notin file' =>
          \/ \E p \in Procs : ctx[p].op = "cleanup" /\ r \in ctx[p].recs
          \/ \E p \in Procs : ctx[p].op = "prune" /\ r \notin ctx[p].next
          \/ [r EXCEPT !.intact = FALSE] \in file']_vars

\* A recorded directory that is still at its path is whole and borrows nothing
\* from the source repository: the record is written after the build, and the
\* contents are cleared only after the directory left its path.  (The other
\* processes of the model never move a directory back to a path and edit no
\* contents.)
RecordedIsWhole ==
    StoreTypeOK /\ \A r \in file : attest(r.name, r.ino) => content[r.ino] = "whole"

\* No directory is forgotten: a prune that reports lists every directory under
\* the root that the store created and that no remaining record names, the
\* remains of interrupted creates and removals included.  (The listing is one
\* step here, over a file system that tells an entry's type: StateRoot skips the
\* entries of unknown type.)
PruneReportsAll ==
    [][\A p \in Procs : pc[p] = "list" /\ answer'.kind = "listed" =>
          \A i \in Inodes :
            \/ i \in answer'.inos
            \/ ~InRoot(i) \/ owner[i] = Foreign
            \/ \E r \in file : attest(r.name, i) /\ r.ino = i]_vars

=============================================================================
