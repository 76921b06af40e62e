------------------------ MODULE WorktreeStoreProofs ------------------------
(***************************************************************************)
(* The properties of WorktreeStore for every number of processes, runs and *)
(* directories and however often another process interferes or one dies.   *)
(*                                                                         *)
(* The argument rests on three facts that no single action shows.  Who     *)
(* creates, cleans up or prunes holds the lock, so the state it is to      *)
(* write is the file but for its own record (LockHeld, Fresh).  A          *)
(* directory gets its worktree name at birth and never comes back to it,   *)
(* so what the removal proved under the quarantine name stays away from    *)
(* every recorded path (Lasting, ClearedAway), also for the removal        *)
(* through a handle, which takes no lock.  And every record that is kept,  *)
(* held or removed names a directory the store itself made (Known).        *)
(*                                                                         *)
(* A step of a process is split twice, by what it does to its operation    *)
(* (Shape, FileShape, HandleShape) and by what it does to the directories  *)
(* (FsShape), and each part of the invariant is proved from the one or the *)
(* other.                                                                  *)
(***************************************************************************)
EXTENDS WorktreeStore, Sequences, FiniteSetTheorems, TLAPS

-----------------------------------------------------------------------------
(* The invariant *)

\* The steps of a create before it has the directory's identity, ...
Unbound == {"plan", "mkdir", "bind"}

\* ... the ones that build, ...
Building == {"init", "copy", "write"}

\* ... the steps of remove_verified_relative up to the rename, ...
Opening == {"open", "rename"}

\* ... and the ones after it, which have a quarantine name.
Holding == {"prove", "clear", "rmdir"}

\* Where an operation may be in each of its kinds.
OpSteps ==
    [create  |-> {"plan", "mkdir", "bind", "persist"} \cup Building \cup Opening \cup Holding,
     cleanup |-> {"persist"} \cup Opening \cup Holding,
     handle  |-> Opening \cup Holding,
     prune   |-> {"persist", "list"}]

\* The operations that hold the lock, ...
Locking == {"create", "cleanup", "prune"}

\* ... and the ones that are about one record.
AboutOne == {"create", "cleanup", "handle"}

\* Every place an operation may be at.
Steps == {"idle", "plan", "mkdir", "bind", "persist", "list"} \cup Building \cup Opening \cup Holding

\* What an operation may say.
Answers == {"none", "error", "created", "opened", "listed", "reaped", "vanished",
            "unproven", "io"}

\* The types of the entries, ...
FsTypes ==
    /\ place \in [Inodes -> InUse \cup {Left, Away, Gone, NotBorn}]
    /\ owner \in [Inodes -> Names \cup {Foreign}]
    /\ content \in [Inodes -> {"empty", "borrowed", "objects", "whole", "part"}]

\* ... of the state file, the lock and the handles, ...
FileTypes ==
    /\ file \subseteq Records
    /\ lock \in Procs \cup {Nobody}
    /\ handle \in [Procs -> SUBSET Records]
    /\ repo \in 1..MaxRepo

\* ... and of the operations.
OpTypes ==
    /\ pc \in [Procs -> Steps]
    /\ ctx \in [Procs -> [op : {"none"} \cup Locking \cup AboutOne, recs : SUBSET Records,
                          next : SUBSET Records, how : {"none", "reaped", "vanished"}]]

\* The type of the last answer.
AnswerTypes == answer \in [kind : Answers, inos : SUBSET Inodes]

\* An entry has one name and a name one entry.
Unique == \A i, j \in Inodes : place[i] = place[j] /\ place[i] \in InUse => i = j

\* A quarantine name has an entry only while its removal is under way.
Quarantined ==
    \A p \in Procs : pc[p] \notin Holding => \A i \in Inodes : place[i] # Quarantine(p)

\* A process is where its operation can be.
Sited ==
    \A p \in Procs :
      /\ pc[p] = "idle" <=> ctx[p].op = "none"
      /\ ctx[p].op # "none" => pc[p] \in OpSteps[ctx[p].op]

\* An operation of the store holds the lock.
LockHeld == \A p \in Procs : ctx[p].op \in Locking => lock = p

\* An operation about a worktree has its record, and a handle is of one.
OneRecord ==
    \A p \in Procs :
      /\ ctx[p].op \in AboutOne => \E r \in Records : ctx[p].recs = {r}
      /\ handle[p] # {} => \E r \in Records : handle[p] = {r}

\* The state an operation is to persist is what the file holds now but for its
\* own record.
Fresh ==
    \A p \in Procs :
      /\ ctx[p].op = "create" => ctx[p].next = file \cup ctx[p].recs
      /\ ctx[p].op = "cleanup" => ctx[p].next = file \ ctx[p].recs
      /\ pc[p] = "list" => ctx[p].next = file
      /\ ctx[p].op = "prune" => ctx[p].next \subseteq file

\* A run that is being created is not tracked.
Untracked ==
    \A p \in Procs : ctx[p].op = "create" =>
      \A r \in ctx[p].recs, t \in file : t.name # r.name

\* The record names a directory that was born for it.
Ours(r) == place[r.ino] # NotBorn /\ owner[r.ino] # Foreign

\* So does every record that is kept, held or removed.
Known ==
    /\ \A r \in file : Ours(r)
    /\ \A p \in Procs : \A r \in handle[p] : Ours(r)
    /\ \A p \in Procs : pc[p] \notin Unbound => \A r \in ctx[p].recs : Ours(r)

\* Of the directories the store made, only the recorded one is at its name ...
OnlyOurs(r) == \A i \in Inodes : place[i] = r.name /\ owner[i] # Foreign => i = r.ino

\* ... for every record of the file and the one that is about to be added.
Exclusive ==
    /\ \A r \in file : OnlyOurs(r)
    /\ \A p \in Procs : ctx[p].op = "create" /\ pc[p] \notin Unbound =>
          \A r \in ctx[p].recs : OnlyOurs(r)

\* A directory at its name is whole ...
Whole(r) == place[r.ino] = r.name => content[r.ino] = "whole"

\* ... when it is recorded, and when it is about to be.
Wholes ==
    /\ \A r \in file : Whole(r)
    /\ \A p \in Procs : ctx[p].op = "create" /\ pc[p] = "persist" =>
          \A r \in ctx[p].recs : Whole(r)

\* A directory is cleared away from every worktree name, and none comes back.
ClearedAway ==
    \A p \in Procs : pc[p] \in {"clear", "rmdir"} =>
      \A r \in ctx[p].recs : place[r.ino] \notin Names

\* A removal that is about to report has removed the recorded directory.
Reaped ==
    \A p \in Procs : ctx[p].how = "reaped" => \A r \in ctx[p].recs : place[r.ino] = Gone

\* What another process planted is kept, and what is not born is empty.
ForeignKept ==
    /\ \A i \in Inodes : owner[i] = Foreign /\ content[i] = "whole" => place[i] # Gone
    /\ \A i \in Inodes : place[i] = NotBorn => owner[i] = Foreign /\ content[i] = "empty"

\* No report of a prune is left once the lock is taken again.
Reports == lock # Nobody => answer.kind # "listed"

\* The inductive invariant.
Inv ==
    /\ FsTypes /\ FileTypes /\ OpTypes /\ AnswerTypes
    /\ Unique /\ Quarantined /\ Sited /\ LockHeld /\ OneRecord
    /\ Fresh /\ Untracked /\ Known /\ Exclusive /\ Wholes
    /\ ClearedAway /\ Reaped /\ ForeignKept /\ Reports
    /\ RemovalProven

-----------------------------------------------------------------------------
(* Names and records *)

\* A quarantine name is no worktree's name, belongs to one process, and the places
\* that are not names are none of them.
LEMMA Places ==
    /\ \A p \in Procs : Quarantine(p) \notin Names \cup {Left, Away, Gone, NotBorn}
    /\ \A p, q \in Procs : Quarantine(p) = Quarantine(q) => p = q
    /\ \A n \in Names : n \notin {Left, Away, Gone, NotBorn, Foreign}
    /\ Left # Away /\ Left # Gone /\ Left # NotBorn /\ Away # Gone /\ Away # NotBorn
    /\ Gone # NotBorn
<1>1. ASSUME NEW n \in Names PROVE Len(n) = 3
  BY <1>1 DEF Names
<1>2. ASSUME NEW p PROVE Len(Quarantine(p)) = 2 /\ Quarantine(p)[2] = p
  BY DEF Quarantine
<1>3. /\ Len(Left) = 1 /\ Len(Away) = 1 /\ Len(Gone) = 1 /\ Len(NotBorn) = 1
      /\ Len(Foreign) = 1
  BY DEF Left, Away, Gone, NotBorn, Foreign
<1>4. /\ Left[1] = "left" /\ Away[1] = "away" /\ Gone[1] = "gone" /\ NotBorn[1] = "unborn"
  BY DEF Left, Away, Gone, NotBorn
<1>5. /\ Left # Away /\ Left # Gone /\ Left # NotBorn /\ Away # Gone /\ Away # NotBorn
      /\ Gone # NotBorn
  BY <1>4
<1>6. \A p \in Procs : Quarantine(p) \notin Names \cup {Left, Away, Gone, NotBorn}
  BY <1>1, <1>2, <1>3
<1>7. \A p, q \in Procs : Quarantine(p) = Quarantine(q) => p = q
  BY <1>2
<1>8. \A n \in Names : n \notin {Left, Away, Gone, NotBorn, Foreign}
  BY <1>1, <1>3
<1> QED
  BY <1>5, <1>6, <1>7, <1>8

\* The record of an operation about one worktree.
LEMMA RecOfOne ==
    ASSUME OneRecord, NEW p \in Procs, ctx[p].op \in AboutOne
    PROVE  Rec(p) \in Records /\ ctx[p].recs = {Rec(p)}
BY DEF OneRecord, Rec

\* The record a create begins with.
LEMMA NewRecord ==
    ASSUME FsTypes, FileTypes, NEW run \in Runs, NEW rev \in Revs, NEW i \in Unborn,
           i = Min(Unborn)
    PROVE  /\ [name |-> Identity(run, rev), ino |-> Min(Unborn), intact |-> TRUE] \in Records
           /\ Identity(run, rev) \in Names /\ Identity(run, rev)[1] = run
BY DEF FileTypes, Unborn, Identity, Names, Records

\* A record that takes the inode of the directory keeps its name.
LEMMA SameName ==
    ASSUME NEW r \in Records, NEW i \in Inodes
    PROVE  /\ [r EXCEPT !.ino = i] \in Records /\ [r EXCEPT !.ino = i].name = r.name
           /\ [r EXCEPT !.ino = i].ino = i
BY DEF Records

\* A context is the record of its fields.
LEMMA Context ==
    ASSUME NEW A, NEW B, NEW C, NEW D, NEW c \in [op : A, recs : B, next : C, how : D]
    PROVE  c = [op |-> c.op, recs |-> c.recs, next |-> c.next, how |-> c.how]
OBVIOUS

\* What comes of mkdirat.
LEMMA MkDirMakes ==
    ASSUME OpTypes, Sited, OneRecord, NEW p \in Procs, MkDir(p)
    PROVE  /\ UNCHANGED <<file, handle, envVars>> /\ pc[p] = "mkdir" /\ ctx[p].op = "create"
           /\ \/ Return(p, "error", {}) /\ UNCHANGED fsVars
              \/ /\ Goto(p, "bind") /\ UNCHANGED <<lock, ctx, answer>>
                 /\ At(Rec(p).name) = {}
                 /\ \E i \in Unborn : Born(i, Rec(p).name, Rec(p).name, "empty")
<1>1. UNCHANGED <<file, handle, envVars>> /\ pc[p] = "mkdir"
  BY DEF MkDir
<1>2. ctx[p].op = "create"
  BY <1>1 DEF OpTypes, Sited, OpSteps, Building, Opening, Holding, Locking, AboutOne
<1> QED BY <1>1, <1>2, Zenon DEF MkDir

\* create_worktree_dir took the directory i: the create goes on with a record of it.
Took(p, i, rec) ==
    /\ i \in At(Rec(p).name)
    /\ rec.name = Rec(p).name /\ rec.ino = i
    /\ owner' = [owner EXCEPT ![i] = Rec(p).name]
    /\ UNCHANGED <<place, content>>
    /\ Goto(p, "init")
    /\ ctx' = [ctx EXCEPT ![p] = [op |-> "create", recs |-> {rec},
                                  next |-> (ctx[p].next \ {Rec(p)}) \cup {rec},
                                  how |-> "none"]]
    /\ UNCHANGED <<lock, answer>>

\* Nothing else comes of it, but an error.
LEMMA BindTakes ==
    ASSUME OpTypes, Sited, OneRecord, NEW p \in Procs, BindDir(p)
    PROVE  /\ UNCHANGED <<file, handle, envVars>> /\ pc[p] = "bind" /\ ctx[p].op = "create"
           /\ Rec(p) \in Records /\ ctx[p].recs = {Rec(p)}
           /\ \/ Return(p, "error", {}) /\ UNCHANGED fsVars
              \/ \E i \in Inodes, rec \in Records : Took(p, i, rec)
<1>1. UNCHANGED <<place, content, file, handle, envVars>> /\ pc[p] = "bind"
  BY DEF BindDir
<1>2. ctx[p].op = "create"
  BY <1>1 DEF OpTypes, Sited, OpSteps, Building, Opening, Holding, Locking, AboutOne
<1>3. Rec(p) \in Records /\ ctx[p].recs = {Rec(p)}
  BY <1>2, RecOfOne DEF AboutOne
<1>4. ASSUME ~(Return(p, "error", {}) /\ UNCHANGED fsVars)
      PROVE  \E i \in Inodes, rec \in Records : Took(p, i, rec)
  <2>1. PICK i \in At(Rec(p).name) :
           /\ owner' = [owner EXCEPT ![i] = Rec(p).name] /\ Goto(p, "init")
           /\ ctx' = [ctx EXCEPT ![p] =
                 [op |-> "create", recs |-> {[Rec(p) EXCEPT !.ino = i]},
                  next |-> (ctx[p].next \ {Rec(p)}) \cup {[Rec(p) EXCEPT !.ino = i]},
                  how |-> "none"]]
           /\ UNCHANGED <<lock, answer>>
    BY <1>4, Zenon DEF BindDir, fsVars
  <2> DEFINE rec == [Rec(p) EXCEPT !.ino = i]
  <2>2. i \in Inodes /\ rec \in Records /\ rec.name = Rec(p).name /\ rec.ino = i
    BY <1>3, SameName DEF At
  <2>3. Took(p, i, rec)
    BY <1>1, <2>1, <2>2, Zenon DEF Took
  <2> QED BY <2>2, <2>3
<1> QED BY <1>1, <1>2, <1>3, <1>4

-----------------------------------------------------------------------------
(* What a step of a process does to its operation, the file and its handle *)

\* Nothing of it moves, ...
Rests == UNCHANGED <<pc, ctx, lock>>

\* ... the operation is over, ...
Closed(p) ==
    /\ pc' = [pc EXCEPT ![p] = "idle"]
    /\ ctx' = [ctx EXCEPT ![p] = Idle]
    /\ Unlock(p)

\* ... it goes on to a step, with how the removal ended, ...
Moved(p, step, how) ==
    /\ pc[p] # "idle"
    /\ pc' = [pc EXCEPT ![p] = step]
    /\ ctx' = [ctx EXCEPT ![p] = [op |-> ctx[p].op, recs |-> ctx[p].recs,
                                  next |-> ctx[p].next, how |-> how]]
    /\ UNCHANGED lock

\* ... whichever the step, ...
Moves(p) ==
    \E step \in Steps \ {"idle", "plan", "init"}, how \in {"none", "reaped", "vanished"} :
      Moved(p, step, how) /\ (pc[p] \in Unbound => step \in Unbound)

\* ... one begins, ...
Begins(p) ==
    \/ \E r \in Records :
         /\ Locked(p) /\ Start(p, "create", "plan", {r}, file \cup {r})
         /\ \A t \in file : t.name # r.name
    \/ \E r \in file : Locked(p) /\ Start(p, "cleanup", "open", {r}, file \ {r})
    \/ /\ handle[p] # {} /\ UNCHANGED lock
       /\ Start(p, "handle", "open", handle[p], {})
    \/ \E next \in SUBSET file : Locked(p) /\ Start(p, "prune", "persist", {}, next)

\* ... or a create goes on with the directory it took.
Takes(p) ==
    /\ pc[p] = "bind" /\ ctx[p].op = "create"
    /\ ctx[p].recs = {Rec(p)} /\ Rec(p) \in Records
    /\ \E i \in Inodes, rec \in Records : Took(p, i, rec)

\* Any of these.
Shape(p) == Rests \/ Closed(p) \/ Moves(p) \/ Begins(p) \/ Takes(p)

\* The file stays or is replaced by what the operation was to write; that ends the
\* operation, but a prune goes on to list.
FileShape(p) ==
    \/ file' = file /\ pc'[p] # "list"
    \/ /\ pc[p] = "persist" /\ file' = ctx[p].next
       /\ Closed(p) \/ (ctx[p].op = "prune" /\ Moved(p, "list", ctx[p].how))

\* A handle stays, is used or lost, or comes from the file or from a create.
HandleShape(p) ==
    \/ handle' = handle
    \/ handle' = [handle EXCEPT ![p] = {}]
    \/ \E r \in file : handle' = [handle EXCEPT ![p] = {r}] /\ UNCHANGED file
    \/ /\ pc[p] = "persist" /\ ctx[p].op = "create"
       /\ handle' = [handle EXCEPT ![p] = ctx[p].recs]

\* A move that leaves the operation's context alone.
LEMMA GotoMoves ==
    ASSUME OpTypes, NEW p \in Procs, pc[p] # "idle", NEW step, Goto(p, step),
           UNCHANGED <<lock, ctx>>
    PROVE  ctx[p].how \in {"none", "reaped", "vanished"} /\ Moved(p, step, ctx[p].how)
<1>1. ctx[p] \in [op : {"none"} \cup Locking \cup AboutOne, recs : SUBSET Records,
                  next : SUBSET Records, how : {"none", "reaped", "vanished"}]
  BY DEF OpTypes
<1>2. ctx[p] = [op |-> ctx[p].op, recs |-> ctx[p].recs, next |-> ctx[p].next,
               how |-> ctx[p].how]
  BY <1>1, Context
<1>3. ctx = [ctx EXCEPT ![p] = ctx[p]]
  BY DEF OpTypes
<1> QED
  BY <1>1, <1>2, <1>3 DEF Moved, Goto

\* A removal that ends closes the operation or lets it go on to persist.
LEMMA ReapCloses ==
    ASSUME OpTypes, NEW p \in Procs, pc[p] # "idle", NEW result, ReapEnds(p, result)
    PROVE  /\ Closed(p) \/ \E how \in {"none", "reaped", "vanished"} : Moved(p, "persist", how)
           /\ UNCHANGED <<file, handle>>
<1>1. CASE Return(p, "error", {}) \/ Return(p, result, {Rec(p).ino})
  BY <1>1 DEF Return, Goto, Closed, ReapEnds
<1>2. CASE /\ result \in {"reaped", "vanished"} /\ Goto(p, "persist")
           /\ ctx' = [ctx EXCEPT ![p] = [@ EXCEPT !.how = result]] /\ UNCHANGED lock
  <2>1. ctx[p] \in [op : {"none"} \cup Locking \cup AboutOne, recs : SUBSET Records,
                    next : SUBSET Records, how : {"none", "reaped", "vanished"}]
    BY DEF OpTypes
  <2>2. [ctx[p] EXCEPT !.how = result] = [op |-> ctx[p].op, recs |-> ctx[p].recs,
                                         next |-> ctx[p].next, how |-> result]
    BY <2>1
  <2>3. Moved(p, "persist", result)
    BY <1>2, <2>2 DEF Moved, Goto
  <2> QED BY <1>2, <2>3 DEF ReapEnds
<1> QED
  BY <1>1, <1>2 DEF ReapEnds

\* Nothing else happens to an operation, ...
LEMMA Shapes ==
    ASSUME FsTypes, FileTypes, OpTypes, Sited, OneRecord, NEW p \in Procs,
           Operation(p) \/ Die(p)
    PROVE  Shape(p)
<1>1. ASSUME NEW run \in Runs, NEW rev \in Revs, CreateBegin(p, run, rev) PROVE Shape(p)
  <2>1. ASSUME NEW i \in Unborn, i = Min(Unborn), NEW rec, Tracked(run) = {}, Locked(p),
               rec = [name |-> Identity(run, rev), ino |-> Min(Unborn), intact |-> TRUE],
               Start(p, "create", "plan", {rec}, file \cup {rec})
        PROVE  Shape(p)
    <3>1. rec \in Records /\ rec.name[1] = run
      BY <2>1, NewRecord
    <3>2. \A t \in file : t.name # rec.name
      BY <2>1, <3>1 DEF Tracked
    <3> QED BY <2>1, <3>1, <3>2 DEF Shape, Begins
  <2> QED BY <1>1, <2>1 DEF CreateBegin, Shape, Rests, Refuse
<1>2. ASSUME NEW run \in Runs, CleanupBegin(p, run) PROVE Shape(p)
  BY <1>2 DEF CleanupBegin, Tracked, Shape, Begins, Rests, Refuse
<1>3. ASSUME NEW run \in Runs, Reopen(p, run) PROVE Shape(p)
  BY <1>3 DEF Reopen, Shape, Rests, Refuse
<1>4. CASE HandleCleanup(p)
  BY <1>4 DEF HandleCleanup, Shape, Begins
<1>5. CASE PruneBegin(p)
  <2>1. Reconciled \in SUBSET file
    BY DEF Reconciled
  <2> QED BY <1>5, <2>1 DEF PruneBegin, Shape, Begins
<1>6. CASE Preflight(p)
  <2>1. pc[p] # "idle"
    BY <1>6 DEF Preflight
  <2>2. ASSUME Goto(p, "mkdir"), UNCHANGED <<lock, ctx>> PROVE Shape(p)
    BY <2>1, <2>2, GotoMoves DEF Shape, Moves, Steps, Unbound
  <2> QED BY <1>6, <2>2 DEF Preflight, Return, Closed, Goto, Shape
<1>7. CASE MkDir(p)
  <2>1. ASSUME Goto(p, "bind"), UNCHANGED <<lock, ctx>> PROVE Shape(p)
    BY <1>7, <2>1, MkDirMakes, GotoMoves DEF Shape, Moves, Steps, Unbound
  <2> QED BY <1>7, <2>1, MkDirMakes DEF Return, Closed, Goto, Shape
<1>18. CASE BindDir(p)
  BY <1>18, BindTakes DEF Return, Closed, Goto, Shape, Takes
<1>8. CASE InitDetached(p) \/ CopyClosure(p) \/ WriteTree(p)
  <2>1. pc[p] \notin {"idle"} \cup Unbound
    BY <1>8 DEF Unbound, InitDetached, CopyClosure, WriteTree, BuildStep
  <2>2. ASSUME NEW step \in Steps \ {"idle", "plan", "mkdir", "init"}, Goto(p, step),
               UNCHANGED <<lock, ctx>>
        PROVE  Shape(p)
    BY <2>1, <2>2, GotoMoves DEF Shape, Moves
  <2>3. ASSUME NEW result, ReapEnds(p, result) PROVE Shape(p)
    BY <2>1, <2>3, ReapCloses DEF Shape, Moves, Steps
  <2> QED BY <1>8, <2>2, <2>3 DEF InitDetached, CopyClosure, WriteTree, BuildStep,
     Steps, Building, Opening, Holding
<1>9. CASE remove_worktree_dir(p)
  <2>1. pc[p] \notin {"idle"} \cup Unbound
    BY <1>9 DEF Unbound, remove_worktree_dir
  <2>2. ASSUME NEW step \in Steps \ {"idle", "plan", "mkdir", "init"}, Goto(p, step),
               UNCHANGED <<lock, ctx>>
        PROVE  Shape(p)
    BY <2>1, <2>2, GotoMoves DEF Shape, Moves
  <2>3. ASSUME NEW result, ReapEnds(p, result) PROVE Shape(p)
    BY <2>1, <2>3, ReapCloses DEF Shape, Moves, Steps
  <2> QED BY <1>9, <2>2, <2>3 DEF remove_worktree_dir, Steps, Building, Opening, Holding
<1>10. CASE ReapOpen(p)
  <2>1. pc[p] \notin {"idle"} \cup Unbound
    BY <1>10 DEF Unbound, ReapOpen
  <2>2. ASSUME NEW step \in Steps \ {"idle", "plan", "mkdir", "init"}, Goto(p, step),
               UNCHANGED <<lock, ctx>>
        PROVE  Shape(p)
    BY <2>1, <2>2, GotoMoves DEF Shape, Moves
  <2>3. ASSUME NEW result, ReapEnds(p, result) PROVE Shape(p)
    BY <2>1, <2>3, ReapCloses DEF Shape, Moves, Steps
  <2> QED BY <1>10, <2>2, <2>3 DEF ReapOpen, Steps, Building, Opening, Holding
<1>11. CASE ReapRename(p)
  <2>1. pc[p] \notin {"idle"} \cup Unbound
    BY <1>11 DEF Unbound, ReapRename
  <2>2. ASSUME NEW step \in Steps \ {"idle", "plan", "mkdir", "init"}, Goto(p, step),
               UNCHANGED <<lock, ctx>>
        PROVE  Shape(p)
    BY <2>1, <2>2, GotoMoves DEF Shape, Moves
  <2>3. ASSUME NEW result, ReapEnds(p, result) PROVE Shape(p)
    BY <2>1, <2>3, ReapCloses DEF Shape, Moves, Steps
  <2> QED BY <1>11, <2>2, <2>3 DEF ReapRename, Steps, Building, Opening, Holding
<1>12. CASE ReapProve(p)
  <2>1. pc[p] \notin {"idle"} \cup Unbound
    BY <1>12 DEF Unbound, ReapProve
  <2>2. ASSUME NEW step \in Steps \ {"idle", "plan", "mkdir", "init"}, Goto(p, step),
               UNCHANGED <<lock, ctx>>
        PROVE  Shape(p)
    BY <2>1, <2>2, GotoMoves DEF Shape, Moves
  <2>3. ASSUME NEW result, ReapEnds(p, result) PROVE Shape(p)
    BY <2>1, <2>3, ReapCloses DEF Shape, Moves, Steps
  <2> QED BY <1>12, <2>2, <2>3 DEF ReapProve, Steps, Building, Opening, Holding
<1>13. CASE ReapClear(p)
  <2>1. pc[p] \notin {"idle"} \cup Unbound
    BY <1>13 DEF Unbound, ReapClear
  <2>2. ASSUME NEW step \in Steps \ {"idle", "plan", "mkdir", "init"}, Goto(p, step),
               UNCHANGED <<lock, ctx>>
        PROVE  Shape(p)
    BY <2>1, <2>2, GotoMoves DEF Shape, Moves
  <2>3. ASSUME NEW result, ReapEnds(p, result) PROVE Shape(p)
    BY <2>1, <2>3, ReapCloses DEF Shape, Moves, Steps
  <2> QED BY <1>13, <2>2, <2>3 DEF ReapClear, Steps, Building, Opening, Holding
<1>14. CASE ReapRmdir(p)
  <2>1. pc[p] \notin {"idle"} \cup Unbound
    BY <1>14 DEF Unbound, ReapRmdir
  <2>2. ASSUME NEW step \in Steps \ {"idle", "plan", "mkdir", "init"}, Goto(p, step),
               UNCHANGED <<lock, ctx>>
        PROVE  Shape(p)
    BY <2>1, <2>2, GotoMoves DEF Shape, Moves
  <2>3. ASSUME NEW result, ReapEnds(p, result) PROVE Shape(p)
    BY <2>1, <2>3, ReapCloses DEF Shape, Moves, Steps
  <2> QED BY <1>14, <2>2, <2>3 DEF ReapRmdir, Steps, Building, Opening, Holding
<1>15. CASE Persist(p)
  <2>1. ASSUME Goto(p, "list"), UNCHANGED <<lock, ctx>> PROVE Shape(p)
    BY <1>15, <2>1, GotoMoves DEF Unbound, Persist, Shape, Moves, Steps
  <2>2. ASSUME NEW kind, NEW inos, Return(p, kind, inos) PROVE Shape(p)
    BY <2>2 DEF Return, Closed, Goto, Shape
  <2> QED BY <1>15, <2>1, <2>2 DEF Persist
<1>16. CASE PruneLists(p)
  BY <1>16 DEF PruneLists, Return, Closed, Goto, Shape
<1>17. CASE Die(p)
  BY <1>17 DEF Die, Closed, Goto, Shape
<1> QED
  BY <1>1, <1>2, <1>3, <1>4, <1>5, <1>6, <1>7, <1>8, <1>9, <1>10, <1>11, <1>12,
     <1>13, <1>14, <1>15, <1>16, <1>17, <1>18 DEF Operation

\* ... to the file ...
LEMMA FileShapes ==
    ASSUME OpTypes, NEW p \in Procs, Operation(p) \/ Die(p)
    PROVE  FileShape(p)
<1> USE DEF FileShape, OpTypes, Goto
<1>1. ASSUME NEW run \in Runs, NEW rev \in Revs, CreateBegin(p, run, rev) PROVE FileShape(p)
  BY <1>1 DEF CreateBegin, Refuse, ReapEnds, Return, Start
<1>2. ASSUME NEW run \in Runs, CleanupBegin(p, run) PROVE FileShape(p)
  BY <1>2 DEF CleanupBegin, Refuse, ReapEnds, Return, Start
<1>3. ASSUME NEW run \in Runs, Reopen(p, run) PROVE FileShape(p)
  BY <1>3 DEF Reopen, Refuse, ReapEnds, Return, Start
<1>4. CASE HandleCleanup(p)
  BY <1>4 DEF HandleCleanup, Refuse, ReapEnds, Return, Start
<1>5. CASE PruneBegin(p)
  BY <1>5 DEF PruneBegin, Refuse, ReapEnds, Return, Start
<1>6. CASE Preflight(p)
  BY <1>6 DEF Preflight, Refuse, ReapEnds, Return, Start
<1>7. CASE MkDir(p)
  BY <1>7 DEF MkDir, Refuse, ReapEnds, Return, Start
<1>18. CASE BindDir(p)
  BY <1>18 DEF BindDir, Refuse, ReapEnds, Return, Start
<1>8. CASE InitDetached(p) \/ CopyClosure(p) \/ WriteTree(p)
  BY <1>8 DEF InitDetached, CopyClosure, WriteTree, BuildStep
<1>9. CASE remove_worktree_dir(p)
  BY <1>9 DEF remove_worktree_dir, Refuse, ReapEnds, Return, Start
<1>10. CASE ReapOpen(p)
  BY <1>10 DEF ReapOpen, Refuse, ReapEnds, Return, Start
<1>11. CASE ReapRename(p)
  BY <1>11 DEF ReapRename, Refuse, ReapEnds, Return, Start
<1>12. CASE ReapProve(p)
  BY <1>12 DEF ReapProve, Refuse, ReapEnds, Return, Start
<1>13. CASE ReapClear(p)
  BY <1>13 DEF ReapClear, Refuse, ReapEnds, Return, Start
<1>14. CASE ReapRmdir(p)
  BY <1>14 DEF ReapRmdir, Refuse, ReapEnds, Return, Start
<1>15. CASE Persist(p)
  <2>1. ASSUME Goto(p, "list"), UNCHANGED <<lock, ctx>> PROVE Moved(p, "list", ctx[p].how)
    BY <1>15, <2>1, GotoMoves DEF Persist
  <2>2. ASSUME NEW kind, NEW inos, Return(p, kind, inos)
        PROVE  Closed(p) /\ pc'[p] # "list"
    BY <2>2 DEF Return, Closed, Goto
  <2> QED BY <1>15, <2>1, <2>2 DEF Persist
<1>16. CASE PruneLists(p)
  BY <1>16 DEF PruneLists, Refuse, ReapEnds, Return, Start
<1>17. CASE Die(p)
  BY <1>17 DEF Die, Refuse, ReapEnds, Return, Start
<1> QED
  BY <1>1, <1>2, <1>3, <1>4, <1>5, <1>6, <1>7, <1>8, <1>9, <1>10, <1>11, <1>12,
     <1>13, <1>14, <1>15, <1>16, <1>17, <1>18 DEF Operation

\* ... or to the handle of the process.
LEMMA HandleShapes ==
    ASSUME OpTypes, NEW p \in Procs, Operation(p) \/ Die(p)
    PROVE  HandleShape(p)
<1> USE DEF HandleShape
<1>1. ASSUME NEW run \in Runs, NEW rev \in Revs, CreateBegin(p, run, rev) PROVE HandleShape(p)
  BY <1>1 DEF CreateBegin, Refuse, ReapEnds
<1>2. ASSUME NEW run \in Runs, CleanupBegin(p, run) PROVE HandleShape(p)
  BY <1>2 DEF CleanupBegin, Refuse, ReapEnds
<1>3. ASSUME NEW run \in Runs, Reopen(p, run) PROVE HandleShape(p)
  BY <1>3 DEF Reopen, Tracked, Refuse
<1>4. CASE HandleCleanup(p)
  BY <1>4 DEF HandleCleanup, Refuse, ReapEnds
<1>5. CASE PruneBegin(p)
  BY <1>5 DEF PruneBegin, Refuse, ReapEnds
<1>6. CASE Preflight(p)
  BY <1>6 DEF Preflight, Refuse, ReapEnds
<1>7. CASE MkDir(p)
  BY <1>7 DEF MkDir, Refuse, ReapEnds
<1>18. CASE BindDir(p)
  BY <1>18 DEF BindDir, Refuse, ReapEnds
<1>8. CASE InitDetached(p) \/ CopyClosure(p) \/ WriteTree(p)
  BY <1>8 DEF InitDetached, CopyClosure, WriteTree, BuildStep
<1>9. CASE remove_worktree_dir(p)
  BY <1>9 DEF remove_worktree_dir, Refuse, ReapEnds
<1>10. CASE ReapOpen(p)
  BY <1>10 DEF ReapOpen, Refuse, ReapEnds
<1>11. CASE ReapRename(p)
  BY <1>11 DEF ReapRename, Refuse, ReapEnds
<1>12. CASE ReapProve(p)
  BY <1>12 DEF ReapProve, Refuse, ReapEnds
<1>13. CASE ReapClear(p)
  BY <1>13 DEF ReapClear, Refuse, ReapEnds
<1>14. CASE ReapRmdir(p)
  BY <1>14 DEF ReapRmdir, Refuse, ReapEnds
<1>15. CASE Persist(p)
  BY <1>15 DEF Persist, Refuse, ReapEnds
<1>16. CASE PruneLists(p)
  BY <1>16 DEF PruneLists, Refuse, ReapEnds
<1>17. CASE Die(p)
  BY <1>17 DEF Die, Refuse, ReapEnds
<1> QED
  BY <1>1, <1>2, <1>3, <1>4, <1>5, <1>6, <1>7, <1>8, <1>9, <1>10, <1>11, <1>12,
     <1>13, <1>14, <1>15, <1>16, <1>17, <1>18 DEF Operation

-----------------------------------------------------------------------------
(* A step of a process keeps what is said of the operations *)

\* The types of the operations.
LEMMA OpTypesStep ==
    ASSUME NEW p \in Procs, Shape(p), FileTypes, OpTypes
    PROVE  OpTypes'
<1> USE DEF OpTypes, FileTypes, Locking, AboutOne
<1>1. CASE Rests
  BY <1>1 DEF Rests
<1>2. CASE Closed(p)
  BY <1>2 DEF Closed, Idle, Steps
<1>3. CASE Moves(p)
  BY <1>3 DEF Moves, Moved
<1>4. ASSUME NEW r \in Records, Locked(p), \A t \in file : t.name # r.name,
             Start(p, "create", "plan", {r}, file \cup {r})
      PROVE  OpTypes'
  BY <1>4 DEF Start, Goto, Steps
<1>5. ASSUME NEW r \in file, Locked(p), Start(p, "cleanup", "open", {r}, file \ {r})
      PROVE  OpTypes'
  BY <1>5 DEF Start, Goto, Steps, Opening
<1>6. ASSUME handle[p] # {}, UNCHANGED lock, Start(p, "handle", "open", handle[p], {})
      PROVE  OpTypes'
  BY <1>6 DEF Start, Goto, Steps, Opening
<1>7. ASSUME NEW next \in SUBSET file, Locked(p), Start(p, "prune", "persist", {}, next)
      PROVE  OpTypes'
  BY <1>7 DEF Start, Goto, Steps
<1>8. ASSUME Takes(p), NEW i \in Inodes, NEW rec \in Records, Took(p, i, rec)
      PROVE  OpTypes'
  BY <1>8 DEF Takes, Took, Goto, Steps, Building
<1> QED
  BY <1>1, <1>2, <1>3, <1>4, <1>5, <1>6, <1>7, <1>8 DEF Shape, Begins, Takes

\* Where each operation is.
LEMMA SitedStep ==
    ASSUME OpTypes, OneRecord, Sited, NEW p \in Procs, Operation(p) \/ Die(p)
    PROVE  Sited'
<1> USE DEF OpTypes, Sited, OpSteps, Building, Opening, Holding, Locking, AboutOne,
        Return, Goto, Start, Refuse, ReapEnds, Idle
<1>1. ASSUME NEW run \in Runs, NEW rev \in Revs, CreateBegin(p, run, rev) PROVE Sited'
  BY <1>1 DEF CreateBegin
<1>2. ASSUME NEW run \in Runs, CleanupBegin(p, run) PROVE Sited'
  BY <1>2 DEF CleanupBegin
<1>3. ASSUME NEW run \in Runs, Reopen(p, run) PROVE Sited'
  BY <1>3 DEF Reopen
<1>4. CASE HandleCleanup(p)
  BY <1>4 DEF HandleCleanup
<1>5. CASE PruneBegin(p)
  BY <1>5 DEF PruneBegin
<1>6. CASE Preflight(p)
  BY <1>6 DEF Preflight
<1>7. CASE MkDir(p)
  BY <1>7, MkDirMakes
<1>18. CASE BindDir(p)
  <2>1. ASSUME NEW i \in Inodes, NEW rec \in Records, Took(p, i, rec), ctx[p].op = "create"
        PROVE  Sited'
    BY <2>1 DEF Took
  <2> QED BY <1>18, <2>1, BindTakes
<1>8. CASE InitDetached(p) \/ CopyClosure(p) \/ WriteTree(p)
  BY <1>8 DEF InitDetached, CopyClosure, WriteTree, BuildStep
<1>9. CASE remove_worktree_dir(p)
  BY <1>9 DEF remove_worktree_dir
<1>10. CASE ReapOpen(p)
  BY <1>10 DEF ReapOpen
<1>11. CASE ReapRename(p)
  BY <1>11 DEF ReapRename
<1>12. CASE ReapProve(p)
  BY <1>12 DEF ReapProve
<1>13. CASE ReapClear(p)
  BY <1>13 DEF ReapClear
<1>14. CASE ReapRmdir(p)
  BY <1>14 DEF ReapRmdir
<1>15. CASE Persist(p)
  BY <1>15 DEF Persist
<1>16. CASE PruneLists(p)
  BY <1>16 DEF PruneLists
<1>17. CASE Die(p)
  BY <1>17 DEF Die
<1> QED
  BY <1>1, <1>2, <1>3, <1>4, <1>5, <1>6, <1>7, <1>8, <1>9, <1>10, <1>11, <1>12,
     <1>13, <1>14, <1>15, <1>16, <1>17, <1>18 DEF Operation

\* The lock.
LEMMA LockHeldStep ==
    ASSUME NEW p \in Procs, Shape(p), OpTypes, LockHeld
    PROVE  LockHeld'
<1> USE DEF OpTypes, LockHeld, Locking
<1> USE StoreAssumption
<1>1. CASE Rests
  BY <1>1 DEF Rests
<1>2. CASE Closed(p)
  BY <1>2 DEF Closed, Idle, Unlock
<1>3. CASE Moves(p)
  BY <1>3 DEF Moves, Moved
<1>4. ASSUME NEW r \in Records, Locked(p), \A t \in file : t.name # r.name,
             Start(p, "create", "plan", {r}, file \cup {r})
      PROVE  LockHeld'
  BY <1>4 DEF Locked, Start, Goto
<1>5. ASSUME NEW r \in file, Locked(p), Start(p, "cleanup", "open", {r}, file \ {r})
      PROVE  LockHeld'
  BY <1>5 DEF Locked, Start, Goto
<1>6. ASSUME handle[p] # {}, UNCHANGED lock, Start(p, "handle", "open", handle[p], {})
      PROVE  LockHeld'
  BY <1>6 DEF Start, Goto
<1>7. ASSUME NEW next \in SUBSET file, Locked(p), Start(p, "prune", "persist", {}, next)
      PROVE  LockHeld'
  BY <1>7 DEF Locked, Start, Goto
<1>8. ASSUME Takes(p), NEW i \in Inodes, NEW rec \in Records, Took(p, i, rec)
      PROVE  LockHeld'
  BY <1>8 DEF Takes, Took, Goto
<1> QED
  BY <1>1, <1>2, <1>3, <1>4, <1>5, <1>6, <1>7, <1>8 DEF Shape, Begins, Takes

\* The records of the operations.
LEMMA RecordStep ==
    ASSUME NEW p \in Procs, Shape(p), FileTypes, OpTypes, OneRecord
    PROVE  (\A q \in Procs : ctx[q].op \in AboutOne => \E t \in Records : ctx[q].recs = {t})'
<1> USE DEF OpTypes, FileTypes, OneRecord, AboutOne
<1>1. CASE Rests
  BY <1>1 DEF Rests
<1>2. CASE Closed(p)
  BY <1>2 DEF Closed, Idle, Unlock
<1>3. CASE Moves(p)
  BY <1>3 DEF Moves, Moved
<1>4. ASSUME NEW r \in Records, Locked(p), \A t \in file : t.name # r.name,
             Start(p, "create", "plan", {r}, file \cup {r})
      PROVE  (\A q \in Procs : ctx[q].op \in AboutOne => \E t \in Records : ctx[q].recs = {t})'
  BY <1>4 DEF Locked, Start, Goto
<1>5. ASSUME NEW r \in file, Locked(p), Start(p, "cleanup", "open", {r}, file \ {r})
      PROVE  (\A q \in Procs : ctx[q].op \in AboutOne => \E t \in Records : ctx[q].recs = {t})'
  BY <1>5 DEF Locked, Start, Goto
<1>6. ASSUME handle[p] # {}, UNCHANGED lock, Start(p, "handle", "open", handle[p], {})
      PROVE  (\A q \in Procs : ctx[q].op \in AboutOne => \E t \in Records : ctx[q].recs = {t})'
  BY <1>6 DEF Start, Goto
<1>7. ASSUME NEW next \in SUBSET file, Locked(p), Start(p, "prune", "persist", {}, next)
      PROVE  (\A q \in Procs : ctx[q].op \in AboutOne => \E t \in Records : ctx[q].recs = {t})'
  BY <1>7 DEF Locked, Start, Goto
<1>8. ASSUME Takes(p), NEW i \in Inodes, NEW rec \in Records, Took(p, i, rec)
      PROVE  (\A q \in Procs : ctx[q].op \in AboutOne => \E t \in Records : ctx[q].recs = {t})'
  <2>1. ctx'[p].recs = {rec} /\ \A q \in Procs \ {p} : ctx'[q] = ctx[q]
    BY <1>8 DEF Took
  <2> QED BY <2>1
<1> QED
  BY <1>1, <1>2, <1>3, <1>4, <1>5, <1>6, <1>7, <1>8 DEF Shape, Begins, Takes

\* The records of the handles.
LEMMA HandleStep ==
    ASSUME FileTypes, OpTypes, OneRecord, NEW p \in Procs, HandleShape(p)
    PROVE  /\ handle' \in [Procs -> SUBSET Records]
           /\ \A q \in Procs : handle'[q] # {} => \E r \in Records : handle'[q] = {r}
<1>1. handle \in [Procs -> SUBSET Records] /\ file \subseteq Records
  BY DEF FileTypes
<1>2. ASSUME NEW h, h = {} \/ \E r \in Records : h = {r}, handle' = [handle EXCEPT ![p] = h]
      PROVE  /\ handle' \in [Procs -> SUBSET Records]
             /\ \A q \in Procs : handle'[q] # {} => \E r \in Records : handle'[q] = {r}
  BY <1>1, <1>2 DEF OneRecord
<1>3. CASE pc[p] = "persist" /\ ctx[p].op = "create"
           /\ handle' = [handle EXCEPT ![p] = ctx[p].recs]
  BY <1>2, <1>3 DEF OneRecord, AboutOne
<1> QED
  BY <1>1, <1>2, <1>3 DEF HandleShape, OneRecord

\* The state to be written, while the file stays as it is ...
LEMMA FreshStays ==
    ASSUME NEW p \in Procs, Shape(p), FileTypes, OpTypes, Sited, LockHeld,
           Untracked, Fresh, file' = file, pc'[p] # "list"
    PROVE  Fresh'
<1> USE DEF OpTypes, FileTypes, Fresh
<1>1. CASE Rests
  BY <1>1 DEF Rests
<1>2. CASE Closed(p)
  BY <1>2 DEF Closed, Idle, Unlock
<1>3. CASE Moves(p)
  BY <1>3 DEF Moves, Moved, Sited, OpSteps, Building, Opening, Holding
<1>4. ASSUME NEW r \in Records, Locked(p), \A t \in file : t.name # r.name,
             Start(p, "create", "plan", {r}, file \cup {r})
      PROVE  Fresh'
  BY <1>4 DEF Locked, Start, Goto
<1>5. ASSUME NEW r \in file, Locked(p), Start(p, "cleanup", "open", {r}, file \ {r})
      PROVE  Fresh'
  BY <1>5 DEF Locked, Start, Goto
<1>6. ASSUME handle[p] # {}, UNCHANGED lock, Start(p, "handle", "open", handle[p], {})
      PROVE  Fresh'
  BY <1>6 DEF Start, Goto
<1>7. ASSUME NEW next \in SUBSET file, Locked(p), Start(p, "prune", "persist", {}, next)
      PROVE  Fresh'
  BY <1>7 DEF Locked, Start, Goto
<1>8. ASSUME Takes(p), NEW i \in Inodes, NEW rec \in Records, Took(p, i, rec)
      PROVE  Fresh'
  <2>1. ctx[p].next = file \cup {Rec(p)} /\ Rec(p) \notin file
    BY <1>8 DEF Takes, Untracked
  <2>2. ctx'[p].next = file \cup ctx'[p].recs /\ ctx'[p].op = "create" /\ pc'[p] = "init"
    BY <1>8, <2>1 DEF Takes, Took, Goto
  <2>3. \A q \in Procs \ {p} : ctx'[q] = ctx[q] /\ pc'[q] = pc[q]
    BY <1>8 DEF Takes, Took, Goto
  <2> QED BY <2>2, <2>3
<1> QED
  BY <1>1, <1>2, <1>3, <1>4, <1>5, <1>6, <1>7, <1>8 DEF Shape, Begins, Takes

\* ... and when the operation that holds the lock writes it.
LEMMA FreshStep ==
    ASSUME NEW p \in Procs, Shape(p), FileShape(p), FileTypes, OpTypes, Sited, LockHeld,
           Untracked, Fresh
    PROVE  Fresh'
<1>1. CASE file' = file /\ pc'[p] # "list"
  BY <1>1, FreshStays
<1>2. CASE pc[p] = "persist" /\ file' = ctx[p].next
  <2>1. ctx[p].op \in Locking
    BY <1>2 DEF OpTypes, Sited, OpSteps, Building, Opening, Holding, Locking, AboutOne
  <2>2. \A q \in Procs \ {p} : ctx[q].op \notin Locking /\ pc[q] # "list"
    BY <2>1 DEF OpTypes, LockHeld, Sited, OpSteps, Building, Opening, Holding, Locking,
       AboutOne
  <2>3. CASE Closed(p)
    BY <2>2, <2>3 DEF Fresh, Closed, Idle, Locking, OpTypes
  <2>4. CASE ctx[p].op = "prune" /\ Moved(p, "list", ctx[p].how)
    BY <1>2, <2>2, <2>4 DEF Fresh, Moved, Locking, OpTypes
  <2> QED BY <1>1, <2>3, <2>4, FreshStays DEF FileShape
<1> QED
  BY <1>1, <1>2 DEF FileShape

\* The run that is being created, while the file stays as it is ...
LEMMA UntrackedStays ==
    ASSUME NEW p \in Procs, Shape(p), FileTypes, OpTypes, Untracked, file' = file
    PROVE  Untracked'
<1> USE DEF OpTypes, FileTypes, Untracked
<1>1. CASE Rests
  BY <1>1 DEF Rests
<1>2. CASE Closed(p)
  BY <1>2 DEF Closed, Idle, Unlock
<1>3. CASE Moves(p)
  BY <1>3 DEF Moves, Moved
<1>4. ASSUME NEW r \in Records, Locked(p), \A t \in file : t.name # r.name,
             Start(p, "create", "plan", {r}, file \cup {r})
      PROVE  Untracked'
  BY <1>4 DEF Locked, Start, Goto
<1>5. ASSUME NEW r \in file, Locked(p), Start(p, "cleanup", "open", {r}, file \ {r})
      PROVE  Untracked'
  BY <1>5 DEF Locked, Start, Goto
<1>6. ASSUME handle[p] # {}, UNCHANGED lock, Start(p, "handle", "open", handle[p], {})
      PROVE  Untracked'
  BY <1>6 DEF Start, Goto
<1>7. ASSUME NEW next \in SUBSET file, Locked(p), Start(p, "prune", "persist", {}, next)
      PROVE  Untracked'
  BY <1>7 DEF Locked, Start, Goto
<1>8. ASSUME Takes(p), NEW i \in Inodes, NEW rec \in Records, Took(p, i, rec)
      PROVE  Untracked'
  <2>1. ctx'[p].recs = {rec} /\ rec.name = Rec(p).name /\ ctx[p].op = "create"
        /\ ctx[p].recs = {Rec(p)} /\ \A q \in Procs \ {p} : ctx'[q] = ctx[q]
    BY <1>8 DEF Takes, Took
  <2> QED BY <2>1
<1> QED
  BY <1>1, <1>2, <1>3, <1>4, <1>5, <1>6, <1>7, <1>8 DEF Shape, Begins, Takes

\* ... and when the holder of the lock writes it.
LEMMA UntrackedStep ==
    ASSUME NEW p \in Procs, Shape(p), FileShape(p), FileTypes, OpTypes, Sited, LockHeld,
           Untracked
    PROVE  Untracked'
<1>1. CASE file' = file
  BY <1>1, UntrackedStays
<1>2. CASE pc[p] = "persist" /\ (Closed(p) \/ (ctx[p].op = "prune" /\ Moved(p, "list", ctx[p].how)))
  <2>1. ctx[p].op \in Locking
    BY <1>2 DEF OpTypes, Sited, OpSteps, Building, Opening, Holding, Locking, AboutOne
  <2>2. \A q \in Procs \ {p} : ctx[q].op # "create"
    BY <2>1 DEF OpTypes, LockHeld, Locking
  <2> QED BY <1>2, <2>2 DEF Untracked, Closed, Moved, Idle, OpTypes
<1> QED
  BY <1>1, <1>2 DEF FileShape

\* The file has records only.
LEMMA FileTypesStep ==
    ASSUME FileTypes, OpTypes, OneRecord, NEW p \in Procs, FileShape(p), HandleShape(p),
           lock' \in Procs \cup {Nobody}, repo' = repo
    PROVE  FileTypes'
<1>1. file' \subseteq Records
  BY DEF FileTypes, OpTypes, FileShape
<1> QED
  BY <1>1, HandleStep DEF FileTypes

-----------------------------------------------------------------------------
(* What a step of a process does to the directories *)

\* Nothing; the removal may have proven the entry under its quarantine name.
Still(p) ==
    /\ UNCHANGED fsVars
    /\ pc[p] \in Holding <=> pc'[p] \in Holding
    /\ pc'[p] \in {"clear", "rmdir"} =>
          pc[p] = "prove" /\ ctx[p].op \in AboutOne /\ place[Rec(p).ino] = Quarantine(p)
    /\ pc'[p] = "persist" => ctx'[p].op # "create"

\* mkdirat made a directory.
Directory(p) ==
    /\ pc[p] = "mkdir" /\ ctx[p].op = "create" /\ pc'[p] = "bind"
    /\ At(Rec(p).name) = {}
    /\ \E i \in Unborn : Born(i, Rec(p).name, Rec(p).name, "empty")

\* The directory at the path was taken for the one just made.
Taken(p) ==
    /\ pc[p] = "bind" /\ ctx[p].op = "create" /\ pc'[p] = "init"
    /\ \E i \in At(Rec(p).name) : owner' = [owner EXCEPT ![i] = Rec(p).name]
    /\ UNCHANGED <<place, content>>

\* A step of the build wrote to what is at the path.
Built(p) ==
    /\ pc[p] \in Building /\ ctx[p].op = "create" /\ pc'[p] \in Building \cup {"persist"}
    /\ UNCHANGED <<place, owner>>
    /\ \E holds \in {"borrowed", "objects", "whole"} :
         /\ content' = [i \in Inodes |->
               IF i \in At(Rec(p).name) /\ owner[i] # Foreign THEN holds ELSE content[i]]
         /\ pc'[p] = "persist" => holds = "whole"

\* The entry moved to the quarantine name.
Renamed(p) ==
    /\ pc[p] = "rename" /\ pc'[p] = "prove"
    /\ place' = [i \in Inodes |-> IF place[i] = Rec(p).name THEN Quarantine(p) ELSE place[i]]
    /\ UNCHANGED <<owner, content>>

\* The removal ended short; some of the contents may be gone.
Dropped(p) ==
    /\ pc'[p] = "idle" /\ Abandon(p) /\ UNCHANGED owner
    /\ \/ UNCHANGED content
       \/ pc[p] = "clear" /\ content' = [content EXCEPT ![Rec(p).ino] = "part"]

\* The directory was emptied.
Emptied(p) ==
    /\ pc[p] = "clear" /\ pc'[p] = "rmdir"
    /\ content' = [content EXCEPT ![Rec(p).ino] = "empty"]
    /\ UNCHANGED <<place, owner>>

\* An empty directory was unlinked.
Unlinked(p) ==
    /\ pc[p] = "rmdir" /\ pc'[p] \in {"idle", "persist"}
    /\ pc'[p] = "persist" => ctx'[p].op # "create"
    /\ \E i \in At(Quarantine(p)) : content[i] = "empty" /\ place' = [place EXCEPT ![i] = Gone]
    /\ UNCHANGED <<owner, content>>

\* Any of these.
FsShape(p) ==
    \/ Still(p) \/ Directory(p) \/ Taken(p) \/ Built(p) \/ Renamed(p) \/ Dropped(p) \/ Emptied(p)
    \/ Unlinked(p)

\* Nothing else happens to them.
LEMMA FsShapes ==
    ASSUME OpTypes, Sited, OneRecord, NEW p \in Procs, Operation(p) \/ Die(p)
    PROVE  FsShape(p)
<1> USE DEF OpTypes
<1>1. ASSUME NEW run \in Runs, NEW rev \in Revs, CreateBegin(p, run, rev) PROVE FsShape(p)
  BY <1>1 DEF CreateBegin, FsShape, Still, Holding, Building, Opening, Idle, Start,
     Refuse, Return, Goto, fsVars
<1>2. ASSUME NEW run \in Runs, CleanupBegin(p, run) PROVE FsShape(p)
  BY <1>2 DEF CleanupBegin, FsShape, Still, Holding, Building, Opening, Idle, Start,
     Refuse, Return, Goto, fsVars
<1>3. ASSUME NEW run \in Runs, Reopen(p, run) PROVE FsShape(p)
  BY <1>3 DEF Reopen, FsShape, Still, Holding, Building, Opening, Idle, Start, Refuse,
     Return, Goto, fsVars
<1>4. CASE HandleCleanup(p)
  BY <1>4 DEF HandleCleanup, FsShape, Still, Holding, Building, Opening, Idle, Start,
     Refuse, Return, Goto, fsVars
<1>5. CASE PruneBegin(p)
  BY <1>5 DEF PruneBegin, FsShape, Still, Holding, Building, Opening, Idle, Start,
     Refuse, Return, Goto, fsVars
<1>6. CASE Preflight(p)
  BY <1>6 DEF Preflight, FsShape, Still, Holding, Building, Opening, Idle, Start,
     Refuse, Return, Goto, fsVars
<1>7. CASE MkDir(p)
  <2>1. CASE Return(p, "error", {}) /\ UNCHANGED fsVars
    BY <1>7, <2>1, MkDirMakes DEF Return, Goto, FsShape, Still, Holding
  <2>2. CASE Goto(p, "bind")
    BY <1>7, <2>1, <2>2, MkDirMakes DEF Goto, FsShape, Directory
  <2> QED BY <1>7, <2>1, <2>2, MkDirMakes
<1>18. CASE BindDir(p)
  <2>1. CASE Return(p, "error", {}) /\ UNCHANGED fsVars
    BY <1>18, <2>1, BindTakes DEF Return, Goto, FsShape, Still, Holding
  <2>2. ASSUME NEW i \in Inodes, NEW rec \in Records, Took(p, i, rec) PROVE Taken(p)
    BY <1>18, <2>2, BindTakes DEF Took, Goto, Taken
  <2> QED BY <1>18, <2>1, <2>2, BindTakes DEF FsShape
<1>8. CASE InitDetached(p) \/ CopyClosure(p) \/ WriteTree(p)
  <2>1. pc[p] \in Building /\ UNCHANGED <<place, owner, ctx>>
    BY <1>8 DEF InitDetached, CopyClosure, WriteTree, BuildStep, Building
  <2>2. ctx[p].op = "create"
    BY <2>1 DEF Sited, OpSteps, Building, Opening, Holding, Locking, AboutOne
  <2>3. CASE Goto(p, "open") /\ UNCHANGED content
    BY <2>1, <2>3 DEF Goto, FsShape, Still, Holding, Building, fsVars
  <2> QED BY <1>8, <2>1, <2>2, <2>3 DEF InitDetached, CopyClosure, WriteTree, BuildStep,
     Goto, FsShape, Built,
     Building
<1>9. CASE remove_worktree_dir(p)
  BY <1>9 DEF remove_worktree_dir, ReapEnds, FsShape, Still, Holding, Building, Opening,
     Idle, Start, Refuse, Return, Goto, fsVars
<1>10. CASE ReapOpen(p)
  BY <1>10 DEF ReapOpen, ReapEnds, FsShape, Still, Holding, Building, Opening, Idle,
     Start, Refuse, Return, Goto, fsVars
<1>11. CASE ReapRename(p)
  <2>1. CASE (ReapEnds(p, "vanished") \/ ReapEnds(p, "unproven")) /\ UNCHANGED place
    BY <1>11, <2>1 DEF ReapRename, ReapEnds, Goto, Return, FsShape, Still, Holding, fsVars
  <2> QED BY <1>11, <2>1 DEF ReapRename, Goto, FsShape, Renamed
<1>12. CASE ReapProve(p)
  <2>1. CASE verify_fd(Quarantine(p), Rec(p).ino) /\ Goto(p, "clear") /\ UNCHANGED place
    <3>1. ctx[p].op \in AboutOne
      BY <1>12 DEF ReapProve, Sited, OpSteps, Building, Opening, Holding, Locking,
         AboutOne
    <3>2. place[Rec(p).ino] = Quarantine(p)
      BY <2>1 DEF verify_fd, At
    <3> QED BY <1>12, <2>1, <3>1, <3>2 DEF ReapProve, Goto, FsShape, Still, Holding,
       fsVars
  <2> QED BY <1>12, <2>1 DEF ReapProve, ReapEnds, Return, Goto, FsShape, Dropped
<1>13. CASE ReapClear(p)
  BY <1>13 DEF ReapClear, ReapEnds, Return, Goto, FsShape, Dropped, Emptied
<1>14. CASE ReapRmdir(p)
  <2>1. ASSUME NEW result, ReapEnds(p, result)
        PROVE  pc'[p] \in {"idle", "persist"} /\ (pc'[p] = "persist" => ctx'[p].op # "create")
    BY <2>1 DEF ReapEnds, Return, Goto
  <2>2. CASE ReapEnds(p, "io") /\ Abandon(p)
    BY <1>14, <2>2 DEF ReapRmdir, ReapEnds, Return, Goto, FsShape, Dropped
  <2> QED BY <1>14, <2>1, <2>2 DEF ReapRmdir, FsShape, Unlinked
<1>15. CASE Persist(p)
  BY <1>15 DEF Persist, FsShape, Still, Holding, Building, Opening, Idle, Start, Refuse,
     Return, Goto, fsVars
<1>16. CASE PruneLists(p)
  BY <1>16 DEF PruneLists, FsShape, Still, Holding, Building, Opening, Idle, Start,
     Refuse, Return, Goto, fsVars
<1>17. CASE Die(p)
  BY <1>17 DEF Die, Goto, FsShape, Dropped
<1> QED
  BY <1>1, <1>2, <1>3, <1>4, <1>5, <1>6, <1>7, <1>8, <1>9, <1>10, <1>11, <1>12,
     <1>13, <1>14, <1>15, <1>16, <1>17, <1>18 DEF Operation

-----------------------------------------------------------------------------
(* A step of a process keeps what is said of the directories *)

\* Only the process that moves changes place in its operation.
LEMMA Others ==
    ASSUME OpTypes, NEW p \in Procs, Shape(p), NEW q \in Procs, q # p
    PROVE  pc'[q] = pc[q] /\ ctx'[q] = ctx[q]
BY DEF OpTypes, Shape, Rests, Closed, Moves, Moved, Begins, Start, Goto, Takes, Took

\* The process that works on a record works on the one it has.
LEMMA Working ==
    ASSUME OpTypes, Sited, OneRecord, NEW p \in Procs,
           pc[p] \in {"mkdir", "bind"} \cup Building \cup Opening \cup Holding
    PROVE  /\ ctx[p].op \in AboutOne
           /\ Rec(p) \in Records /\ ctx[p].recs = {Rec(p)}
           /\ Rec(p).name \in Names /\ Rec(p).ino \in Inodes
<1>1. ctx[p].op \in AboutOne
  BY DEF OpTypes, Sited, OpSteps, Building, Opening, Holding, Locking, AboutOne
<1>2. Rec(p) \in Records /\ ctx[p].recs = {Rec(p)}
  BY <1>1, RecOfOne
<1> QED
  BY <1>1, <1>2 DEF Records

\* The types of the entries.
LEMMA FsTypesStep ==
    ASSUME NEW p \in Procs, FsShape(p), OpTypes, Sited, OneRecord, FsTypes
    PROVE  FsTypes'
<1> USE DEF FsTypes, InUse, Building, Opening, Holding
<1> USE Places, Working
<1>1. CASE Still(p)
  BY <1>1 DEF Still, fsVars
<1>2. CASE Directory(p)
  BY <1>2 DEF Directory, Born, At, Unborn
<1>8. CASE Taken(p)
  BY <1>8 DEF Taken, At
<1>3. CASE Built(p)
  BY <1>3 DEF Built
<1>4. CASE Renamed(p)
  BY <1>4 DEF Renamed
<1>5. CASE Dropped(p)
  BY <1>5 DEF Dropped, Abandon
<1>6. CASE Emptied(p)
  BY <1>6 DEF Emptied
<1>7. CASE Unlinked(p)
  BY <1>7 DEF Unlinked, At
<1> QED
  BY <1>1, <1>2, <1>3, <1>4, <1>5, <1>6, <1>7, <1>8 DEF FsShape

\* A name has one entry.
LEMMA UniqueStep ==
    ASSUME NEW p \in Procs, FsShape(p), OpTypes, Sited, OneRecord, FsTypes, Unique,
           Quarantined
    PROVE  Unique'
<1> USE DEF FsTypes, Unique, InUse, Quarantined, Building, Opening, Holding
<1> USE Places, Working
<1>1. CASE Still(p)
  BY <1>1 DEF Still, fsVars
<1>2. CASE Directory(p)
  BY <1>2 DEF Directory, Born, At, Unborn
<1>8. CASE Taken(p)
  BY <1>8 DEF Taken, At
<1>3. CASE Built(p)
  BY <1>3 DEF Built
<1>4. CASE Renamed(p)
  BY <1>4 DEF Renamed
<1>5. CASE Dropped(p)
  BY <1>5 DEF Dropped, Abandon
<1>6. CASE Emptied(p)
  BY <1>6 DEF Emptied
<1>7. CASE Unlinked(p)
  BY <1>7 DEF Unlinked, At
<1> QED
  BY <1>1, <1>2, <1>3, <1>4, <1>5, <1>6, <1>7, <1>8 DEF FsShape

\* What was born stays born and the store's stays its own, a link count of zero is final, and no
\* directory comes to a worktree name but at its birth.
LEMMA Lasting ==
    ASSUME NEW p \in Procs, FsShape(p), OpTypes, Sited, OneRecord, FsTypes
    PROVE  \A i \in Inodes :
              /\ place[i] # NotBorn =>
                    place'[i] # NotBorn /\ (owner[i] # Foreign => owner'[i] # Foreign)
              /\ place[i] = Gone => place'[i] = Gone
              /\ place[i] \notin Names \cup {NotBorn} => place'[i] \notin Names
<1> USE DEF FsTypes, InUse, Building, Opening, Holding
<1> USE Places, Working
<1>1. CASE Still(p)
  BY <1>1 DEF Still, fsVars
<1>2. CASE Directory(p)
  BY <1>2 DEF Directory, Born, At, Unborn
<1>8. CASE Taken(p)
  BY <1>8 DEF Taken, At
<1>3. CASE Built(p)
  BY <1>3 DEF Built
<1>4. CASE Renamed(p)
  BY <1>4 DEF Renamed
<1>5. CASE Dropped(p)
  BY <1>5 DEF Dropped, Abandon
<1>6. CASE Emptied(p)
  BY <1>6 DEF Emptied
<1>7. CASE Unlinked(p)
  BY <1>7 DEF Unlinked, At
<1> QED
  BY <1>1, <1>2, <1>3, <1>4, <1>5, <1>6, <1>7, <1>8 DEF FsShape

\* A quarantine name is in use only during a removal.
LEMMA QuarantinedStep ==
    ASSUME NEW p \in Procs, FsShape(p), Shape(p), OpTypes, Sited, OneRecord,
           FsTypes, Unique, Quarantined
    PROVE  Quarantined'
<1> USE DEF FsTypes, Unique, Quarantined, InUse, Building, Opening, Holding
<1> USE Places, Working, Others
<1>1. CASE Still(p)
  BY <1>1 DEF Still, fsVars
<1>2. CASE Directory(p)
  BY <1>2 DEF Directory, Born, At, Unborn
<1>8. CASE Taken(p)
  BY <1>8 DEF Taken, At
<1>3. CASE Built(p)
  BY <1>3 DEF Built
<1>4. CASE Renamed(p)
  BY <1>4 DEF Renamed
<1>5. CASE Dropped(p)
  BY <1>5 DEF Dropped, Abandon
<1>6. CASE Emptied(p)
  BY <1>6 DEF Emptied
<1>7. CASE Unlinked(p)
  BY <1>7 DEF Unlinked, At
<1> QED
  BY <1>1, <1>2, <1>3, <1>4, <1>5, <1>6, <1>7, <1>8 DEF FsShape

\* What the file comes to hold was in it, or is the record of a create that ends.
LEMMA FileGrows ==
    ASSUME NEW p \in Procs, FileShape(p), OpTypes, Sited, Fresh
    PROVE  \/ file' \subseteq file
           \/ /\ pc[p] = "persist" /\ ctx[p].op = "create" /\ Closed(p)
              /\ file' = file \cup ctx[p].recs
<1>1. CASE pc[p] = "persist" /\ file' = ctx[p].next
  <2>1. ctx[p].op \in {"create", "cleanup", "prune"}
    BY <1>1 DEF OpTypes, Sited, OpSteps, Building, Opening, Holding, Locking, AboutOne
  <2> QED BY <1>1, <2>1 DEF Fresh, FileShape
<1> QED
  BY <1>1 DEF FileShape

\* Nobody else creates while the file, or the directory of a create, changes.
LEMMA OneCreates ==
    ASSUME LockHeld, NEW p \in Procs, ctx[p].op = "create", NEW q \in Procs, q # p
    PROVE  ctx[q].op # "create"
BY DEF LockHeld, Locking

\* A record that names a directory born for it goes on doing so.
LEMMA OursStays ==
    ASSUME NEW p \in Procs, FsShape(p), OpTypes, Sited, OneRecord, FsTypes,
           NEW r \in Records, Ours(r)
    PROVE  Ours(r)'
<1>1. r.ino \in Inodes
  BY DEF Records
<1> QED
  BY <1>1, Lasting DEF Ours

\* The records that are known.
LEMMA KnownStep ==
    ASSUME NEW p \in Procs, FsShape(p), Shape(p), FileShape(p), HandleShape(p), OpTypes, Sited,
           OneRecord, FsTypes, FileTypes, Fresh, Known
    PROVE  Known'
<1>1. \A r \in file \cup ctx[p].recs : r \in Records
  BY DEF FileTypes, OpTypes
<1>2. \A r \in file : Ours(r)'
  BY <1>1, OursStays DEF Known
<1>3. pc[p] \notin Unbound => \A r \in ctx[p].recs : Ours(r)'
  BY <1>1, OursStays DEF Known
<1>4. ASSUME NEW r \in file' PROVE Ours(r)'
  BY <1>2, <1>3, FileGrows DEF Unbound
<1>5. ASSUME NEW q \in Procs, NEW r \in handle'[q] PROVE Ours(r)'
  <2>1. r \in handle[q] => Ours(r)'
    BY OursStays DEF Known, FileTypes
  <2>2. handle \in [Procs -> SUBSET Records]
    BY DEF FileTypes
  <2> QED BY <1>2, <1>3, <2>1, <2>2 DEF Unbound, HandleShape
<1>6. ASSUME NEW q \in Procs, q # p, pc'[q] \notin Unbound, NEW r \in ctx'[q].recs
      PROVE  Ours(r)'
  <2>1. pc'[q] = pc[q] /\ ctx'[q] = ctx[q]
    BY <1>6, Others
  <2>2. r \in Records
    BY <2>1 DEF OpTypes
  <2> QED BY <1>6, <2>1, <2>2, OursStays DEF Known
<1>7. ASSUME pc'[p] \notin Unbound, NEW r \in ctx'[p].recs PROVE Ours(r)'
  <2>1. CASE Rests
    BY <1>3, <1>7, <2>1 DEF Rests
  <2>2. CASE Closed(p)
    BY <1>7, <2>2 DEF Closed, Idle, OpTypes
  <2>3. CASE Moves(p)
    BY <1>3, <1>7, <2>3 DEF Moves, Moved, OpTypes
  <2>4. CASE Begins(p)
    <3>1. r \in file \/ r \in handle[p]
      BY <1>7, <2>4 DEF Unbound, Begins, Start, Goto, OpTypes
    <3>2. r \in handle[p] => r \in Records /\ Ours(r)
      BY DEF Known, FileTypes
    <3> QED BY <1>2, <3>1, <3>2, OursStays
  <2>5. CASE Takes(p)
    <3>1. PICK i \in Inodes, rec \in Records : Took(p, i, rec)
      BY <2>5 DEF Takes
    <3>2. r = rec /\ rec.ino = i /\ rec.name = Rec(p).name /\ rec.name \in Names
      BY <1>7, <3>1 DEF Took, OpTypes, Records
    <3>3. place'[i] = rec.name /\ owner'[i] = rec.name
      BY <3>1, <3>2 DEF Took, At, FsTypes
    <3> QED BY <3>2, <3>3, Places DEF Ours
  <2> QED BY <2>1, <2>2, <2>3, <2>4, <2>5 DEF Shape
<1> QED
  BY <1>4, <1>5, <1>6, <1>7 DEF Known

\* No other directory of the store comes to a recorded name, but for a create of that name.
LEMMA OnlyOursStays ==
    ASSUME NEW p \in Procs, FsShape(p), OpTypes, Sited, OneRecord, FsTypes, NEW r
           \in Records, OnlyOurs(r), pc[p] \in {"mkdir", "bind"} => Rec(p).name # r.name
    PROVE  OnlyOurs(r)'
<1> USE DEF FsTypes, OnlyOurs, Records, InUse, Building, Opening, Holding
<1> USE Places, Working
<1>1. CASE Still(p)
  BY <1>1 DEF Still, fsVars
<1>2. CASE Directory(p)
  BY <1>2 DEF Directory, Born, At, Unborn
<1>8. CASE Taken(p)
  BY <1>8 DEF Taken, At
<1>3. CASE Built(p)
  BY <1>3 DEF Built
<1>4. CASE Renamed(p)
  BY <1>4 DEF Renamed
<1>5. CASE Dropped(p)
  BY <1>5 DEF Dropped, Abandon
<1>6. CASE Emptied(p)
  BY <1>6 DEF Emptied
<1>7. CASE Unlinked(p)
  BY <1>7 DEF Unlinked, At
<1> QED
  BY <1>1, <1>2, <1>3, <1>4, <1>5, <1>6, <1>7, <1>8 DEF FsShape

\* The names that are taken.
LEMMA ExclusiveStep ==
    ASSUME NEW p \in Procs, FsShape(p), Shape(p), FileShape(p), OpTypes, Sited, OneRecord, FsTypes,
           FileTypes, Unique, LockHeld, Fresh, Untracked, Exclusive
    PROVE  Exclusive'
<1>1. ASSUME pc[p] \in {"mkdir", "bind"}
      PROVE  ctx[p].op = "create" /\ Rec(p) \in ctx[p].recs
  BY <1>1, Working DEF OpTypes, Sited, OpSteps, Building, Opening, Holding, Locking,
     AboutOne
<1>2. \A r \in file : r \in Records /\ OnlyOurs(r)'
  <2> TAKE r \in file
  <2>1. r \in Records /\ OnlyOurs(r) /\ (pc[p] \in {"mkdir", "bind"} => Rec(p).name # r.name)
    BY <1>1 DEF Exclusive, FileTypes, Untracked
  <2> QED BY <2>1, OnlyOursStays
<1>3. ASSUME ctx[p].op = "create", pc[p] \notin Unbound, NEW r \in ctx[p].recs
      PROVE  OnlyOurs(r)'
  <2>1. r \in Records /\ OnlyOurs(r)
    BY <1>3 DEF Exclusive, OpTypes
  <2> QED BY <1>3, <2>1, OnlyOursStays DEF Unbound
<1>4. ASSUME NEW r \in file' PROVE OnlyOurs(r)'
  BY <1>2, <1>3, FileGrows DEF Unbound
<1>5. ASSUME NEW q \in Procs, q # p, ctx'[q].op = "create", pc'[q] \notin Unbound,
             NEW r \in ctx'[q].recs
      PROVE  OnlyOurs(r)'
  <2>1. pc'[q] = pc[q] /\ ctx'[q] = ctx[q]
    BY <1>5, Others
  <2>2. pc[p] \notin {"mkdir", "bind"}
    BY <1>1, <1>5, <2>1, OneCreates
  <2>3. r \in Records /\ OnlyOurs(r)
    BY <1>5, <2>1 DEF OpTypes, Exclusive
  <2> QED BY <2>2, <2>3, OnlyOursStays
<1>6. ASSUME ctx'[p].op = "create", pc'[p] \notin Unbound, NEW r \in ctx'[p].recs
      PROVE  OnlyOurs(r)'
  <2>1. CASE Rests
    BY <1>3, <1>6, <2>1 DEF Rests
  <2>2. CASE Closed(p)
    BY <1>6, <2>2 DEF Closed, Idle, OpTypes
  <2>3. CASE Moves(p)
    BY <1>3, <1>6, <2>3 DEF Moves, Moved, OpTypes
  <2>4. CASE Begins(p)
    BY <1>6, <2>4 DEF Unbound, Begins, Start, Goto, OpTypes
  <2>5. CASE Takes(p)
    <3>1. PICK i \in Inodes, rec \in Records : Took(p, i, rec)
      BY <2>5 DEF Takes
    <3>2. r = rec /\ rec.ino = i /\ rec.name = Rec(p).name
      BY <1>6, <3>1 DEF Took, OpTypes
    <3>3. \A j \in Inodes : j # i => place'[j] = place[j] /\ place[j] # rec.name
      BY <3>1, <3>2 DEF Took, At, Unique, Records, InUse
    <3> QED BY <3>2, <3>3 DEF OnlyOurs
  <2> QED BY <2>1, <2>2, <2>3, <2>4, <2>5 DEF Shape
<1> QED
  BY <1>4, <1>5, <1>6 DEF Exclusive

\* What is cleared is at no worktree name.
LEMMA ClearedAwayStep ==
    ASSUME NEW p \in Procs, FsShape(p), Shape(p), OpTypes, Sited, OneRecord, FsTypes, Known,
           ClearedAway
    PROVE  ClearedAway'
<1>1. ASSUME NEW q \in Procs, pc[q] \in {"clear", "rmdir"}, NEW r \in ctx[q].recs
      PROVE  place'[r.ino] \notin Names
  <2>1. r \in Records /\ r.ino \in Inodes
    BY DEF OpTypes, Records
  <2>2. place[r.ino] \notin Names \cup {NotBorn}
    BY <1>1 DEF Unbound, ClearedAway, Known, Ours
  <2> QED BY <2>1, <2>2, Lasting
<1>2. ASSUME NEW q \in Procs, q # p, pc'[q] \in {"clear", "rmdir"}, NEW r \in ctx'[q].recs
      PROVE  place'[r.ino] \notin Names
  BY <1>1, <1>2, Others
<1>3. ASSUME pc'[p] \in {"clear", "rmdir"}, NEW r \in ctx'[p].recs
      PROVE  place'[r.ino] \notin Names
  <2>1. ctx'[p].recs = ctx[p].recs
    BY <1>3 DEF Shape, Rests, Closed, Moves, Moved, Begins, Start, Goto, Takes, Took,
       OpTypes
  <2>2. CASE Still(p)
    BY <1>3, <2>1, <2>2, RecOfOne, Places DEF Still, fsVars
  <2>3. CASE Emptied(p)
    BY <1>1, <1>3, <2>1, <2>3 DEF Emptied
  <2> QED BY <1>3, <2>2, <2>3 DEF FsShape, Directory, Taken, Built, Renamed, Dropped, Unlinked,
     Building
<1> QED
  BY <1>2, <1>3 DEF ClearedAway

\* A whole directory at its name stays whole there, but for a create of that name.
LEMMA WholeStays ==
    ASSUME NEW p \in Procs, FsShape(p), OpTypes, Sited, OneRecord, FsTypes, Known,
           ClearedAway, NEW r \in Records, Ours(r), Whole(r), ctx[p].op = "create"
           => Rec(p).name # r.name
    PROVE  Whole(r)'
<1> USE DEF FsTypes, Whole, Ours, Records, InUse, Building, Opening, Holding
<1> USE Places, Working
<1>1. CASE Still(p)
  BY <1>1 DEF Still, fsVars
<1>2. CASE Directory(p)
  BY <1>2 DEF Directory, Born, At, Unborn
<1>8. CASE Taken(p)
  BY <1>8 DEF Taken, At
<1>3. CASE Built(p)
  BY <1>3 DEF Built, At
<1>4. CASE Renamed(p)
  BY <1>4 DEF Renamed
<1>5. CASE Dropped(p)
  <2>1. place'[r.ino] = r.name => place[r.ino] = r.name
    BY <1>5 DEF Dropped, Abandon
  <2>2. pc[p] = "clear" => place[Rec(p).ino] \notin Names
    BY DEF ClearedAway
  <2> QED BY <1>5, <2>1, <2>2 DEF Dropped
<1>6. CASE Emptied(p)
  BY <1>6 DEF Emptied, ClearedAway
<1>7. CASE Unlinked(p)
  BY <1>7 DEF Unlinked, At
<1> QED
  BY <1>1, <1>2, <1>3, <1>4, <1>5, <1>6, <1>7, <1>8 DEF FsShape

\* What is recorded is whole.
LEMMA WholesStep ==
    ASSUME NEW p \in Procs, FsShape(p), Shape(p), FileShape(p), OpTypes, Sited, OneRecord, FsTypes,
           FileTypes, LockHeld, Fresh, Untracked, Known, ClearedAway, Wholes
    PROVE  Wholes'
<1>1. ASSUME ctx[p].op = "create" PROVE Rec(p) \in ctx[p].recs /\ Rec(p) \in Records
  BY <1>1, RecOfOne DEF AboutOne
<1>2. \A r \in file : Whole(r)'
  <2> TAKE r \in file
  <2>1. r \in Records /\ Ours(r) /\ Whole(r) /\ (ctx[p].op = "create" => Rec(p).name # r.name)
    BY <1>1 DEF Wholes, Known, FileTypes, Untracked
  <2> QED BY <2>1, WholeStays
<1>3. ASSUME ctx[p].op = "create", pc[p] = "persist", NEW r \in ctx[p].recs, Closed(p)
      PROVE  Whole(r)'
  <2>1. r \in Records /\ Whole(r)
    BY <1>3 DEF Wholes, OpTypes
  <2>2. UNCHANGED fsVars \/ (Dropped(p) /\ UNCHANGED content)
    <3>1. Still(p) \/ Dropped(p)
      BY <1>3 DEF FsShape, Directory, Taken, Built, Renamed, Emptied, Unlinked, Building
    <3>2. Dropped(p) => UNCHANGED content
      BY <1>3 DEF Dropped
    <3>3. Still(p) => UNCHANGED fsVars
      BY DEF Still
    <3> QED BY <3>1, <3>2, <3>3
  <2>3. r.name \in Names /\ r.ino \in Inodes
    BY <2>1 DEF Records
  <2> QED BY <2>1, <2>2, <2>3, Places DEF Whole, Dropped, Abandon, fsVars
<1>4. ASSUME NEW r \in file' PROVE Whole(r)'
  BY <1>2, <1>3, FileGrows
<1>5. ASSUME NEW q \in Procs, q # p, ctx'[q].op = "create", pc'[q] = "persist",
             NEW r \in ctx'[q].recs
      PROVE  Whole(r)'
  <2>1. pc'[q] = pc[q] /\ ctx'[q] = ctx[q]
    BY <1>5, Others
  <2>2. ctx[p].op # "create"
    BY <1>5, <2>1, OneCreates
  <2>3. r \in Records /\ Whole(r) /\ Ours(r)
    BY <1>5, <2>1 DEF Unbound, OpTypes, Wholes, Known
  <2> QED BY <2>2, <2>3, WholeStays
<1>6. ASSUME ctx'[p].op = "create", pc'[p] = "persist", NEW r \in ctx'[p].recs
      PROVE  Whole(r)'
  <2>1. Built(p)
    BY <1>6 DEF FsShape, Still, Directory, Taken, Renamed, Dropped, Emptied, Unlinked
  <2>2. Moves(p)
    BY <1>6, <2>1 DEF Built, Shape, Rests, Closed, Begins, Start, Goto, Takes, Took,
       OpTypes,
       Building
  <2>3. ctx'[p].recs = ctx[p].recs
    BY <2>2 DEF Moves, Moved, OpTypes
  <2>4. r = Rec(p) /\ r \in Records
    BY <1>6, <2>1, <2>3, Working DEF Built
  <2>5. Ours(r) /\ r.ino \in Inodes
    BY <1>6, <2>1, <2>3, <2>4 DEF Unbound, Known, Built, Building, Records
  <2> QED BY <1>6, <2>1, <2>4, <2>5 DEF Built, Whole, Ours, At
<1> QED
  BY <1>4, <1>5, <1>6 DEF Wholes

\* What another process planted.
LEMMA ForeignKeptStep ==
    ASSUME NEW p \in Procs, FsShape(p), OpTypes, Sited, OneRecord, FsTypes, Known,
           ForeignKept
    PROVE  ForeignKept'
<1> USE DEF FsTypes, ForeignKept, InUse, Building, Opening, Holding
<1> USE Places, Working
<1>0. pc[p] \in Holding => owner[Rec(p).ino] # Foreign /\ place[Rec(p).ino] # NotBorn
  BY DEF Unbound, Known, Ours
<1>1. CASE Still(p)
  BY <1>1 DEF Still, fsVars
<1>2. CASE Directory(p)
  BY <1>2 DEF Directory, Born, At, Unborn
<1>8. CASE Taken(p)
  BY <1>8 DEF Taken, At
<1>3. CASE Built(p)
  BY <1>3 DEF Built, At
<1>4. CASE Renamed(p)
  BY <1>4 DEF Renamed
<1>5. CASE Dropped(p)
  BY <1>0, <1>5 DEF Dropped, Abandon
<1>6. CASE Emptied(p)
  BY <1>0, <1>6 DEF Emptied
<1>7. CASE Unlinked(p)
  BY <1>7 DEF Unlinked, At
<1> QED
  BY <1>1, <1>2, <1>3, <1>4, <1>5, <1>6, <1>7, <1>8 DEF FsShape

-----------------------------------------------------------------------------
(* What an operation says *)

\* A removal counts as made only when the link count of the recorded directory is
\* zero, and is reported with that directory.
SaysReaped(p) ==
    /\ ctx'[p].how = "reaped" =>
          /\ ctx'[p].recs = ctx[p].recs
          /\ ctx[p].how = "reaped" \/ (\A r \in ctx[p].recs : place'[r.ino] = Gone)
    /\ answer'.kind = "reaped" =>
          \/ answer' = answer
          \/ /\ answer'.inos \subseteq {r.ino : r \in ctx[p].recs}
             /\ ctx[p].how = "reaped" \/ (\A r \in ctx[p].recs : place'[r.ino] = Gone)

\* That is so of every step.
LEMMA SaysReapedStep ==
    ASSUME OpTypes, Sited, OneRecord, FsTypes, NEW p \in Procs, Operation(p) \/
           Die(p)
    PROVE  SaysReaped(p)
<1> USE DEF SaysReaped, OpTypes, Return, Start, Goto, Refuse, Idle, Silent
<1>1. ASSUME NEW run \in Runs, NEW rev \in Revs, CreateBegin(p, run, rev) PROVE SaysReaped(p)
  BY <1>1 DEF CreateBegin
<1>2. ASSUME NEW run \in Runs, CleanupBegin(p, run) PROVE SaysReaped(p)
  BY <1>2 DEF CleanupBegin
<1>3. ASSUME NEW run \in Runs, Reopen(p, run) PROVE SaysReaped(p)
  BY <1>3 DEF Reopen
<1>4. CASE HandleCleanup(p)
  BY <1>4 DEF HandleCleanup
<1>5. CASE PruneBegin(p)
  BY <1>5 DEF PruneBegin
<1>6. CASE Preflight(p)
  BY <1>6 DEF Preflight
<1>7. CASE MkDir(p)
  BY <1>7, MkDirMakes
<1>18. CASE BindDir(p)
  BY <1>18, BindTakes DEF Took
<1>8. CASE InitDetached(p) \/ CopyClosure(p) \/ WriteTree(p)
  BY <1>8 DEF InitDetached, CopyClosure, WriteTree, BuildStep
<1>9. CASE remove_worktree_dir(p)
  <2>1. ASSUME NEW result \in {"vanished", "unproven", "io"}, ReapEnds(p, result)
        PROVE  SaysReaped(p)
    BY <2>1 DEF ReapEnds
  <2> QED BY <1>9, <2>1 DEF remove_worktree_dir
<1>10. CASE ReapOpen(p)
  <2>1. ASSUME NEW result \in {"vanished", "unproven", "io"}, ReapEnds(p, result)
        PROVE  SaysReaped(p)
    BY <2>1 DEF ReapEnds
  <2> QED BY <1>10, <2>1 DEF ReapOpen
<1>11. CASE ReapRename(p)
  <2>1. ASSUME NEW result \in {"vanished", "unproven", "io"}, ReapEnds(p, result)
        PROVE  SaysReaped(p)
    BY <2>1 DEF ReapEnds
  <2> QED BY <1>11, <2>1 DEF ReapRename
<1>12. CASE ReapProve(p)
  <2>1. ASSUME NEW result \in {"vanished", "unproven", "io"}, ReapEnds(p, result)
        PROVE  SaysReaped(p)
    BY <2>1 DEF ReapEnds
  <2> QED BY <1>12, <2>1 DEF ReapProve
<1>13. CASE ReapClear(p)
  <2>1. ASSUME NEW result \in {"vanished", "unproven", "io"}, ReapEnds(p, result)
        PROVE  SaysReaped(p)
    BY <2>1 DEF ReapEnds
  <2> QED BY <1>13, <2>1 DEF ReapClear
<1>14. CASE ReapRmdir(p)
  <2>1. ctx[p].recs = {Rec(p)}
    BY <1>14, Working DEF ReapRmdir, Holding
  <2>2. ASSUME NEW result, ReapEnds(p, result), result = "reaped" => place'[Rec(p).ino] = Gone
        PROVE  SaysReaped(p)
    BY <2>1, <2>2 DEF ReapEnds
  <2>3. PICK result : ReapEnds(p, result) /\ (result = "reaped" => place'[Rec(p).ino] = Gone)
    <3>1. CASE ReapEnds(p, "io")
      BY <3>1
    <3> DEFINE res == IF place'[Rec(p).ino] = Gone THEN "reaped" ELSE "unproven"
    <3>2. CASE ReapEnds(p, res)
      BY <3>2
    <3> QED BY <1>14, <3>1, <3>2 DEF ReapRmdir
  <2> QED BY <2>2, <2>3
<1>15. CASE Persist(p)
  <2>1. ctx[p].op \in AboutOne => ctx[p].recs = {Rec(p)}
    BY RecOfOne
  <2> QED BY <1>15, <2>1 DEF Persist, AboutOne
<1>16. CASE PruneLists(p)
  BY <1>16 DEF PruneLists
<1>17. CASE Die(p)
  BY <1>17 DEF Die
<1> QED
  BY <1>1, <1>2, <1>3, <1>4, <1>5, <1>6, <1>7, <1>8, <1>9, <1>10, <1>11, <1>12,
     <1>13, <1>14, <1>15, <1>16, <1>17, <1>18 DEF Operation

\* A reported removal was made.
LEMMA ReapedStep ==
    ASSUME NEW p \in Procs, FsShape(p), Shape(p), SaysReaped(p), OpTypes, Sited, OneRecord, FsTypes,
           AnswerTypes, Reaped, RemovalProven
    PROVE  Reaped' /\ RemovalProven'
<1>1. ASSUME NEW q \in Procs, NEW r \in ctx[q].recs, ctx[q].how = "reaped"
      PROVE  place'[r.ino] = Gone
  <2>1. r.ino \in Inodes
    BY DEF OpTypes, Records
  <2> QED BY <1>1, <2>1, Lasting DEF Reaped
<1>2. ASSUME NEW q \in Procs, q # p, NEW r \in ctx'[q].recs, ctx'[q].how = "reaped"
      PROVE  place'[r.ino] = Gone
  BY <1>1, <1>2, Others
<1>3. ASSUME NEW r \in ctx'[p].recs, ctx'[p].how = "reaped" PROVE place'[r.ino] = Gone
  BY <1>1, <1>3 DEF SaysReaped
<1>4. ASSUME answer'.kind = "reaped", NEW i \in answer'.inos PROVE place'[i] = Gone
  <2>1. CASE answer' = answer
    <3>1. i \in Inodes /\ place[i] = Gone
      BY <1>4, <2>1 DEF RemovalProven, AnswerTypes
    <3> QED BY <3>1, Lasting
  <2>2. CASE /\ answer'.inos \subseteq {r.ino : r \in ctx[p].recs}
             /\ ctx[p].how = "reaped" \/ (\A r \in ctx[p].recs : place'[r.ino] = Gone)
    BY <1>1, <1>4, <2>2
  <2> QED BY <1>4, <2>1, <2>2 DEF SaysReaped
<1> QED
  BY <1>2, <1>3, <1>4 DEF Reaped, RemovalProven

\* The types of what is said.
LEMMA AnswerTypesStep ==
    ASSUME OpTypes, Sited, OneRecord, FsTypes, FileTypes, AnswerTypes, NEW p \in
           Procs, Operation(p) \/ Die(p)
    PROVE  AnswerTypes'
<1> USE DEF AnswerTypes, Answers, Return, Start, Refuse, Silent
<1>1. ASSUME NEW run \in Runs, NEW rev \in Revs, CreateBegin(p, run, rev) PROVE AnswerTypes'
  BY <1>1 DEF CreateBegin
<1>2. ASSUME NEW run \in Runs, CleanupBegin(p, run) PROVE AnswerTypes'
  BY <1>2 DEF CleanupBegin
<1>3. ASSUME NEW run \in Runs, Reopen(p, run) PROVE AnswerTypes'
  <2>1. \A r \in file : r.ino \in Inodes
    BY DEF FileTypes, Records
  <2> QED BY <1>3, <2>1 DEF Reopen, Tracked
<1>4. CASE HandleCleanup(p)
  BY <1>4 DEF HandleCleanup
<1>5. CASE PruneBegin(p)
  BY <1>5 DEF PruneBegin
<1>6. CASE Preflight(p)
  BY <1>6 DEF Preflight
<1>7. CASE MkDir(p)
  BY <1>7, MkDirMakes
<1>18. CASE BindDir(p)
  BY <1>18, BindTakes DEF Took
<1>8. CASE InitDetached(p) \/ CopyClosure(p) \/ WriteTree(p)
  BY <1>8 DEF InitDetached, CopyClosure, WriteTree, BuildStep
<1>9. CASE remove_worktree_dir(p)
  <2>1. Rec(p).ino \in Inodes
    BY <1>9, Working DEF remove_worktree_dir, Opening, Holding
  <2>2. ASSUME NEW result \in {"reaped", "vanished", "unproven", "io"}, ReapEnds(p, result)
        PROVE  AnswerTypes'
    BY <2>1, <2>2 DEF ReapEnds
  <2> QED BY <1>9, <2>2 DEF remove_worktree_dir
<1>10. CASE ReapOpen(p)
  <2>1. Rec(p).ino \in Inodes
    BY <1>10, Working DEF ReapOpen, Opening, Holding
  <2>2. ASSUME NEW result \in {"reaped", "vanished", "unproven", "io"}, ReapEnds(p, result)
        PROVE  AnswerTypes'
    BY <2>1, <2>2 DEF ReapEnds
  <2> QED BY <1>10, <2>2 DEF ReapOpen
<1>11. CASE ReapRename(p)
  <2>1. Rec(p).ino \in Inodes
    BY <1>11, Working DEF ReapRename, Opening, Holding
  <2>2. ASSUME NEW result \in {"reaped", "vanished", "unproven", "io"}, ReapEnds(p, result)
        PROVE  AnswerTypes'
    BY <2>1, <2>2 DEF ReapEnds
  <2> QED BY <1>11, <2>2 DEF ReapRename
<1>12. CASE ReapProve(p)
  <2>1. Rec(p).ino \in Inodes
    BY <1>12, Working DEF ReapProve, Opening, Holding
  <2>2. ASSUME NEW result \in {"reaped", "vanished", "unproven", "io"}, ReapEnds(p, result)
        PROVE  AnswerTypes'
    BY <2>1, <2>2 DEF ReapEnds
  <2> QED BY <1>12, <2>2 DEF ReapProve
<1>13. CASE ReapClear(p)
  <2>1. Rec(p).ino \in Inodes
    BY <1>13, Working DEF ReapClear, Opening, Holding
  <2>2. ASSUME NEW result \in {"reaped", "vanished", "unproven", "io"}, ReapEnds(p, result)
        PROVE  AnswerTypes'
    BY <2>1, <2>2 DEF ReapEnds
  <2> QED BY <1>13, <2>2 DEF ReapClear
<1>14. CASE ReapRmdir(p)
  <2>1. Rec(p).ino \in Inodes
    BY <1>14, Working DEF ReapRmdir, Opening, Holding
  <2>2. ASSUME NEW result \in {"reaped", "vanished", "unproven", "io"}, ReapEnds(p, result)
        PROVE  AnswerTypes'
    BY <2>1, <2>2 DEF ReapEnds
  <2> DEFINE res == IF place'[Rec(p).ino] = Gone THEN "reaped" ELSE "unproven"
  <2>3. res \in {"reaped", "vanished", "unproven", "io"}
    OBVIOUS
  <2>4. ReapEnds(p, res) \/ ReapEnds(p, "io")
    BY <1>14 DEF ReapRmdir
  <2> HIDE DEF res
  <2> QED BY <2>2, <2>3, <2>4
<1>15. CASE Persist(p)
  <2>1. ctx[p].op \in AboutOne => Rec(p).ino \in Inodes
    BY RecOfOne DEF Records
  <2>2. ctx[p].how \in Answers
    BY DEF OpTypes, Answers
  <2> QED BY <1>15, <2>1, <2>2 DEF Persist, AboutOne
<1>16. CASE PruneLists(p)
  BY <1>16 DEF PruneLists, unreferenced_dirs
<1>17. CASE Die(p)
  BY <1>17 DEF Die
<1> QED
  BY <1>1, <1>2, <1>3, <1>4, <1>5, <1>6, <1>7, <1>8, <1>9, <1>10, <1>11, <1>12,
     <1>13, <1>14, <1>15, <1>16, <1>17, <1>18 DEF Operation

\* A report of a prune is not left once the lock is taken again.
LEMMA ReportsStep ==
    ASSUME OpTypes, Sited, OneRecord, FsTypes, FileTypes, LockHeld, Reports, NEW p
           \in Procs, Operation(p) \/ Die(p)
    PROVE  Reports'
<1> USE DEF Reports, Return, Start, Refuse, Silent
<1>1. ASSUME NEW run \in Runs, NEW rev \in Revs, CreateBegin(p, run, rev) PROVE Reports'
  BY <1>1 DEF CreateBegin
<1>2. ASSUME NEW run \in Runs, CleanupBegin(p, run) PROVE Reports'
  BY <1>2 DEF CleanupBegin
<1>3. ASSUME NEW run \in Runs, Reopen(p, run) PROVE Reports'
  BY <1>3 DEF Reopen
<1>4. CASE HandleCleanup(p)
  BY <1>4 DEF HandleCleanup
<1>5. CASE PruneBegin(p)
  BY <1>5 DEF PruneBegin
<1>6. CASE Preflight(p)
  BY <1>6 DEF Preflight
<1>7. CASE MkDir(p)
  BY <1>7, MkDirMakes
<1>18. CASE BindDir(p)
  BY <1>18, BindTakes DEF Took
<1>8. CASE InitDetached(p) \/ CopyClosure(p) \/ WriteTree(p)
  BY <1>8 DEF InitDetached, CopyClosure, WriteTree, BuildStep
<1>9. CASE remove_worktree_dir(p)
  <2>1. ASSUME NEW result, result # "listed", ReapEnds(p, result) PROVE Reports'
    BY <2>1 DEF ReapEnds, Unlock
  <2> QED BY <1>9, <2>1 DEF remove_worktree_dir
<1>10. CASE ReapOpen(p)
  <2>1. ASSUME NEW result, result # "listed", ReapEnds(p, result) PROVE Reports'
    BY <2>1 DEF ReapEnds, Unlock
  <2> QED BY <1>10, <2>1 DEF ReapOpen
<1>11. CASE ReapRename(p)
  <2>1. ASSUME NEW result, result # "listed", ReapEnds(p, result) PROVE Reports'
    BY <2>1 DEF ReapEnds, Unlock
  <2> QED BY <1>11, <2>1 DEF ReapRename
<1>12. CASE ReapProve(p)
  <2>1. ASSUME NEW result, result # "listed", ReapEnds(p, result) PROVE Reports'
    BY <2>1 DEF ReapEnds, Unlock
  <2> QED BY <1>12, <2>1 DEF ReapProve
<1>13. CASE ReapClear(p)
  <2>1. ASSUME NEW result, result # "listed", ReapEnds(p, result) PROVE Reports'
    BY <2>1 DEF ReapEnds, Unlock
  <2> QED BY <1>13, <2>1 DEF ReapClear
<1>14. CASE ReapRmdir(p)
  <2>1. ASSUME NEW result, result # "listed", ReapEnds(p, result) PROVE Reports'
    BY <2>1 DEF ReapEnds, Unlock
  <2> DEFINE res == IF place'[Rec(p).ino] = Gone THEN "reaped" ELSE "unproven"
  <2>2. res # "listed"
    OBVIOUS
  <2>3. ReapEnds(p, res) \/ ReapEnds(p, "io")
    BY <1>14 DEF ReapRmdir
  <2> HIDE DEF res
  <2> QED BY <2>1, <2>2, <2>3
<1>15. CASE Persist(p)
  <2>1. ctx[p].how # "listed"
    BY DEF OpTypes
  <2> QED BY <1>15, <2>1 DEF Persist
<1>16. CASE PruneLists(p)
  <2>1. lock = p
    BY <1>16 DEF PruneLists, OpTypes, Sited, OpSteps, Building, Opening, Holding,
       Locking, AboutOne,
       LockHeld
  <2> QED BY <1>16, <2>1 DEF PruneLists, Unlock
<1>17. CASE Die(p)
  BY <1>17 DEF Die
<1> QED
  BY <1>1, <1>2, <1>3, <1>4, <1>5, <1>6, <1>7, <1>8, <1>9, <1>10, <1>11, <1>12,
     <1>13, <1>14, <1>15, <1>16, <1>17, <1>18 DEF Operation

\* The lock is held by a process or by nobody, and nobody but the environment moves the
\* repository.
LEMMA LockTypes ==
    ASSUME lock \in Procs \cup {Nobody}, NEW p \in Procs, Operation(p) \/ Die(p)
    PROVE  lock' \in Procs \cup {Nobody} /\ repo' = repo
<1> USE DEF Return, Start, Refuse, Unlock, Locked, ReapEnds, envVars
<1>1. ASSUME NEW run \in Runs, NEW rev \in Revs, CreateBegin(p, run, rev)
      PROVE  lock' \in Procs \cup {Nobody} /\ repo' = repo
  BY <1>1 DEF CreateBegin
<1>2. ASSUME NEW run \in Runs, CleanupBegin(p, run)
      PROVE  lock' \in Procs \cup {Nobody} /\ repo' = repo
  BY <1>2 DEF CleanupBegin
<1>3. ASSUME NEW run \in Runs, Reopen(p, run)
      PROVE  lock' \in Procs \cup {Nobody} /\ repo' = repo
  BY <1>3 DEF Reopen
<1>4. CASE HandleCleanup(p)
  BY <1>4 DEF HandleCleanup
<1>5. CASE PruneBegin(p)
  BY <1>5 DEF PruneBegin
<1>6. CASE Preflight(p)
  BY <1>6 DEF Preflight
<1>7. CASE MkDir(p)
  BY <1>7 DEF MkDir
<1>18. CASE BindDir(p)
  BY <1>18 DEF BindDir
<1>8. CASE InitDetached(p) \/ CopyClosure(p) \/ WriteTree(p)
  BY <1>8 DEF InitDetached, CopyClosure, WriteTree, BuildStep
<1>9. CASE remove_worktree_dir(p)
  BY <1>9 DEF remove_worktree_dir
<1>10. CASE ReapOpen(p)
  BY <1>10 DEF ReapOpen
<1>11. CASE ReapRename(p)
  BY <1>11 DEF ReapRename
<1>12. CASE ReapProve(p)
  BY <1>12 DEF ReapProve
<1>13. CASE ReapClear(p)
  BY <1>13 DEF ReapClear
<1>14. CASE ReapRmdir(p)
  <2>1. ASSUME NEW result, ReapEnds(p, result)
        PROVE  lock' \in Procs \cup {Nobody} /\ repo' = repo
    BY <2>1
  <2> QED BY <1>14, <2>1 DEF ReapRmdir
<1>15. CASE Persist(p)
  BY <1>15 DEF Persist
<1>16. CASE PruneLists(p)
  BY <1>16 DEF PruneLists
<1>17. CASE Die(p)
  BY <1>17 DEF Die
<1> QED
  BY <1>1, <1>2, <1>3, <1>4, <1>5, <1>6, <1>7, <1>8, <1>9, <1>10, <1>11, <1>12,
     <1>13, <1>14, <1>15, <1>16, <1>17, <1>18 DEF Operation

-----------------------------------------------------------------------------
(* Every step of a process keeps the invariant *)

\* A step of an operation, or a death.
LEMMA ProcessNext ==
    ASSUME Inv, NEW p \in Procs, Operation(p) \/ Die(p)
    PROVE  Inv'
<1> USE DEF Inv
<1>1. Shape(p) /\ FileShape(p) /\ HandleShape(p) /\ FsShape(p)
  BY Shapes, FileShapes, HandleShapes, FsShapes
<1>2. lock' \in Procs \cup {Nobody} /\ repo' = repo
  BY LockTypes DEF FileTypes
<1>3. FsTypes' /\ FileTypes' /\ OpTypes' /\ AnswerTypes'
  BY <1>1, <1>2, FsTypesStep, FileTypesStep, OpTypesStep, AnswerTypesStep
<1>4. Unique' /\ Quarantined'
  BY <1>1, UniqueStep, QuarantinedStep
<1>5. Sited' /\ LockHeld'
  BY <1>1, SitedStep, LockHeldStep
<1>6. OneRecord'
  BY <1>1, RecordStep, HandleStep DEF OneRecord
<1>7. Fresh' /\ Untracked'
  BY <1>1, FreshStep, UntrackedStep
<1>8. Known' /\ Exclusive'
  BY <1>1, KnownStep, ExclusiveStep
<1>9. Wholes' /\ ClearedAway'
  BY <1>1, WholesStep, ClearedAwayStep
<1>10. Reaped' /\ RemovalProven'
  BY <1>1, SaysReapedStep, ReapedStep
<1>11. ForeignKept' /\ Reports'
  BY <1>1, ForeignKeptStep, ReportsStep
<1> QED
  BY <1>3, <1>4, <1>5, <1>6, <1>7, <1>8, <1>9, <1>10, <1>11

-----------------------------------------------------------------------------
(* The environment *)

\* What another process does to the entries: one leaves the root, or one that the
\* store did not make appears, perhaps in the place of another.
LEMMA Meddled ==
    ASSUME Inv, MoveAway \/ Swap
    PROVE  /\ FsTypes' /\ Unique' /\ Quarantined' /\ ForeignKept'
           /\ \A i \in Inodes :
                /\ place[i] # NotBorn =>
                      /\ place'[i] \in {place[i], Away, Gone}
                      /\ owner'[i] = owner[i] /\ content'[i] = content[i]
                /\ place[i] = NotBorn /\ place'[i] # NotBorn => owner'[i] = Foreign
                /\ place[i] = Gone => place'[i] = Gone
<1> USE Places DEF Inv, FsTypes, Unique, Quarantined, ForeignKept, InUse, Meddle, procVars
<1>1. CASE MoveAway
  BY <1>1 DEF MoveAway, InRoot
<1>2. CASE Swap
  <2>1. PICK i \in Unborn, n \in Names \cup {q \in InUse : At(q) # {}},
             what \in {"empty", "whole"} :
           /\ place' = [j \in Inodes |-> IF j = i THEN n
                                         ELSE IF place[j] = n THEN Away ELSE place[j]]
           /\ owner' = [owner EXCEPT ![i] = Foreign]
           /\ content' = [content EXCEPT ![i] = what]
    BY <1>2, ZenonT(40) DEF Swap
  <2>2. n \in InUse /\ pc' = pc /\ i \in Inodes /\ place[i] = NotBorn
    BY <1>2, <2>1 DEF Swap, Unborn
  <2>3. \A p \in Procs : n = Quarantine(p) => \E j \in Inodes : place[j] = n
    BY <2>1 DEF At
  <2>4. FsTypes'
    BY <2>1, <2>2
  <2>5. Unique'
    BY <2>1, <2>2
  <2>6. Quarantined'
    BY <2>1, <2>2, <2>3
  <2>7. ForeignKept'
    BY <2>1, <2>2
  <2>8. ASSUME NEW j \in Inodes
        PROVE  /\ place[j] # NotBorn =>
                      /\ place'[j] \in {place[j], Away, Gone}
                      /\ owner'[j] = owner[j] /\ content'[j] = content[j]
               /\ place[j] = NotBorn /\ place'[j] # NotBorn => owner'[j] = Foreign
               /\ place[j] = Gone => place'[j] = Gone
    BY <2>1, <2>2
  <2> QED BY <2>4, <2>5, <2>6, <2>7, <2>8
<1> QED
  BY <1>1, <1>2

\* The invariant goes on: no record is of a foreign directory.
LEMMA MeddledNext ==
    ASSUME Inv, MoveAway \/ Swap
    PROVE  Inv'
<1> USE DEF Inv
<1>1. UNCHANGED <<file, procVars, repo>>
  BY DEF MoveAway, Swap, Meddle
<1>2. FsTypes' /\ Unique' /\ Quarantined' /\ ForeignKept'
  BY Meddled
<1>3. FileTypes' /\ OpTypes' /\ AnswerTypes' /\ Sited' /\ LockHeld' /\ OneRecord'
  BY <1>1 DEF FileTypes, OpTypes, AnswerTypes, Sited, LockHeld, OneRecord, procVars
<1>4. Fresh' /\ Untracked' /\ Reports'
  BY <1>1 DEF Fresh, Untracked, Reports, procVars
<1>5. \A r \in Records : Ours(r) => Ours(r)'
  BY Meddled, Places DEF Ours, Records, FsTypes
<1>6. \A r \in Records : OnlyOurs(r) => OnlyOurs(r)'
  BY Meddled, Places DEF OnlyOurs, Records, FsTypes
<1>7. \A r \in Records : Ours(r) /\ Whole(r) => Whole(r)'
  BY Meddled, Places DEF Ours, Whole, Records, FsTypes
<1>8. \A r \in Records : place[r.ino] \notin Names /\ Ours(r) => place'[r.ino] \notin Names
  BY Meddled, Places DEF Ours, Records
<1>9. Known'
  BY <1>1, <1>5 DEF Known, FileTypes, OpTypes, procVars
<1>10. Exclusive'
  BY <1>1, <1>6 DEF Exclusive, FileTypes, OpTypes, procVars
<1>11. Wholes'
  BY <1>1, <1>7 DEF Unbound, Wholes, Known, FileTypes, OpTypes, procVars
<1>12. ClearedAway'
  BY <1>1, <1>8 DEF Unbound, ClearedAway, Known, OpTypes, procVars
<1>13. Reaped' /\ RemovalProven'
  BY <1>1, Meddled DEF Reaped, RemovalProven, OpTypes, AnswerTypes, Records, procVars
<1> QED
  BY <1>2, <1>3, <1>4, <1>9, <1>10, <1>11, <1>12, <1>13

\* A record in the file goes bad: it names the same directory.
LEMMA TamperNext ==
    ASSUME Inv, Tamper
    PROVE  Inv'
<1> USE DEF Inv
<1>1. PICK r \in file : file' = (file \ {r}) \cup {[r EXCEPT !.intact = FALSE]}
  BY DEF Tamper
<1>2. UNCHANGED <<fsVars, procVars, repo>> /\ lock = Nobody
  BY DEF Tamper
<1>3. /\ [r EXCEPT !.intact = FALSE] \in Records
      /\ [r EXCEPT !.intact = FALSE].name = r.name /\ [r EXCEPT !.intact = FALSE].ino = r.ino
  BY DEF FileTypes, Records
<1>4. \A t \in file' : t \in Records /\ \E o \in file : t.name = o.name /\ t.ino = o.ino
  BY <1>1, <1>3 DEF FileTypes
<1>5. \A p \in Procs : ctx[p].op \notin Locking /\ pc[p] # "list"
  BY <1>2, StoreAssumption DEF LockHeld, Sited, OpTypes, OpSteps, Building, Opening,
     Holding,
     Locking, AboutOne
<1>6. FsTypes' /\ FileTypes' /\ OpTypes' /\ AnswerTypes'
  BY <1>2, <1>4 DEF FsTypes, FileTypes, OpTypes, AnswerTypes, fsVars, procVars
<1>7. Unique' /\ Quarantined' /\ Sited' /\ LockHeld' /\ OneRecord'
  BY <1>2 DEF Unique, Quarantined, Sited, LockHeld, OneRecord, fsVars, procVars
<1>8. Fresh' /\ Untracked'
  BY <1>2, <1>5 DEF Fresh, Untracked, procVars, Locking
<1>9. Known'
  BY <1>2, <1>4 DEF Known, Ours, fsVars, procVars
<1>10. Exclusive'
  BY <1>2, <1>4, <1>5 DEF Exclusive, OnlyOurs, fsVars, procVars, Locking
<1>11. Wholes'
  BY <1>2, <1>4, <1>5 DEF Wholes, Whole, fsVars, procVars, Locking
<1>12. ClearedAway' /\ Reaped' /\ ForeignKept' /\ Reports' /\ RemovalProven'
  BY <1>2 DEF ClearedAway, Reaped, ForeignKept, Reports, RemovalProven, fsVars, procVars
<1> QED
  BY <1>6, <1>7, <1>8, <1>9, <1>10, <1>11, <1>12

\* The repository is replaced, or nothing happens.
LEMMA QuietNext ==
    ASSUME Inv, RepoReplaced \/ UNCHANGED vars
    PROVE  Inv'
<1> USE DEF Inv
<1>1. UNCHANGED <<fsVars, file, procVars>>
  BY DEF RepoReplaced, vars
<1>2. repo' \in 1..MaxRepo
  BY StoreAssumption DEF RepoReplaced, vars, envVars, FileTypes
<1>3. FsTypes' /\ FileTypes' /\ OpTypes' /\ AnswerTypes'
  BY <1>1, <1>2 DEF FsTypes, FileTypes, OpTypes, AnswerTypes, fsVars, procVars
<1>4. Unique' /\ Quarantined' /\ Sited' /\ LockHeld' /\ OneRecord'
  BY <1>1 DEF Unique, Quarantined, Sited, LockHeld, OneRecord, fsVars, procVars
<1>5. Fresh' /\ Untracked' /\ Known' /\ Exclusive' /\ Wholes'
  BY <1>1 DEF Fresh, Untracked, Known, Ours, Exclusive, OnlyOurs, Wholes, Whole, fsVars,
     procVars
<1>6. ClearedAway' /\ Reaped' /\ ForeignKept' /\ Reports' /\ RemovalProven'
  BY <1>1 DEF ClearedAway, Reaped, ForeignKept, Reports, RemovalProven, fsVars, procVars
<1> QED
  BY <1>3, <1>4, <1>5, <1>6

\* An empty state root satisfies the invariant.
LEMMA InvInit ==
    ASSUME Init
    PROVE  Inv
<1> USE Places DEF Init, Idle, Silent
<1>1. FsTypes
  BY DEF FsTypes
<1>2. FileTypes /\ AnswerTypes
  BY StoreAssumption DEF FileTypes, AnswerTypes, Answers
<1>3. OpTypes
  BY DEF OpTypes, Steps
<1>4. Unique /\ Quarantined
  BY DEF Unique, Quarantined, InUse
<1>5. Sited /\ LockHeld /\ OneRecord
  BY DEF Sited, LockHeld, OneRecord, Locking, AboutOne
<1>6. Fresh /\ Untracked /\ Known /\ Exclusive /\ Wholes
  BY DEF Fresh, Untracked, Known, Exclusive, Wholes
<1>7. ClearedAway /\ Reaped /\ ForeignKept /\ Reports /\ RemovalProven
  BY DEF ClearedAway, Reaped, ForeignKept, Reports, RemovalProven
<1> QED
  BY <1>1, <1>2, <1>3, <1>4, <1>5, <1>6, <1>7 DEF Inv

\* Every step of every actor.
LEMMA InvNext ==
    ASSUME Inv, [Next]_vars
    PROVE  Inv'
BY ProcessNext, MeddledNext, TamperNext, QuietNext DEF Next

\* Only a prune makes a report.
LEMMA ListsOnly ==
    ASSUME OpTypes, Sited, OneRecord, FsTypes, answer.kind # "listed", NEW p \in
           Procs, Operation(p) \/ Die(p)
    PROVE  answer'.kind = "listed" => PruneLists(p)
<1> USE DEF Return, Start, Refuse, Silent
<1>1. ASSUME NEW run \in Runs, NEW rev \in Revs, CreateBegin(p, run, rev)
      PROVE  answer'.kind = "listed" => PruneLists(p)
  BY <1>1 DEF CreateBegin
<1>2. ASSUME NEW run \in Runs, CleanupBegin(p, run)
      PROVE  answer'.kind = "listed" => PruneLists(p)
  BY <1>2 DEF CleanupBegin
<1>3. ASSUME NEW run \in Runs, Reopen(p, run) PROVE answer'.kind = "listed" => PruneLists(p)
  BY <1>3 DEF Reopen
<1>4. CASE HandleCleanup(p)
  BY <1>4 DEF HandleCleanup
<1>5. CASE PruneBegin(p)
  BY <1>5 DEF PruneBegin
<1>6. CASE Preflight(p)
  BY <1>6 DEF Preflight
<1>7. CASE MkDir(p)
  BY <1>7, MkDirMakes
<1>18. CASE BindDir(p)
  BY <1>18, BindTakes DEF Took
<1>8. CASE InitDetached(p) \/ CopyClosure(p) \/ WriteTree(p)
  BY <1>8 DEF InitDetached, CopyClosure, WriteTree, BuildStep
<1>9. CASE remove_worktree_dir(p)
  <2>1. ASSUME NEW result, result # "listed", ReapEnds(p, result) PROVE answer'.kind # "listed"
    BY <2>1 DEF ReapEnds
  <2> QED BY <1>9, <2>1 DEF remove_worktree_dir
<1>10. CASE ReapOpen(p)
  <2>1. ASSUME NEW result, result # "listed", ReapEnds(p, result) PROVE answer'.kind # "listed"
    BY <2>1 DEF ReapEnds
  <2> QED BY <1>10, <2>1 DEF ReapOpen
<1>11. CASE ReapRename(p)
  <2>1. ASSUME NEW result, result # "listed", ReapEnds(p, result) PROVE answer'.kind # "listed"
    BY <2>1 DEF ReapEnds
  <2> QED BY <1>11, <2>1 DEF ReapRename
<1>12. CASE ReapProve(p)
  <2>1. ASSUME NEW result, result # "listed", ReapEnds(p, result) PROVE answer'.kind # "listed"
    BY <2>1 DEF ReapEnds
  <2> QED BY <1>12, <2>1 DEF ReapProve
<1>13. CASE ReapClear(p)
  <2>1. ASSUME NEW result, result # "listed", ReapEnds(p, result) PROVE answer'.kind # "listed"
    BY <2>1 DEF ReapEnds
  <2> QED BY <1>13, <2>1 DEF ReapClear
<1>14. CASE ReapRmdir(p)
  <2>1. ASSUME NEW result, result # "listed", ReapEnds(p, result) PROVE answer'.kind # "listed"
    BY <2>1 DEF ReapEnds
  <2> DEFINE res == IF place'[Rec(p).ino] = Gone THEN "reaped" ELSE "unproven"
  <2>2. res # "listed"
    OBVIOUS
  <2>3. ReapEnds(p, res) \/ ReapEnds(p, "io")
    BY <1>14 DEF ReapRmdir
  <2> HIDE DEF res
  <2> QED BY <2>1, <2>2, <2>3
<1>15. CASE Persist(p)
  <2>1. ctx[p].how # "listed"
    BY DEF OpTypes
  <2> QED BY <1>15, <2>1 DEF Persist
<1>16. CASE PruneLists(p)
  BY <1>16
<1>17. CASE Die(p)
  BY <1>17 DEF Die
<1> QED
  BY <1>1, <1>2, <1>3, <1>4, <1>5, <1>6, <1>7, <1>8, <1>9, <1>10, <1>11, <1>12,
     <1>13, <1>14, <1>15, <1>16, <1>17, <1>18 DEF Operation

-----------------------------------------------------------------------------
(* The theorems *)

\* The inductive invariant holds of every behaviour of the store.
THEOREM Invariance == Spec => []Inv
<1>1. Init => Inv
  BY InvInit
<1>2. Inv /\ [Next]_vars => Inv'
  BY InvNext
<1> QED
  BY <1>1, <1>2, PTL DEF Spec

\* A cleanup that says it removed the directory removed the recorded one, whatever
\* was swapped in under its quarantine name.
THEOREM RemovalsAreProven == Spec => []RemovalProven
<1>1. Inv => RemovalProven
  BY DEF Inv
<1> QED
  BY <1>1, Invariance, PTL

\* A recorded directory that is still at its path is whole, for any number of
\* processes, runs and interferences.
THEOREM RecordedAreWhole == Spec => []RecordedIsWhole
<1>1. Inv => RecordedIsWhole
  <2> SUFFICES ASSUME Inv PROVE RecordedIsWhole
    OBVIOUS
  <2>1. ASSUME NEW n \in InUse PROVE Cardinality(At(n)) <= 1
    <3>1. CASE At(n) = {}
      BY <3>1, FS_EmptySet
    <3>2. CASE At(n) # {}
      <4>1. PICK i \in Inodes : At(n) = {i}
        BY <3>2 DEF Inv, Unique, At
      <4> QED BY <4>1, FS_Singleton
    <3> QED BY <3>1, <3>2
  <2>2. StoreTypeOK
    BY <2>1 DEF StoreTypeOK, Inv, FsTypes, FileTypes, OpTypes
  <2>3. ASSUME NEW r \in file, attest(r.name, r.ino) PROVE content[r.ino] = "whole"
    BY <2>3 DEF Inv, Wholes, Whole, attest, At
  <2> QED BY <2>2, <2>3 DEF RecordedIsWhole
<1> QED
  BY <1>1, Invariance, PTL

\* No step empties or unlinks a directory with contents that is not the store's, one
\* that no create made or took for the one it had just made.
THEOREM ForeignTreesAreKept == Spec => ForeignTreesKept
<1> DEFINE Kept == \A i \in Inodes : owner[i] = Foreign /\ content[i] = "whole" =>
                     content'[i] = "whole" /\ place'[i] # Gone
<1>1. ASSUME Inv, Next PROVE Kept
  <2>1. ASSUME NEW p \in Procs, Operation(p) \/ Die(p) PROVE Kept
    <3>1. FsShape(p)
      BY <1>1, <2>1, FsShapes DEF Inv
    <3>2. pc[p] \in Holding => Rec(p).ino \in Inodes /\ owner[Rec(p).ino] # Foreign
      BY <1>1, Working DEF Unbound, Inv, Known, Ours, Holding
    <3>3. \A i \in Inodes : owner[i] = Foreign /\ content[i] = "whole" =>
             place[i] \notin {Gone, NotBorn}
      BY <1>1 DEF Inv, ForeignKept
    <3> USE <1>1, <3>2, <3>3, Places DEF Inv, FsTypes
    <3>4. CASE Still(p)
      BY <3>4 DEF Still, fsVars
    <3>5. CASE Directory(p)
      BY <3>5, Working DEF Directory, Born, Unborn, InUse
    <3>11. CASE Taken(p)
      BY <3>11 DEF Taken, At
    <3>6. CASE Built(p)
      BY <3>6 DEF Built
    <3>7. CASE Renamed(p)
      BY <3>7 DEF Renamed
    <3>8. CASE Dropped(p)
      BY <3>8 DEF Dropped, Abandon, Holding
    <3>9. CASE Emptied(p)
      BY <3>9 DEF Emptied, Holding
    <3>10. CASE Unlinked(p)
      BY <3>10 DEF Unlinked, At
    <3> QED BY <3>1, <3>4, <3>5, <3>6, <3>7, <3>8, <3>9, <3>10, <3>11 DEF FsShape
  <2>2. CASE MoveAway \/ Swap
    <3>1. ASSUME NEW i \in Inodes, owner[i] = Foreign, content[i] = "whole"
          PROVE  content'[i] = "whole" /\ place'[i] # Gone
      <4>1. place[i] # NotBorn /\ place[i] # Gone
        BY <1>1, <3>1 DEF Inv, ForeignKept
      <4>2. content'[i] = content[i] /\ owner'[i] = owner[i]
        BY <1>1, <2>2, <4>1, Meddled
      <4>3. ForeignKept'
        BY <1>1, <2>2, Meddled
      <4> QED BY <3>1, <4>2, <4>3 DEF ForeignKept
    <3> QED BY <3>1
  <2>3. CASE RepoReplaced \/ Tamper
    BY <1>1, <2>3 DEF RepoReplaced, Tamper, fsVars, Inv, ForeignKept
  <2> QED BY <1>1, <2>1, <2>2, <2>3 DEF Next
<1>2. Inv /\ [Next]_vars => [Kept]_vars
  BY <1>1
<1> QED
  BY <1>2, Invariance, PTL DEF Spec, ForeignTreesKept

\* A record leaves the file only with the cleanup or the prune that dropped it: no
\* write of a stale copy loses one.
THEOREM OnlyDroppedOnesLeave == Spec => OnlyDroppedLeave
<1> DEFINE Drops == \A r \in file : r.intact /\ r \notin file' =>
                      \/ \E p \in Procs : ctx[p].op = "cleanup" /\ r \in ctx[p].recs
                      \/ \E p \in Procs : ctx[p].op = "prune" /\ r \notin ctx[p].next
                      \/ [r EXCEPT !.intact = FALSE] \in file'
<1>1. ASSUME Inv, Next PROVE Drops
  <2>1. ASSUME NEW p \in Procs, Operation(p) \/ Die(p) PROVE Drops
    <3>1. FileShape(p)
      BY <1>1, <2>1, FileShapes DEF Inv
    <3>2. pc[p] = "persist" => ctx[p].op \in {"create", "cleanup", "prune"}
      BY <1>1 DEF Inv, OpTypes, Sited, OpSteps, Building, Opening, Holding, Locking,
         AboutOne
    <3>3. ASSUME NEW r \in file, r \notin file'
          PROVE  \/ ctx[p].op = "cleanup" /\ r \in ctx[p].recs
                 \/ ctx[p].op = "prune" /\ r \notin ctx[p].next
      BY <1>1, <3>1, <3>2, <3>3 DEF FileShape, Inv, Fresh
    <3> QED BY <3>3
  <2>2. CASE Tamper
    BY <2>2 DEF Tamper
  <2>3. CASE MoveAway \/ Swap \/ RepoReplaced
    BY <2>3 DEF MoveAway, Swap, Meddle, RepoReplaced
  <2> QED BY <1>1, <2>1, <2>2, <2>3 DEF Next
<1>2. Inv /\ [Next]_vars => [Drops]_vars
  BY <1>1
<1> QED
  BY <1>2, Invariance, PTL DEF Spec, OnlyDroppedLeave

\* A prune that reports lists every directory of the store under the root that no
\* record has.
THEOREM PrunesReportAll == Spec => PruneReportsAll
<1> DEFINE Lists == \A p \in Procs : pc[p] = "list" /\ answer'.kind = "listed" =>
                      \A i \in Inodes :
                        \/ i \in answer'.inos
                        \/ ~InRoot(i) \/ owner[i] = Foreign
                        \/ \E r \in file : attest(r.name, i) /\ r.ino = i
<1>1. ASSUME Inv, Next PROVE Lists
  <2> SUFFICES ASSUME NEW p \in Procs, pc[p] = "list", answer'.kind = "listed",
                      NEW i \in Inodes, InRoot(i), owner[i] # Foreign, i \notin answer'.inos
               PROVE  \E r \in file : attest(r.name, i) /\ r.ino = i
    OBVIOUS
  <2>1. ctx[p].op = "prune" /\ lock = p /\ lock # Nobody /\ ctx[p].next = file
    BY <1>1, StoreAssumption DEF Inv, OpTypes, Sited, OpSteps, Building, Opening, Holding,
       Locking, AboutOne, LockHeld, Fresh
  <2>2. answer.kind # "listed"
    BY <1>1, <2>1 DEF Inv, Reports
  <2>3. PruneLists(p)
    <3>1. ASSUME NEW q \in Procs, Operation(q) \/ Die(q) PROVE PruneLists(p)
      <4>1. PruneLists(q)
        BY <1>1, <2>2, <3>1, ListsOnly DEF Inv
      <4>2. ctx[q].op = "prune"
        BY <1>1, <4>1 DEF PruneLists, Inv, OpTypes, Sited, OpSteps, Building, Opening,
           Holding,
           Locking, AboutOne
      <4>3. lock = q
        BY <1>1, <4>2 DEF Inv, LockHeld, Locking
      <4> QED BY <2>1, <4>1, <4>3
    <3>2. ~(RepoReplaced \/ MoveAway \/ Swap \/ Tamper)
      BY <2>2 DEF RepoReplaced, MoveAway, Swap, Meddle, Tamper, procVars
    <3> QED BY <1>1, <3>1, <3>2 DEF Next
  <2>4. answer'.inos = unreferenced_dirs(file)
    BY <2>1, <2>3 DEF PruneLists, Return
  <2>5. PICK r \in file : place[i] = r.name
    BY <2>4 DEF unreferenced_dirs
  <2>6. r.ino = i
    BY <1>1, <2>5 DEF Inv, Exclusive, OnlyOurs
  <2>7. r.name \in InUse
    BY <1>1 DEF Inv, FileTypes, Records, InUse
  <2>8. At(r.name) = {i}
    BY <1>1, <2>5, <2>7 DEF Inv, Unique, At
  <2> QED BY <2>6, <2>8 DEF attest
<1>2. Inv /\ [Next]_vars => [Lists]_vars
  BY <1>1
<1> QED
  BY <1>2, Invariance, PTL DEF Spec, PruneReportsAll

=============================================================================
