------------------------ MODULE CommandDispatchProofs ------------------------
(***************************************************************************)
(* The safety properties of CommandDispatch, for any number of commands,   *)
(* runs, handlers and faults.                                              *)
(*                                                                         *)
(* The argument.  A run id is minted for one command (Minted).  The flock  *)
(* of a run is held by its child or by one request (Exclusion), so the     *)
(* record a request has classified does not move while the request decides *)
(* (Decided), and a child that has checked its binding cannot lose it      *)
(* (Bound).  Hence a record past the dispatch boundary pins its command to *)
(* its run (Pinned), and the provider runs only there.                     *)
(*                                                                         *)
(* The refinement of CommandContract needs two facts more: the provider is *)
(* started once per child, between its row and its seal (Delivered), and   *)
(* the parent of a command stops being the tail as soon as a run of the    *)
(* command has a row (Chained), so that no parent is continued twice.      *)
(***************************************************************************)
EXTENDS CommandDispatch, TLAPS

\* Run ids belong to the command they were minted for, and only those have a
\* child process.
Minted ==
  /\ owner[Root] = NoCommand
  /\ \A k \in Commands :
       /\ cmd[k].child \in Runs => owner[cmd[k].child] = k
       /\ cmd[k].status = "none" => cmd[k].child = NoRun
       /\ cmd[k].status \in {"completed", "rejected"} => cmd[k].child \in Runs
  /\ \A r \in Runs : owner[r] = NoCommand => child[r] = "none"
  /\ \A q \in Requests :
       /\ request[q].pc \notin {"idle", "bind"} =>
            owner[request[q].run] = request[q].key
       /\ request[q].pc # "idle" => cmd[request[q].key].status # "none"

\* A run is spawned once.
SpawnedOnce ==
  \A q \in Requests : request[q].pc = "spawn" =>
    /\ child[request[q].run] = "none"
    /\ \A p \in Requests :
         request[p].pc = "spawn" /\ request[p].run = request[q].run => p = q

\* One owner of a flock.
Exclusion ==
  \A q \in Requests : request[q].lock \in Runs =>
    /\ child[request[q].lock] \notin Owning
    /\ \A p \in Requests : request[p].lock = request[q].lock => p = q

\* How far the record, the row and the provider of a child are.
Progress ==
  \A r \in Runs \ {Root} :
    /\ child[r] \in {"none", "spawned", "locked", "checked"} =>
         record[r] = "absent" /\ row[r] = "none"
    /\ child[r] \in {"recorded", "attached"} => record[r] = "pre"
    /\ child[r] \in {"dispatched", "invoked"} => record[r] = "dispatched"
    /\ child[r] \in {"sealed", "finishing"} => record[r] = "sealed"
    /\ child[r] \in {"attached", "dispatched", "invoked", "sealed", "finishing"}
         => row[r] # "none"
    /\ r \in invoked => record[r] \notin {"absent", "pre"} /\ row[r] # "none"

\* The first run of the conversation is finished and is nobody's child.
RootDone == /\ record[Root] = "sealed" /\ row[Root] = "terminal"
            /\ Root \notin invoked

\* What a request has found under the lock is still so.
Decided ==
  /\ \A q \in Requests :
       /\ request[q].pc \in {"classify", "rebind", "catchup", "reseal", "complete"}
            => request[q].lock = request[q].run
       /\ request[q].pc = "rebind" =>
            record[request[q].run] \in {"absent", "pre"}
       /\ request[q].pc \in {"catchup", "reseal", "complete"} =>
            record[request[q].run] = "sealed"
  /\ recover.pc = "reseal" =>
       recover.run \in Runs /\ record[recover.run] = "sealed"

\* A child past its check is the one its command is bound to, and while it works
\* the command is in flight.
Bound ==
  \A r \in Runs :
    /\ child[r] \in Owning \ {"locked"} => cmd[owner[r]].child = r
    /\ child[r] \in Working => InFlight(owner[r])

\* A record past the boundary keeps its command.
Pinned ==
  \A r \in Runs \ {Root} :
    record[r] \notin {"absent", "pre"} =>
      owner[r] \in Commands /\ cmd[owner[r]].child = r

OneInFlight == \A k1, k2 \in Commands : InFlight(k1) /\ InFlight(k2) => k1 = k2

\* The child of a rejected command has ended and never ran its provider.
Rejected ==
  \A k \in Commands : cmd[k].status = "rejected" =>
    child[cmd[k].child] = "exited" /\ cmd[k].child \notin invoked

Inv == /\ TypeOK /\ Minted /\ SpawnedOnce /\ Exclusion
       /\ Progress /\ RootDone /\ Decided /\ Bound /\ Pinned /\ OneInFlight
       /\ Rejected /\ TerminalMeansSealed /\ CompletedMeansSealed

\* Changing the status of one command keeps the command table well formed.
LEMMA CommandUpdate ==
  ASSUME cmd \in [Commands -> CommandRow], NEW k \in Commands,
         NEW s \in CommandStatus
  PROVE  [cmd EXCEPT ![k].status = s] \in [Commands -> CommandRow]
BY DEF CommandRow

\* A child process belongs to a command.
LEMMA ChildHasOwner ==
  ASSUME Inv, NEW r \in Runs, child[r] # "none"
  PROVE  owner[r] \in Commands /\ r # Root
BY DEF Inv, TypeOK, Minted

\* A request that ends without changing the ledger keeps Inv.
LEMMA AnswerKeeps ==
  ASSUME Inv, NEW q \in Requests, Answer(q), faults' \in 0..MaxFaults,
         UNCHANGED <<ledger, record, returned, child, invoked, recover, stale>>
  PROVE  Inv'
<1> USE Distinct DEF Inv, ledger, Answer, IdleRequest
<1>1. TypeOK'
  BY DEF TypeOK, RequestState, RequestPc
<1>2. Minted' /\ SpawnedOnce'
  BY DEF TypeOK, Minted, SpawnedOnce
<1>3. Exclusion' /\ Decided'
  BY DEF TypeOK, Exclusion, Decided
<1>4. Progress' /\ RootDone' /\ Bound' /\ Pinned' /\ OneInFlight' /\ Rejected'
  BY DEF Progress, RootDone, Bound, Pinned, OneInFlight, Rejected, InFlight
<1>5. TerminalMeansSealed' /\ CompletedMeansSealed'
  BY DEF TerminalMeansSealed, CompletedMeansSealed
<1> QED
  BY <1>1, <1>2, <1>3, <1>4, <1>5

\* A request that decides under the lock of its run keeps Inv.
LEMMA DecidingKeeps ==
  ASSUME Inv, NEW q \in Requests,
         request[q].pc \in {"trylock", "classify"},
         NEW pc \in {"classify", "rebind", "catchup"},
         request' = [request EXCEPT ![q] = [@ EXCEPT !.pc = pc,
                                                     !.lock = request[q].run]],
         request[q].lock = request[q].run \/ ~LockHeld(request[q].run),
         pc = "rebind" => record[request[q].run] \in {"absent", "pre"},
         pc = "catchup" => record[request[q].run] = "sealed",
         UNCHANGED <<ledger, record, returned, child, invoked, recover, stale,
                     faults>>
  PROVE  Inv'
<1> DEFINE c == [request[q] EXCEPT !.pc = pc, !.lock = request[q].run]
<1>1. request[q] \in [pc : RequestPc, key : Commands \cup {NoCommand},
                      run : Runs \cup {NoRun}, lock : Runs \cup {NoRun}]
  BY DEF Inv, TypeOK, RequestState
<1>2. /\ c \in RequestState /\ c.pc = pc /\ c.lock = request[q].run
      /\ c.key = request[q].key /\ c.run = request[q].run
  BY <1>1 DEF RequestState, RequestPc
<1>3. request' = [request EXCEPT ![q] = c]
  OBVIOUS
<1> HIDE DEF c
<1>4. /\ request' \in [Requests -> RequestState]
      /\ request'[q] = c
      /\ \A p \in Requests \ {q} : request'[p] = request[p]
  BY <1>2, <1>3 DEF Inv, TypeOK
<1> USE Distinct DEF Inv, ledger
<1>5. request[q].run \in Runs /\ request[q].key \in Commands
  BY DEF TypeOK
<1>6. TypeOK'
  BY <1>2, <1>4, <1>5 DEF TypeOK
<1>7. Minted'
  BY <1>2, <1>4 DEF Minted
<1>8. SpawnedOnce'
  BY <1>2, <1>4 DEF SpawnedOnce
<1>9. Exclusion'
  BY <1>2, <1>4, <1>5 DEF Exclusion, LockHeld
<1>10. Decided'
  BY <1>2, <1>4 DEF Decided
<1>11. Progress' /\ RootDone' /\ Bound' /\ Pinned' /\ OneInFlight' /\ Rejected'
  BY DEF Progress, RootDone, Bound, Pinned, OneInFlight, Rejected, InFlight
<1>12. TerminalMeansSealed' /\ CompletedMeansSealed'
  BY DEF TerminalMeansSealed, CompletedMeansSealed
<1> QED
  BY <1>6, <1>7, <1>8, <1>9, <1>10, <1>11, <1>12

\* What Bind and Rebind do to the ledger and to their request.
BoundTo(q, k, r, s) ==
  /\ cmd' = [cmd EXCEPT ![k] = [cmd[k] EXCEPT !.child = r, !.status = s]]
  /\ owner' = [owner EXCEPT ![r] = k]
  /\ stale' = stale \ {k}
  /\ request' = [request EXCEPT ![q] = [request[q] EXCEPT !.pc = "spawn",
                                                          !.run = r]]
  /\ UNCHANGED <<row, tail, session, record, returned, child, invoked, recover,
                 faults>>

\* Binding a fresh run to a command in flight keeps Inv, if the run it was bound
\* to before, if any, is not at work and has not passed the dispatch boundary.
LEMMA BoundToKeeps ==
  ASSUME Inv, NEW q \in Requests, NEW k \in Commands, NEW r \in Runs,
         NEW s \in {"accepted", "started"},
         Fresh(r), InFlight(k), request[q].key = k, request[q].pc # "idle",
         cmd[k].child \in Runs =>
           /\ record[cmd[k].child] \in {"absent", "pre"}
           /\ child[cmd[k].child] \notin Owning \ {"locked"},
         BoundTo(q, k, r, s)
  PROVE  Inv'
<1> USE Distinct DEF Inv, Fresh
<1>1. /\ cmd' \in [Commands -> CommandRow]
      /\ cmd'[k].child = r /\ cmd'[k].status = s
      /\ \A j \in Commands \ {k} : cmd'[j] = cmd[j]
  <2> DEFINE c == [cmd[k] EXCEPT !.child = r, !.status = s]
  <2>1. c \in CommandRow /\ c.child = r /\ c.status = s
    <3> HIDE DEF Inv
    <3>1. cmd[k] \in [status : CommandStatus, parent : Runs \cup {NoRun},
                      child : Runs \cup {NoRun}]
      BY DEF Inv, TypeOK, CommandRow
    <3>2. s \in CommandStatus
      BY DEF CommandStatus
    <3> QED
      BY <3>1, <3>2 DEF CommandRow
  <2>2. cmd' = [cmd EXCEPT ![k] = c]
    BY DEF BoundTo
  <2> HIDE DEF c
  <2> QED
    BY <2>1, <2>2 DEF TypeOK
<1>2. /\ owner' \in [Runs -> Commands \cup {NoCommand}]
      /\ owner'[r] = k /\ \A x \in Runs \ {r} : owner'[x] = owner[x]
  BY DEF BoundTo, TypeOK
<1>3. /\ request' \in [Requests -> RequestState]
      /\ request'[q].pc = "spawn" /\ request'[q].run = r
      /\ request'[q].key = k /\ request'[q].lock = request[q].lock
      /\ \A p \in Requests \ {q} : request'[p] = request[p]
  <2> DEFINE c == [request[q] EXCEPT !.pc = "spawn", !.run = r]
  <2>1. /\ c \in RequestState /\ c.pc = "spawn" /\ c.run = r
        /\ c.key = k /\ c.lock = request[q].lock
    <3> HIDE DEF Inv
    <3>1. request[q] \in [pc : RequestPc, key : Commands \cup {NoCommand},
                          run : Runs \cup {NoRun}, lock : Runs \cup {NoRun}]
      BY DEF Inv, TypeOK, RequestState
    <3>2. "spawn" \in RequestPc
      BY DEF RequestPc
    <3> QED
      BY <3>1, <3>2 DEF RequestState
  <2>2. request' = [request EXCEPT ![q] = c]
    BY DEF BoundTo
  <2> HIDE DEF c
  <2> QED
    BY <2>1, <2>2 DEF TypeOK
<1>4. /\ row' = row /\ record' = record /\ child' = child
      /\ invoked' = invoked /\ recover' = recover
  BY DEF BoundTo
<1>5. TypeOK'
  BY <1>1, <1>2, <1>3 DEF BoundTo, TypeOK
<1>6. Minted'
  <2>1. owner'[Root] = NoCommand
    BY <1>2 DEF Minted, TypeOK
  <2>2. ASSUME NEW j \in Commands
        PROVE  /\ cmd'[j].child \in Runs => owner'[cmd'[j].child] = j
               /\ cmd'[j].status = "none" => cmd'[j].child = NoRun
               /\ cmd'[j].status \in {"completed", "rejected"} =>
                    cmd'[j].child \in Runs
    BY <1>1, <1>2 DEF Minted, TypeOK
  <2>3. \A x \in Runs : owner'[x] = NoCommand => child'[x] = "none"
    BY <1>2, <1>4 DEF Minted
  <2>4. ASSUME NEW p \in Requests
        PROVE  /\ request'[p].pc \notin {"idle", "bind"} =>
                    owner'[request'[p].run] = request'[p].key
               /\ request'[p].pc # "idle" =>
                    cmd'[request'[p].key].status # "none"
    BY <1>1, <1>2, <1>3 DEF Minted, TypeOK
  <2> QED
    BY <2>1, <2>2, <2>3, <2>4 DEF Minted
<1>7. SpawnedOnce'
  BY <1>3, <1>4 DEF SpawnedOnce, Minted, TypeOK
<1>8. Exclusion'
  BY <1>3, <1>4 DEF Exclusion
<1>9. Decided'
  BY <1>3, <1>4 DEF Decided
<1>10. Bound'
  <2> SUFFICES ASSUME NEW x \in Runs
               PROVE  /\ child[x] \in Owning \ {"locked"} =>
                           cmd'[owner'[x]].child = x
                      /\ child[x] \in Working =>
                           cmd'[owner'[x]].status \in {"accepted", "started"}
    BY <1>4 DEF Bound, InFlight
  <2>1. child[r] = "none"
    BY DEF Minted
  <2>2. child[x] # "none" => x # r /\ owner'[x] = owner[x] /\ owner[x] \in Commands
    BY <2>1, <1>2 DEF Minted, TypeOK
  <2>3. child[x] \in Owning \ {"locked"} => owner[x] # k
    BY DEF Bound
  <2>4. child[x] \in Working => child[x] \in Owning \ {"locked"}
    BY DEF Working, Owning
  <2>5. child[x] \in Owning => child[x] # "none"
    BY DEF Owning
  <2> QED
    BY <2>2, <2>3, <2>4, <2>5, <1>1 DEF Bound, InFlight
<1>11. Pinned'
  BY <1>1, <1>2, <1>4 DEF Pinned
<1>12. OneInFlight' /\ Rejected'
  BY <1>1, <1>4 DEF OneInFlight, InFlight, Rejected
<1>13. CompletedMeansSealed'
  BY <1>1, <1>4 DEF CompletedMeansSealed
<1>14. Progress' /\ RootDone' /\ TerminalMeansSealed'
  BY <1>4 DEF Progress, RootDone, TerminalMeansSealed
<1> QED
  BY <1>5, <1>6, <1>7, <1>8, <1>9, <1>10, <1>11, <1>12, <1>13, <1>14

\* Accepting a command, binding it, spawning its child: create_command keeps Inv.
LEMMA AcceptSteps ==
  ASSUME Inv
  PROVE  /\ \A q \in Requests, k \in Commands, p \in Runs : Accept(q, k, p) => Inv'
         /\ \A q \in Requests, k \in Commands : Retry(q, k) => Inv'
         /\ \A q \in Requests, r \in Runs : Bind(q, r) => Inv'
         /\ \A q \in Requests : Spawn(q) => Inv'
<1> USE Distinct DEF Inv, ledger
<1>1. ASSUME NEW q \in Requests, NEW k \in Commands, NEW p \in Runs, Accept(q, k, p)
      PROVE  Inv'
  <2>1. TypeOK'
    BY <1>1 DEF TypeOK, CommandRow, CommandStatus, RequestState, RequestPc,
        Accept, IdleRequest
  <2>2. Minted'
    BY <1>1 DEF TypeOK, Minted, Accept, IdleRequest
  <2>3. SpawnedOnce'
    BY <1>1 DEF SpawnedOnce, Accept, IdleRequest
  <2>4. Exclusion'
    BY <1>1 DEF Exclusion, Accept, IdleRequest
  <2>5. Decided'
    BY <1>1 DEF Decided, Accept, IdleRequest
  <2>6. Bound'
    BY <1>1 DEF Minted, Bound, InFlight, Accept, Acceptable
  <2>7. Pinned'
    BY <1>1 DEF Minted, Pinned, Accept
  <2>8. OneInFlight'
    BY <1>1 DEF OneInFlight, InFlight, Accept, Acceptable
  <2>9. Rejected'
    BY <1>1 DEF Rejected, Accept
  <2>10. CompletedMeansSealed'
    BY <1>1 DEF CompletedMeansSealed, Accept
  <2>11. Progress' /\ RootDone' /\ TerminalMeansSealed'
    BY <1>1 DEF Progress, RootDone, TerminalMeansSealed, Accept
  <2> QED
    BY <2>1, <2>2, <2>3, <2>4, <2>5, <2>6, <2>7, <2>8, <2>9, <2>10, <2>11
<1>2. ASSUME NEW q \in Requests, NEW k \in Commands, Retry(q, k)
      PROVE  Inv'
  <2>1. TypeOK'
    BY <1>2 DEF TypeOK, CommandRow, CommandStatus, RequestState, RequestPc,
        Retry
  <2>2. Minted'
    BY <1>2 DEF TypeOK, Minted, CommandRow, RequestState, Retry, InFlight
  <2>3. SpawnedOnce'
    BY <1>2 DEF SpawnedOnce, Retry
  <2>4. Exclusion'
    BY <1>2 DEF Exclusion, Retry
  <2>5. Decided'
    BY <1>2 DEF Decided, Retry
  <2>6. Progress' /\ RootDone' /\ Bound' /\ Pinned' /\ OneInFlight' /\ Rejected' /\
         TerminalMeansSealed' /\ CompletedMeansSealed'
    BY <1>2 DEF Progress, RootDone, Bound, Pinned, OneInFlight, Rejected,
        TerminalMeansSealed, CompletedMeansSealed, InFlight, Retry
  <2> QED
    BY <2>1, <2>2, <2>3, <2>4, <2>5, <2>6
<1>3. ASSUME NEW q \in Requests, NEW r \in Runs, Bind(q, r)
      PROVE  Inv'
  <2> DEFINE k == request[q].key
  <2>1. k \in Commands
    BY <1>3 DEF TypeOK, Bind
  <2>2. CASE cmd[k].child = NoRun
    <3>1. cmd[k].status \in CommandStatus
      BY <2>1 DEF TypeOK, CommandRow
    <3>2. InFlight(k)
      BY <1>3, <2>1, <2>2, <3>1 DEF Minted, Bind, InFlight, CommandStatus
    <3>3. Fresh(r) /\ request[q].pc = "bind" /\ BoundTo(q, k, r, "started")
      BY <1>3, <2>2 DEF Bind, BoundTo
    <3> QED
      BY <2>1, <2>2, <3>2, <3>3, BoundToKeeps
  <2>3. CASE cmd[k].child # NoRun
    BY <1>3, <2>3, AnswerKeeps DEF TypeOK, Bind
  <2> QED
    BY <2>2, <2>3
<1>4. ASSUME NEW q \in Requests, Spawn(q)
      PROVE  Inv'
  <2>1. TypeOK'
    BY <1>4 DEF TypeOK, CommandRow, CommandStatus, RunStatus, RecordState,
        ChildPc, RequestState, RequestPc, Spawn, Answer, IdleRequest
  <2>2. Minted'
    BY <1>4 DEF TypeOK, Minted, Spawn, Answer, IdleRequest
  <2>3. SpawnedOnce'
    BY <1>4 DEF TypeOK, SpawnedOnce, Spawn, Answer, IdleRequest
  <2>4. Exclusion'
    BY <1>4 DEF Exclusion, Owning, Spawn, Answer, IdleRequest
  <2>5. Progress'
    BY <1>4 DEF Minted, SpawnedOnce, Progress, Spawn, Answer, IdleRequest
  <2>6. Decided'
    BY <1>4 DEF Decided, Spawn, Answer, IdleRequest
  <2>7. Bound'
    BY <1>4 DEF Bound, Owning, Working, InFlight, Spawn, Answer, IdleRequest
  <2>8. Rejected'
    BY <1>4 DEF Minted, SpawnedOnce, Rejected, Spawn, Answer, IdleRequest
  <2>9. RootDone' /\ Pinned' /\ OneInFlight' /\ TerminalMeansSealed' /\
         CompletedMeansSealed'
    BY <1>4 DEF RootDone, Pinned, OneInFlight, TerminalMeansSealed,
        CompletedMeansSealed, InFlight, Spawn, Answer, IdleRequest
  <2> QED
    BY <2>1, <2>2, <2>3, <2>4, <2>5, <2>6, <2>7, <2>8, <2>9
<1> QED
  BY <1>1, <1>2, <1>3, <1>4

\* redrive_or_recover_locked, and a request that ends early, keep Inv.
LEMMA RedriveSteps ==
  ASSUME Inv
  PROVE  /\ \A q \in Requests : TryLock(q) => Inv'
         /\ \A q \in Requests : Classify(q) => Inv'
         /\ \A q \in Requests, r \in Runs : Rebind(q, r) => Inv'
         /\ \A q \in Requests : CatchUp(q) => Inv'
         /\ \A q \in Requests : Reseal(q) => Inv'
         /\ \A q \in Requests : CompleteRecovered(q) => Inv'
         /\ \A q \in Requests : Abandon(q) => Inv'
<1> USE Distinct DEF Inv, ledger
<1>1. ASSUME NEW q \in Requests, TryLock(q)
      PROVE  Inv'
  <2>1. CASE ~LockHeld(request[q].run)
    <3>1. /\ request[q].pc = "trylock"
          /\ request' = [request EXCEPT ![q] = [@ EXCEPT !.pc = "classify",
                                                !.lock = request[q].run]]
          /\ UNCHANGED <<ledger, record, returned, child, invoked, recover,
                         stale, faults>>
      BY <1>1, <2>1 DEF TryLock
    <3> QED
      BY <2>1, <3>1, DecidingKeeps
  <2>2. CASE LockHeld(request[q].run)
    BY <1>1, <2>2, AnswerKeeps DEF TypeOK, TryLock
  <2> QED
    BY <2>1, <2>2
<1>2. ASSUME NEW q \in Requests, Classify(q)
      PROVE  Inv'
  <2> DEFINE d == Decision(record[request[q].run])
  <2>1. CASE d # "idle"
    <3>1. /\ d \in {"rebind", "catchup"}
          /\ d = "rebind" => record[request[q].run] \in {"absent", "pre"}
          /\ d = "catchup" => record[request[q].run] = "sealed"
      BY <2>1 DEF Decision
    <3>2. request[q].pc = "classify" /\ request[q].lock = request[q].run
      BY <1>2 DEF Classify, Decided
    <3> HIDE DEF d
    <3>3. request' = [request EXCEPT ![q] = [@ EXCEPT !.pc = d,
                                                      !.lock = request[q].run]]
      BY <1>2, <2>1, <3>2 DEF Classify, Goto, TypeOK, d
    <3>4. UNCHANGED <<ledger, record, returned, child, invoked, recover, stale,
                      faults>>
      BY <1>2 DEF Classify
    <3> QED
      BY <3>1, <3>2, <3>3, <3>4, DecidingKeeps
  <2>2. CASE d = "idle"
    BY <1>2, <2>2, AnswerKeeps DEF TypeOK, Classify
  <2> QED
    BY <2>1, <2>2
<1>3. ASSUME NEW q \in Requests, NEW r \in Runs, Rebind(q, r)
      PROVE  Inv'
  <2> DEFINE k == request[q].key
  <2>1. k \in Commands /\ request[q].run \in Runs
    BY <1>3 DEF TypeOK, Rebind
  <2>2. CASE StillCurrent(k, request[q].run)
    <3>1. InFlight(k) /\ cmd[k].child = request[q].run
      BY <2>2 DEF StillCurrent
    <3>2. /\ record[request[q].run] \in {"absent", "pre"}
          /\ child[request[q].run] \notin Owning
      BY <1>3, <2>1 DEF Decided, Exclusion, Rebind
    <3>3. Fresh(r) /\ request[q].pc = "rebind"
      BY <1>3, <2>2 DEF Rebind
    <3>4. BoundTo(q, k, r, cmd[k].status)
      BY <1>3, <2>1, <2>2 DEF Rebind, BoundTo, TypeOK
    <3>5. cmd[k].status \in {"accepted", "started"}
      BY <3>1 DEF InFlight
    <3> HIDE DEF k, Inv
    <3>6. request[q].key = k
      BY DEF k
    <3> QED
      BY <2>1, <3>1, <3>2, <3>3, <3>4, <3>5, <3>6, BoundToKeeps
  <2>3. CASE ~StillCurrent(k, request[q].run)
    BY <1>3, <2>3, AnswerKeeps DEF TypeOK, Rebind
  <2> QED
    BY <2>2, <2>3
<1>4. ASSUME NEW q \in Requests, CatchUp(q)
      PROVE  Inv'
  <2>1. TypeOK'
    <3>1. request[q].run \in Runs /\ request' \in [Requests -> RequestState]
      BY <1>4 DEF TypeOK, CatchUp, Goto, RequestState, RequestPc
    <3>2. row' \in [Runs -> RunStatus] /\ tail' \in Runs
      BY <1>4, <3>1 DEF TypeOK, CatchUp, AttachRow, RunStatus
    <3> QED
      BY <1>4, <3>1, <3>2 DEF TypeOK, CatchUp, Goto
  <2>2. Minted'
    BY <1>4 DEF Minted, CatchUp, AttachRow, Goto
  <2>3. SpawnedOnce'
    BY <1>4 DEF SpawnedOnce, CatchUp, AttachRow, Goto
  <2>4. Exclusion'
    BY <1>4 DEF Exclusion, CatchUp, AttachRow, Goto
  <2>5. Progress'
    BY <1>4 DEF Progress, Decided, CatchUp, AttachRow, Goto
  <2>6. RootDone'
    BY <1>4 DEF RootDone, CatchUp, AttachRow, Goto
  <2>7. Decided'
    BY <1>4 DEF Decided, CatchUp, AttachRow, Goto
  <2>8. TerminalMeansSealed'
    BY <1>4 DEF TerminalMeansSealed, CatchUp, AttachRow, Goto
  <2>9. Bound' /\ Pinned' /\ OneInFlight' /\ Rejected' /\ CompletedMeansSealed'
    BY <1>4 DEF Bound, Pinned, OneInFlight, Rejected, CompletedMeansSealed,
        InFlight, CatchUp, AttachRow, Goto
  <2> QED
    BY <2>1, <2>2, <2>3, <2>4, <2>5, <2>6, <2>7, <2>8, <2>9
<1>5. ASSUME NEW q \in Requests, Reseal(q)
      PROVE  Inv'
  <2>1. TypeOK'
    <3>1. request[q].run \in Runs /\ request' \in [Requests -> RequestState]
      BY <1>5 DEF TypeOK, Reseal, Goto, RequestState, RequestPc
    <3>2. row' \in [Runs -> RunStatus] /\ session' \subseteq Runs
      BY <1>5, <3>1 DEF TypeOK, Reseal, Receipt, RunStatus
    <3> QED
      BY <1>5, <3>1, <3>2 DEF TypeOK, Reseal, Goto
  <2>2. Minted'
    BY <1>5 DEF Minted, Reseal, Goto, Repairable, Receipt
  <2>3. SpawnedOnce'
    BY <1>5 DEF SpawnedOnce, Reseal, Goto, Repairable, Receipt
  <2>4. Exclusion'
    BY <1>5 DEF Exclusion, Reseal, Goto, Repairable, Receipt
  <2>5. Progress'
    BY <1>5 DEF Progress, Reseal, Goto, Repairable, Receipt
  <2>6. RootDone'
    BY <1>5 DEF RootDone, Reseal, Goto, Repairable, Receipt
  <2>7. Decided'
    BY <1>5 DEF Decided, Reseal, Goto, Repairable, Receipt
  <2>8. TerminalMeansSealed'
    BY <1>5 DEF RootDone, Decided, TerminalMeansSealed, Reseal, Goto,
        Repairable, Receipt
  <2>9. Bound' /\ Pinned' /\ OneInFlight' /\ Rejected' /\ CompletedMeansSealed'
    BY <1>5 DEF Bound, Pinned, OneInFlight, Rejected, CompletedMeansSealed,
        InFlight, Reseal, Goto, Repairable, Receipt
  <2> QED
    BY <2>1, <2>2, <2>3, <2>4, <2>5, <2>6, <2>7, <2>8, <2>9
<1>6. ASSUME NEW q \in Requests, CompleteRecovered(q)
      PROVE  Inv'
  <2>1. TypeOK'
    <3>1. request[q].key \in Commands
      BY <1>6 DEF TypeOK, CompleteRecovered
    <3>2. cmd' \in [Commands -> CommandRow]
      BY <1>6, <3>1, CommandUpdate DEF TypeOK, CompleteRecovered, CommandStatus
    <3>3. request' \in [Requests -> RequestState]
      BY <1>6 DEF TypeOK, CompleteRecovered, Answer, IdleRequest, RequestState,
          RequestPc
    <3> QED
      BY <1>6, <3>2, <3>3 DEF TypeOK, CompleteRecovered, Answer, IdleRequest
  <2>2. Minted'
    BY <1>6 DEF TypeOK, Minted, CompleteRecovered, Answer, IdleRequest
  <2>3. SpawnedOnce'
    BY <1>6 DEF SpawnedOnce, CompleteRecovered, Answer, IdleRequest
  <2>4. Exclusion'
    BY <1>6 DEF Exclusion, CompleteRecovered, Answer, IdleRequest
  <2>5. Decided'
    BY <1>6 DEF Decided, CompleteRecovered, Answer, IdleRequest
  <2>6. Bound'
    BY <1>6 DEF Exclusion, Decided, Bound, Rejected, TerminalMeansSealed,
        CompletedMeansSealed, Owning, Working, InFlight, CompleteRecovered,
        Answer, IdleRequest
  <2>7. Pinned'
    BY <1>6 DEF Pinned, CompleteRecovered, Answer, IdleRequest
  <2>8. OneInFlight'
    BY <1>6 DEF OneInFlight, InFlight, CompleteRecovered, Answer, IdleRequest
  <2>9. Rejected'
    BY <1>6 DEF Rejected, CompleteRecovered, Answer, IdleRequest
  <2>10. CompletedMeansSealed'
    BY <1>6 DEF TypeOK, Decided, TerminalMeansSealed, CompletedMeansSealed,
        CompleteRecovered, Answer, IdleRequest
  <2>11. Progress' /\ RootDone' /\ TerminalMeansSealed'
    BY <1>6 DEF Progress, RootDone, TerminalMeansSealed, CompleteRecovered
  <2> QED
    BY <2>1, <2>2, <2>3, <2>4, <2>5, <2>6, <2>7, <2>8, <2>9, <2>10, <2>11
<1>7. ASSUME NEW q \in Requests, Abandon(q)
      PROVE  Inv'
    BY <1>7, AnswerKeeps DEF Inv, TypeOK, Abandon, Fault
<1> QED
  BY <1>1, <1>2, <1>3, <1>4, <1>5, <1>6, <1>7

\* A child that goes on, up to the end of its command, keeps Inv.
LEMMA ChildSteps ==
  ASSUME Inv
  PROVE  /\ \A r \in Runs : Lock(r) => Inv'
         /\ \A r \in Runs : CheckBinding(r) => Inv'
         /\ \A r \in Runs : StartRecord(r) => Inv'
         /\ \A r \in Runs : Attach(r) => Inv'
         /\ \A r \in Runs : AppendAgentStarted(r) => Inv'
         /\ \A r \in Runs : Invoke(r) => Inv'
         /\ \A r \in Runs : AppendRunSealed(r) => Inv'
         /\ \A r \in Runs : Seal(r) => Inv'
         /\ \A r \in Runs : PersistSession(r) => Inv'
         /\ \A r \in Runs : Finish(r) => Inv'
<1> USE Distinct DEF Inv, ledger
<1>1. ASSUME NEW r \in Runs, Lock(r)
      PROVE  Inv'
  <2>1. owner[r] \in Commands /\ r # Root
    BY <1>1, ChildHasOwner DEF Lock
  <2>2. TypeOK'
    BY <1>1, <2>1 DEF TypeOK, RunStatus, RecordState, ChildPc, Lock, ChildGoto,
        LockHeld
  <2>3. Minted'
    BY <1>1, <2>1 DEF Minted, Lock, ChildGoto, LockHeld
  <2>4. SpawnedOnce'
    BY <1>1, <2>1 DEF SpawnedOnce, Lock, ChildGoto, LockHeld
  <2>5. Exclusion'
    BY <1>1, <2>1 DEF Exclusion, Owning, Lock, ChildGoto, LockHeld
  <2>6. Progress'
    BY <1>1, <2>1 DEF Progress, Lock, ChildGoto, LockHeld
  <2>7. Bound'
    BY <1>1, <2>1 DEF Bound, Owning, Working, InFlight, Lock, ChildGoto,
        LockHeld
  <2>8. Rejected'
    BY <1>1, <2>1 DEF Rejected, Lock, ChildGoto, LockHeld
  <2>9. RootDone' /\ Decided' /\ Pinned' /\ OneInFlight' /\ TerminalMeansSealed' /\
         CompletedMeansSealed'
    BY <1>1, <2>1 DEF RootDone, Decided, Pinned, OneInFlight,
        TerminalMeansSealed, CompletedMeansSealed, InFlight, Lock, ChildGoto,
        LockHeld
  <2> QED
    BY <2>2, <2>3, <2>4, <2>5, <2>6, <2>7, <2>8, <2>9
<1>2. ASSUME NEW r \in Runs, CheckBinding(r)
      PROVE  Inv'
  <2>1. owner[r] \in Commands /\ r # Root
    BY <1>2, ChildHasOwner DEF CheckBinding
  <2>2. TypeOK'
    BY <1>2, <2>1 DEF TypeOK, RunStatus, RecordState, ChildPc, CheckBinding,
        ChildGoto
  <2>3. Minted'
    BY <1>2, <2>1 DEF Minted, CheckBinding, ChildGoto
  <2>4. SpawnedOnce'
    BY <1>2, <2>1 DEF SpawnedOnce, CheckBinding, ChildGoto
  <2>5. Exclusion'
    BY <1>2, <2>1 DEF Exclusion, Owning, CheckBinding, ChildGoto
  <2>6. Progress'
    BY <1>2, <2>1 DEF Progress, CheckBinding, ChildGoto
  <2>7. Bound'
    BY <1>2, <2>1 DEF TypeOK, Minted, Exclusion, Progress, Decided, Bound,
        Rejected, TerminalMeansSealed, CompletedMeansSealed, CommandStatus,
        CommandRow, RequestState, Owning, Working, InFlight, CheckBinding,
        ChildGoto
  <2>8. Rejected'
    BY <1>2, <2>1 DEF Rejected, CheckBinding, ChildGoto
  <2>9. RootDone' /\ Decided' /\ Pinned' /\ OneInFlight' /\ TerminalMeansSealed' /\
         CompletedMeansSealed'
    BY <1>2, <2>1 DEF RootDone, Decided, Pinned, OneInFlight,
        TerminalMeansSealed, CompletedMeansSealed, InFlight, CheckBinding,
        ChildGoto
  <2> QED
    BY <2>2, <2>3, <2>4, <2>5, <2>6, <2>7, <2>8, <2>9
<1>3. ASSUME NEW r \in Runs, StartRecord(r)
      PROVE  Inv'
  <2>1. owner[r] \in Commands /\ r # Root
    BY <1>3, ChildHasOwner DEF StartRecord
  <2>2. TypeOK'
    BY <1>3, <2>1 DEF TypeOK, RunStatus, RecordState, ChildPc, StartRecord,
        ChildGoto
  <2>3. Minted'
    BY <1>3, <2>1 DEF Minted, StartRecord, ChildGoto
  <2>4. SpawnedOnce'
    BY <1>3, <2>1 DEF SpawnedOnce, StartRecord, ChildGoto
  <2>5. Exclusion'
    BY <1>3, <2>1 DEF Exclusion, Owning, StartRecord, ChildGoto
  <2>6. Progress'
    BY <1>3, <2>1 DEF TypeOK, Progress, StartRecord, ChildGoto
  <2>7. RootDone'
    BY <1>3, <2>1 DEF RootDone, StartRecord, ChildGoto
  <2>8. Decided'
    BY <1>3, <2>1 DEF Progress, Decided, StartRecord, ChildGoto
  <2>9. Bound'
    BY <1>3, <2>1 DEF Bound, Owning, Working, InFlight, StartRecord, ChildGoto
  <2>10. Pinned'
    BY <1>3, <2>1 DEF Pinned, StartRecord, ChildGoto
  <2>11. Rejected'
    BY <1>3, <2>1 DEF Rejected, StartRecord, ChildGoto
  <2>12. TerminalMeansSealed'
    BY <1>3, <2>1 DEF Progress, RootDone, TerminalMeansSealed, StartRecord,
        ChildGoto
  <2>13. CompletedMeansSealed'
    BY <1>3, <2>1 DEF Progress, CompletedMeansSealed, StartRecord, ChildGoto
  <2>14. OneInFlight'
    BY <1>3, <2>1 DEF OneInFlight, InFlight, StartRecord, ChildGoto
  <2> QED
    BY <2>2, <2>3, <2>4, <2>5, <2>6, <2>7, <2>8, <2>9, <2>10, <2>11, <2>12,
        <2>13, <2>14
<1>4. ASSUME NEW r \in Runs, Attach(r)
      PROVE  Inv'
  <2>1. owner[r] \in Commands /\ r # Root
    BY <1>4, ChildHasOwner DEF Attach
  <2>2. TypeOK'
    BY <1>4, <2>1 DEF TypeOK, RunStatus, RecordState, ChildPc, Attach,
        ChildGoto, AttachRow
  <2>3. Minted'
    BY <1>4, <2>1 DEF Minted, Attach, ChildGoto, AttachRow
  <2>4. SpawnedOnce'
    BY <1>4, <2>1 DEF SpawnedOnce, Attach, ChildGoto, AttachRow
  <2>5. Exclusion'
    BY <1>4, <2>1 DEF Exclusion, Owning, Attach, ChildGoto, AttachRow
  <2>6. Progress'
    BY <1>4, <2>1 DEF TypeOK, Progress, Attach, ChildGoto, AttachRow
  <2>7. RootDone'
    BY <1>4, <2>1 DEF RootDone, Attach, ChildGoto, AttachRow
  <2>8. Bound'
    BY <1>4, <2>1 DEF Bound, Owning, Working, InFlight, Attach, ChildGoto,
        AttachRow
  <2>9. Rejected'
    BY <1>4, <2>1 DEF Rejected, Attach, ChildGoto, AttachRow
  <2>10. TerminalMeansSealed'
    BY <1>4, <2>1 DEF TerminalMeansSealed, Attach, ChildGoto, AttachRow
  <2>11. Decided' /\ Pinned' /\ OneInFlight' /\ CompletedMeansSealed'
    BY <1>4, <2>1 DEF Decided, Pinned, OneInFlight, CompletedMeansSealed,
        InFlight, Attach, ChildGoto, AttachRow
  <2> QED
    BY <2>2, <2>3, <2>4, <2>5, <2>6, <2>7, <2>8, <2>9, <2>10, <2>11
<1>5. ASSUME NEW r \in Runs, AppendAgentStarted(r)
      PROVE  Inv'
  <2>1. owner[r] \in Commands /\ r # Root
    BY <1>5, ChildHasOwner DEF AppendAgentStarted
  <2>2. TypeOK'
    BY <1>5, <2>1 DEF TypeOK, RunStatus, RecordState, ChildPc,
        AppendAgentStarted, ChildGoto
  <2>3. Minted'
    BY <1>5, <2>1 DEF Minted, AppendAgentStarted, ChildGoto
  <2>4. SpawnedOnce'
    BY <1>5, <2>1 DEF SpawnedOnce, AppendAgentStarted, ChildGoto
  <2>5. Exclusion'
    BY <1>5, <2>1 DEF Exclusion, Owning, AppendAgentStarted, ChildGoto
  <2>6. Progress'
    BY <1>5, <2>1 DEF TypeOK, Progress, AppendAgentStarted, ChildGoto
  <2>7. RootDone'
    BY <1>5, <2>1 DEF RootDone, AppendAgentStarted, ChildGoto
  <2>8. Decided'
    BY <1>5, <2>1 DEF Exclusion, Progress, Decided, Owning, AppendAgentStarted,
        ChildGoto
  <2>9. Bound'
    BY <1>5, <2>1 DEF Bound, Owning, Working, InFlight, AppendAgentStarted,
        ChildGoto
  <2>10. Pinned'
    BY <1>5, <2>1 DEF Decided, Bound, Pinned, Owning, Working,
        AppendAgentStarted, ChildGoto
  <2>11. Rejected'
    BY <1>5, <2>1 DEF Rejected, AppendAgentStarted, ChildGoto
  <2>12. TerminalMeansSealed'
    BY <1>5, <2>1 DEF Progress, RootDone, TerminalMeansSealed,
        AppendAgentStarted, ChildGoto
  <2>13. CompletedMeansSealed'
    BY <1>5, <2>1 DEF Progress, CompletedMeansSealed, AppendAgentStarted,
        ChildGoto
  <2>14. OneInFlight'
    BY <1>5, <2>1 DEF OneInFlight, InFlight, AppendAgentStarted, ChildGoto
  <2> QED
    BY <2>2, <2>3, <2>4, <2>5, <2>6, <2>7, <2>8, <2>9, <2>10, <2>11, <2>12,
        <2>13, <2>14
<1>6. ASSUME NEW r \in Runs, Invoke(r)
      PROVE  Inv'
  <2>1. owner[r] \in Commands /\ r # Root
    BY <1>6, ChildHasOwner DEF Invoke
  <2>2. TypeOK'
    BY <1>6, <2>1 DEF TypeOK, RunStatus, RecordState, ChildPc, Invoke,
        ChildGoto
  <2>3. Minted'
    BY <1>6, <2>1 DEF Minted, Invoke, ChildGoto
  <2>4. SpawnedOnce'
    BY <1>6, <2>1 DEF SpawnedOnce, Invoke, ChildGoto
  <2>5. Exclusion'
    BY <1>6, <2>1 DEF Exclusion, Owning, Invoke, ChildGoto
  <2>6. Progress'
    BY <1>6, <2>1 DEF Progress, Invoke, ChildGoto
  <2>7. RootDone'
    BY <1>6, <2>1 DEF RootDone, Invoke, ChildGoto
  <2>8. Bound'
    BY <1>6, <2>1 DEF Bound, Owning, Working, InFlight, Invoke, ChildGoto
  <2>9. Rejected'
    BY <1>6, <2>1 DEF Rejected, Invoke, ChildGoto
  <2>10. Decided' /\ Pinned' /\ OneInFlight' /\ TerminalMeansSealed' /\
         CompletedMeansSealed'
    BY <1>6, <2>1 DEF Decided, Pinned, OneInFlight, TerminalMeansSealed,
        CompletedMeansSealed, InFlight, Invoke, ChildGoto
  <2> QED
    BY <2>2, <2>3, <2>4, <2>5, <2>6, <2>7, <2>8, <2>9, <2>10
<1>7. ASSUME NEW r \in Runs, AppendRunSealed(r)
      PROVE  Inv'
  <2>1. owner[r] \in Commands /\ r # Root
    BY <1>7, ChildHasOwner DEF AppendRunSealed
  <2>2. TypeOK'
    BY <1>7, <2>1 DEF TypeOK, RunStatus, RecordState, ChildPc, AppendRunSealed,
        ChildGoto
  <2>3. Minted'
    BY <1>7, <2>1 DEF Minted, AppendRunSealed, ChildGoto
  <2>4. SpawnedOnce'
    BY <1>7, <2>1 DEF SpawnedOnce, AppendRunSealed, ChildGoto
  <2>5. Exclusion'
    BY <1>7, <2>1 DEF Exclusion, Owning, AppendRunSealed, ChildGoto
  <2>6. Progress'
    BY <1>7, <2>1 DEF TypeOK, Progress, AppendRunSealed, ChildGoto
  <2>7. RootDone'
    BY <1>7, <2>1 DEF RootDone, AppendRunSealed, ChildGoto
  <2>8. Decided'
    BY <1>7, <2>1 DEF Progress, Decided, AppendRunSealed, ChildGoto
  <2>9. Bound'
    BY <1>7, <2>1 DEF Bound, Owning, Working, InFlight, AppendRunSealed,
        ChildGoto
  <2>10. Pinned'
    BY <1>7, <2>1 DEF Progress, Pinned, AppendRunSealed, ChildGoto
  <2>11. Rejected'
    BY <1>7, <2>1 DEF Rejected, AppendRunSealed, ChildGoto
  <2>12. TerminalMeansSealed'
    BY <1>7, <2>1 DEF TerminalMeansSealed, AppendRunSealed, ChildGoto
  <2>13. CompletedMeansSealed'
    BY <1>7, <2>1 DEF CompletedMeansSealed, AppendRunSealed, ChildGoto
  <2>14. OneInFlight'
    BY <1>7, <2>1 DEF OneInFlight, InFlight, AppendRunSealed, ChildGoto
  <2> QED
    BY <2>2, <2>3, <2>4, <2>5, <2>6, <2>7, <2>8, <2>9, <2>10, <2>11, <2>12,
        <2>13, <2>14
<1>8. ASSUME NEW r \in Runs, Seal(r)
      PROVE  Inv'
  <2>1. owner[r] \in Commands /\ r # Root
    BY <1>8, ChildHasOwner DEF Seal
  <2>2. TypeOK'
    <3>1. row' \in [Runs -> RunStatus]
      BY <1>8, <2>1 DEF TypeOK, Seal, RunStatus
    <3>2. child' \in [Runs -> ChildPc] /\ faults' \in 0..MaxFaults
      BY <1>8, <2>1 DEF TypeOK, Seal, Fault, ChildGoto, ChildPc
    <3> QED
      BY <1>8, <2>1, <3>1, <3>2 DEF TypeOK, Seal
  <2>3. Minted'
    BY <1>8, <2>1 DEF Minted, Seal, ChildGoto, Sealable
  <2>4. SpawnedOnce'
    BY <1>8, <2>1 DEF SpawnedOnce, Seal, ChildGoto, Sealable
  <2>5. Exclusion'
    BY <1>8, <2>1 DEF Exclusion, Owning, Seal, ChildGoto, Sealable
  <2>6. Progress'
    BY <1>8, <2>1 DEF TypeOK, Progress, Seal, ChildGoto, Sealable
  <2>7. RootDone'
    BY <1>8, <2>1 DEF TypeOK, RootDone, Seal, ChildGoto, Sealable
  <2>8. Bound'
    BY <1>8, <2>1 DEF Bound, Owning, Working, InFlight, Seal, ChildGoto,
        Sealable, Fault
  <2>9. Rejected'
    BY <1>8, <2>1 DEF Rejected, Seal, ChildGoto, Sealable
  <2>10. TerminalMeansSealed'
    BY <1>8, <2>1 DEF TypeOK, Progress, RootDone, TerminalMeansSealed, Seal,
        ChildGoto, Sealable
  <2>11. Decided' /\ Pinned' /\ OneInFlight' /\ CompletedMeansSealed'
    BY <1>8, <2>1 DEF Decided, Pinned, OneInFlight, CompletedMeansSealed,
        InFlight, Seal, ChildGoto, Sealable, Fault
  <2> QED
    BY <2>2, <2>3, <2>4, <2>5, <2>6, <2>7, <2>8, <2>9, <2>10, <2>11
<1>9. ASSUME NEW r \in Runs, PersistSession(r)
      PROVE  Inv'
  <2>1. TypeOK'
    BY <1>9 DEF TypeOK, PersistSession, Receipt
  <2>2. Minted' /\ SpawnedOnce' /\ Exclusion' /\ Progress' /\ RootDone' /\ Decided' /\
         Bound' /\ Pinned' /\ OneInFlight' /\ Rejected' /\ TerminalMeansSealed' /\
         CompletedMeansSealed'
    BY <1>9 DEF Minted, SpawnedOnce, Exclusion, Progress, RootDone, Decided,
        Bound, Pinned, OneInFlight, Rejected, TerminalMeansSealed,
        CompletedMeansSealed, InFlight, PersistSession, Receipt
  <2> QED
    BY <2>1, <2>2
<1>10. ASSUME NEW r \in Runs, Finish(r)
      PROVE  Inv'
  <2>1. owner[r] \in Commands /\ r # Root
    BY <1>10, ChildHasOwner DEF Finish
  <2>2. TypeOK'
    BY <1>10, <2>1, CommandUpdate DEF TypeOK, CommandRow, CommandStatus,
        RunStatus, RecordState, ChildPc, RequestState, RequestPc, Finish,
        ChildGoto, Receipt
  <2>3. Minted'
    BY <1>10, <2>1 DEF Minted, Finish, ChildGoto, Receipt
  <2>4. SpawnedOnce'
    BY <1>10, <2>1 DEF SpawnedOnce, Finish, ChildGoto, Receipt
  <2>5. Exclusion'
    BY <1>10, <2>1 DEF Exclusion, Owning, Finish, ChildGoto, Receipt
  <2>6. Progress'
    BY <1>10, <2>1 DEF Progress, Finish, ChildGoto, Receipt
  <2>7. Bound'
    BY <1>10, <2>1 DEF Bound, Owning, Working, InFlight, Finish, ChildGoto,
        Receipt
  <2>8. Pinned'
    BY <1>10, <2>1 DEF Pinned, Finish, ChildGoto, Receipt
  <2>9. OneInFlight'
    BY <1>10, <2>1 DEF OneInFlight, InFlight, Finish, ChildGoto, Receipt
  <2>10. Rejected'
    BY <1>10, <2>1 DEF Rejected, Finish, ChildGoto, Receipt
  <2>11. CompletedMeansSealed'
    BY <1>10, <2>1 DEF Progress, CompletedMeansSealed, Finish, ChildGoto,
        Receipt
  <2>12. RootDone' /\ Decided' /\ TerminalMeansSealed'
    BY <1>10, <2>1 DEF RootDone, Decided, TerminalMeansSealed, Finish
  <2> QED
    BY <2>2, <2>3, <2>4, <2>5, <2>6, <2>7, <2>8, <2>9, <2>10, <2>11, <2>12
<1> QED
  BY <1>1, <1>2, <1>3, <1>4, <1>5, <1>6, <1>7, <1>8, <1>9, <1>10

\* A child that fails, rejects its command or dies keeps Inv.
LEMMA FailureSteps ==
  ASSUME Inv
  PROVE  /\ \A r \in Runs : Fail(r) => Inv'
         /\ \A r \in Runs : Reject(r) => Inv'
         /\ \A r \in Runs : Die(r) => Inv'
<1> USE Distinct DEF Inv, ledger
<1>1. ASSUME NEW r \in Runs, Fail(r)
      PROVE  Inv'
  <2>1. owner[r] \in Commands /\ r # Root
    BY <1>1, ChildHasOwner DEF Fail
  <2>2. TypeOK'
    <3>1. record' \in [Runs -> RecordState]
      BY <1>1, <2>1 DEF Fail, TypeOK, TornRecord, RecordState
    <3>2. row' \in [Runs -> RunStatus] /\ tail' \in Runs
      BY <1>1, <2>1 DEF Fail, TypeOK, RunStatus
    <3>3. child' \in [Runs -> ChildPc] /\ faults' \in 0..MaxFaults
      BY <1>1, <2>1 DEF Fail, TypeOK, Fault, ChildGoto, ChildPc
    <3> QED
      BY <1>1, <2>1, <3>1, <3>2, <3>3 DEF Fail, TypeOK
  <2>3. Minted'
    BY <1>1, <2>1 DEF Minted, Fail, ChildGoto
  <2>4. SpawnedOnce'
    BY <1>1, <2>1 DEF SpawnedOnce, Fail, ChildGoto
  <2>5. Exclusion'
    BY <1>1, <2>1 DEF Exclusion, Owning, Fail, ChildGoto
  <2>6. Progress'
    BY <1>1, <2>1 DEF TypeOK, Progress, Fail, ChildGoto, Fault, TornRecord,
        Appending
  <2>7. RootDone'
    BY <1>1, <2>1 DEF TypeOK, RootDone, Fail, ChildGoto, Fault, TornRecord,
        Appending
  <2>8. Decided'
    BY <1>1, <2>1 DEF TypeOK, Exclusion, Progress, Decided, Owning, Fail,
        ChildGoto, Fault, TornRecord, Appending
  <2>9. Bound'
    BY <1>1, <2>1 DEF Bound, Owning, Working, InFlight, Fail, ChildGoto, Fault,
        TornRecord, Appending
  <2>10. Pinned'
    BY <1>1, <2>1 DEF TypeOK, Decided, Bound, Pinned, Owning, Working,
        InFlight, Fail, ChildGoto, Fault, TornRecord, Appending
  <2>11. Rejected'
    BY <1>1, <2>1 DEF Rejected, Fail, ChildGoto
  <2>12. TerminalMeansSealed'
    BY <1>1, <2>1 DEF TypeOK, Progress, RootDone, TerminalMeansSealed, Fail,
        ChildGoto, Fault, TornRecord, Appending
  <2>13. CompletedMeansSealed'
    BY <1>1, <2>1 DEF TypeOK, Progress, CompletedMeansSealed, Fail, ChildGoto,
        Fault, TornRecord, Appending
  <2>14. OneInFlight'
    BY <1>1, <2>1 DEF OneInFlight, InFlight, Fail, ChildGoto, Fault,
        TornRecord, Appending
  <2> QED
    BY <2>2, <2>3, <2>4, <2>5, <2>6, <2>7, <2>8, <2>9, <2>10, <2>11, <2>12,
        <2>13, <2>14
<1>2. ASSUME NEW r \in Runs, Reject(r)
      PROVE  Inv'
  <2>1. owner[r] \in Commands /\ r # Root
    BY <1>2, ChildHasOwner DEF Reject
  <2>2. TypeOK'
    BY <1>2, <2>1, CommandUpdate DEF TypeOK, CommandRow, CommandStatus,
        RunStatus, RecordState, ChildPc, RequestState, RequestPc, Reject,
        ChildGoto, Rejectable
  <2>3. Minted'
    BY <1>2, <2>1 DEF Minted, Reject, ChildGoto, Rejectable
  <2>4. SpawnedOnce'
    BY <1>2, <2>1 DEF SpawnedOnce, Reject, ChildGoto, Rejectable
  <2>5. Exclusion'
    BY <1>2, <2>1 DEF Exclusion, Owning, Reject, ChildGoto, Rejectable
  <2>6. Progress'
    BY <1>2, <2>1 DEF Progress, Reject, ChildGoto, Rejectable
  <2>7. Bound'
    BY <1>2, <2>1 DEF Bound, Owning, Working, InFlight, Reject, ChildGoto,
        Rejectable
  <2>8. Pinned'
    BY <1>2, <2>1 DEF Pinned, Reject, ChildGoto, Rejectable
  <2>9. OneInFlight'
    BY <1>2, <2>1 DEF OneInFlight, InFlight, Reject, ChildGoto, Rejectable
  <2>10. Rejected'
    BY <1>2, <2>1 DEF TypeOK, Progress, Rejected, Reject, ChildGoto, Rejectable
  <2>11. CompletedMeansSealed'
    BY <1>2, <2>1 DEF CompletedMeansSealed, Reject, ChildGoto, Rejectable
  <2>12. RootDone' /\ Decided' /\ TerminalMeansSealed'
    BY <1>2, <2>1 DEF RootDone, Decided, TerminalMeansSealed, Reject
  <2> QED
    BY <2>2, <2>3, <2>4, <2>5, <2>6, <2>7, <2>8, <2>9, <2>10, <2>11, <2>12
<1>3. ASSUME NEW r \in Runs, Die(r)
      PROVE  Inv'
  <2>1. owner[r] \in Commands /\ r # Root
    BY <1>3, ChildHasOwner DEF Die, Owning
  <2>2. TypeOK'
    BY <1>3, <2>1 DEF TypeOK, RunStatus, RecordState, ChildPc, Die, ChildGoto,
        Fault, TornRecord, Appending
  <2>3. Minted'
    BY <1>3, <2>1 DEF Minted, Die, ChildGoto
  <2>4. SpawnedOnce'
    BY <1>3, <2>1 DEF SpawnedOnce, Die, ChildGoto, Owning
  <2>5. Exclusion'
    BY <1>3, <2>1 DEF Exclusion, Owning, Die, ChildGoto
  <2>6. Progress'
    BY <1>3, <2>1 DEF TypeOK, Progress, Die, ChildGoto, Fault, TornRecord,
        Appending
  <2>7. RootDone'
    BY <1>3, <2>1 DEF TypeOK, RootDone, Die, ChildGoto, Fault, TornRecord,
        Appending
  <2>8. Decided'
    BY <1>3, <2>1 DEF TypeOK, Exclusion, Progress, Decided, Die, ChildGoto,
        Fault, TornRecord, Appending
  <2>9. Bound'
    BY <1>3, <2>1 DEF Bound, Owning, Working, InFlight, Die, ChildGoto, Fault,
        TornRecord, Appending
  <2>10. Pinned'
    BY <1>3, <2>1 DEF TypeOK, Decided, Bound, Pinned, InFlight, Die, ChildGoto,
        Fault, TornRecord, Appending
  <2>11. Rejected'
    BY <1>3, <2>1 DEF Rejected, Die, ChildGoto
  <2>12. TerminalMeansSealed'
    BY <1>3, <2>1 DEF TypeOK, Progress, RootDone, TerminalMeansSealed, Die,
        ChildGoto, Fault, TornRecord, Appending
  <2>13. CompletedMeansSealed'
    BY <1>3, <2>1 DEF TypeOK, Progress, CompletedMeansSealed, Die, ChildGoto,
        Fault, TornRecord, Appending
  <2>14. OneInFlight'
    BY <1>3, <2>1 DEF OneInFlight, InFlight, Die, ChildGoto, Fault, TornRecord,
        Appending
  <2> QED
    BY <2>2, <2>3, <2>4, <2>5, <2>6, <2>7, <2>8, <2>9, <2>10, <2>11, <2>12,
        <2>13, <2>14
<1> QED
  BY <1>1, <1>2, <1>3

\* The clock and `o7 recover` keep Inv.
LEMMA RecoverSteps ==
  ASSUME Inv
  PROVE  /\ \A k \in Commands : GrowStale(k) => Inv'
         /\ \A r \in Runs : RecoverAttach(r) => Inv'
         /\ RecoverSeal => Inv'
         /\ RecoverScan => Inv'
         /\ MarkInterrupted => Inv'
         /\ Reconcile => Inv'
         /\ RecoverStops => Inv'
<1> USE Distinct DEF Inv, ledger
<1>1. ASSUME NEW k \in Commands, GrowStale(k)
      PROVE  Inv'
  <2>1. TypeOK'
    BY <1>1 DEF TypeOK, GrowStale, InFlight, Fault
  <2>2. Minted' /\ SpawnedOnce' /\ Exclusion' /\ Progress' /\ RootDone' /\ Decided' /\
         Bound' /\ Pinned' /\ OneInFlight' /\ Rejected' /\ TerminalMeansSealed' /\
         CompletedMeansSealed'
    BY <1>1 DEF Minted, SpawnedOnce, Exclusion, Progress, RootDone, Decided,
        Bound, Pinned, OneInFlight, Rejected, TerminalMeansSealed,
        CompletedMeansSealed, InFlight, GrowStale, Fault
  <2> QED
    BY <2>1, <2>2
<1>2. ASSUME NEW r \in Runs, RecoverAttach(r)
      PROVE  Inv'
  <2>1. TypeOK'
    BY <1>2 DEF TypeOK, RunStatus, RecordState, ChildPc, RecoverAttach,
        AttachRow, AfterAttach, Receipt
  <2>2. Progress'
    BY <1>2 DEF Progress, RecoverAttach, AttachRow, AfterAttach, Receipt
  <2>3. RootDone'
    BY <1>2 DEF RootDone, RecoverAttach, AttachRow, AfterAttach, Receipt
  <2>4. Decided'
    BY <1>2 DEF Decided, RecoverAttach, AttachRow, AfterAttach, Receipt
  <2>5. TerminalMeansSealed'
    BY <1>2 DEF TerminalMeansSealed, RecoverAttach, AttachRow, AfterAttach,
        Receipt
  <2>6. Minted' /\ SpawnedOnce' /\ Exclusion' /\ Bound' /\ Pinned' /\ OneInFlight' /\
         Rejected' /\ CompletedMeansSealed'
    BY <1>2 DEF Minted, SpawnedOnce, Exclusion, Bound, Pinned, OneInFlight,
        Rejected, CompletedMeansSealed, InFlight, RecoverAttach, AttachRow,
        AfterAttach, Receipt
  <2> QED
    BY <2>1, <2>2, <2>3, <2>4, <2>5, <2>6
<1>3. ASSUME RecoverSeal
      PROVE  Inv'
  <2>1. TypeOK'
    BY <1>3 DEF TypeOK, RunStatus, RecordState, ChildPc, RecoverSeal,
        Repairable, Receipt
  <2>2. Progress'
    BY <1>3 DEF Progress, RecoverSeal, Repairable, Receipt
  <2>3. RootDone'
    BY <1>3 DEF RootDone, RecoverSeal, Repairable, Receipt
  <2>4. Decided'
    BY <1>3 DEF Decided, RecoverSeal, Repairable, Receipt
  <2>5. TerminalMeansSealed'
    BY <1>3 DEF RootDone, Decided, TerminalMeansSealed, RecoverSeal,
        Repairable, Receipt
  <2>6. Minted' /\ SpawnedOnce' /\ Exclusion' /\ Bound' /\ Pinned' /\ OneInFlight' /\
         Rejected' /\ CompletedMeansSealed'
    BY <1>3 DEF Minted, SpawnedOnce, Exclusion, Bound, Pinned, OneInFlight,
        Rejected, CompletedMeansSealed, InFlight, RecoverSeal, Repairable,
        Receipt
  <2> QED
    BY <2>1, <2>2, <2>3, <2>4, <2>5, <2>6
<1>4. ASSUME RecoverScan
      PROVE  Inv'
  <2>1. TypeOK'
    BY <1>4 DEF TypeOK, RecoverScan
  <2>2. Decided'
    BY <1>4 DEF Decided, RecoverScan
  <2>3. Minted' /\ SpawnedOnce' /\ Exclusion' /\ Progress' /\ RootDone' /\ Bound' /\
         Pinned' /\ OneInFlight' /\ Rejected' /\ TerminalMeansSealed' /\
         CompletedMeansSealed'
    BY <1>4 DEF Minted, SpawnedOnce, Exclusion, Progress, RootDone, Bound,
        Pinned, OneInFlight, Rejected, TerminalMeansSealed,
        CompletedMeansSealed, InFlight, RecoverScan
  <2> QED
    BY <2>1, <2>2, <2>3
<1>5. ASSUME MarkInterrupted
      PROVE  Inv'
  <2>1. TypeOK'
    BY <1>5 DEF TypeOK, RunStatus, RecordState, ChildPc, MarkInterrupted,
        IdleRecover
  <2>2. Progress'
    BY <1>5 DEF Progress, MarkInterrupted, IdleRecover
  <2>3. RootDone'
    BY <1>5 DEF RootDone, MarkInterrupted, IdleRecover
  <2>4. Decided'
    BY <1>5 DEF Decided, MarkInterrupted, IdleRecover
  <2>5. TerminalMeansSealed'
    BY <1>5 DEF TerminalMeansSealed, MarkInterrupted, IdleRecover
  <2>6. Minted' /\ SpawnedOnce' /\ Exclusion' /\ Bound' /\ Pinned' /\ OneInFlight' /\
         Rejected' /\ CompletedMeansSealed'
    BY <1>5 DEF Minted, SpawnedOnce, Exclusion, Bound, Pinned, OneInFlight,
        Rejected, CompletedMeansSealed, InFlight, MarkInterrupted, IdleRecover
  <2> QED
    BY <2>1, <2>2, <2>3, <2>4, <2>5, <2>6
<1>6. ASSUME Reconcile
      PROVE  Inv'
  <2>1. TypeOK'
    BY <1>6 DEF TypeOK, CommandRow, CommandStatus, RequestState, RequestPc,
        Reconcile, SealedRow, IdleRecover
  <2>2. Minted'
    BY <1>6 DEF TypeOK, Minted, CommandRow, RequestState, Reconcile, SealedRow,
        IdleRecover
  <2>3. Decided'
    BY <1>6 DEF Decided, Reconcile, SealedRow, IdleRecover
  <2>4. Bound'
    BY <1>6 DEF TypeOK, Minted, Exclusion, Progress, Decided, Bound, Rejected,
        TerminalMeansSealed, CompletedMeansSealed, Owning, Working, InFlight,
        Reconcile, SealedRow, IdleRecover
  <2>5. Pinned'
    BY <1>6 DEF Pinned, Reconcile, SealedRow, IdleRecover
  <2>6. OneInFlight'
    BY <1>6 DEF OneInFlight, InFlight, Reconcile, SealedRow, IdleRecover
  <2>7. Rejected'
    BY <1>6 DEF Rejected, Reconcile, SealedRow, IdleRecover
  <2>8. CompletedMeansSealed'
    BY <1>6 DEF TypeOK, Decided, TerminalMeansSealed, CompletedMeansSealed,
        CommandRow, RequestState, Reconcile, SealedRow, IdleRecover
  <2>9. SpawnedOnce' /\ Exclusion' /\ Progress' /\ RootDone' /\ TerminalMeansSealed'
    BY <1>6 DEF SpawnedOnce, Exclusion, Progress, RootDone,
        TerminalMeansSealed, Reconcile
  <2> QED
    BY <2>1, <2>2, <2>3, <2>4, <2>5, <2>6, <2>7, <2>8, <2>9
<1>7. ASSUME RecoverStops
      PROVE  Inv'
  <2>1. TypeOK'
    BY <1>7 DEF TypeOK, RecoverStops, IdleRecover
  <2>2. Decided'
    BY <1>7 DEF Decided, RecoverStops, IdleRecover
  <2>3. Minted' /\ SpawnedOnce' /\ Exclusion' /\ Progress' /\ RootDone' /\ Bound' /\
         Pinned' /\ OneInFlight' /\ Rejected' /\ TerminalMeansSealed' /\
         CompletedMeansSealed'
    BY <1>7 DEF Minted, SpawnedOnce, Exclusion, Progress, RootDone, Bound,
        Pinned, OneInFlight, Rejected, TerminalMeansSealed,
        CompletedMeansSealed, InFlight, RecoverStops, IdleRecover
  <2> QED
    BY <2>1, <2>2, <2>3
<1> QED
  BY <1>1, <1>2, <1>3, <1>4, <1>5, <1>6, <1>7

\* An empty command table and a finished root run satisfy Inv.
LEMMA InitInv == Init => Inv
<1> SUFFICES ASSUME Init
             PROVE  Inv
  OBVIOUS
<1> USE Distinct DEF Init, IdleRequest, IdleRecover
<1>1. TypeOK
  <2>1. cmd \in [Commands -> CommandRow]
    BY DEF CommandRow, CommandStatus
  <2>2. request \in [Requests -> RequestState]
    BY DEF RequestState, RequestPc
  <2>3. /\ row \in [Runs -> RunStatus]
        /\ record \in [Runs -> RecordState]
        /\ child \in [Runs -> ChildPc]
    BY DEF RunStatus, RecordState, ChildPc
  <2> QED
    BY <2>1, <2>2, <2>3 DEF TypeOK
<1>2. Minted /\ SpawnedOnce /\ Exclusion /\ Decided
  BY DEF Minted, SpawnedOnce, Exclusion, Decided
<1>3. Progress /\ RootDone /\ Bound /\ Pinned /\ OneInFlight /\ Rejected
  BY DEF Progress, RootDone, Bound, Owning, Working, Pinned, OneInFlight,
      InFlight, Rejected
<1>4. TerminalMeansSealed /\ CompletedMeansSealed
  BY DEF TerminalMeansSealed, CompletedMeansSealed
<1> QED
  BY <1>1, <1>2, <1>3, <1>4 DEF Inv

\* Every step of a handler, a child, `o7 recover` or the clock preserves Inv.
LEMMA NextInv == Inv /\ [Next]_vars => Inv'
<1> SUFFICES ASSUME Inv, [Next]_vars
             PROVE  Inv'
  OBVIOUS
<1>1. CASE UNCHANGED vars
  BY <1>1 DEF vars, ledger, Inv, TypeOK, Minted, SpawnedOnce, Exclusion,
      Progress, RootDone, Decided, Bound, Pinned, OneInFlight, InFlight,
      Rejected, TerminalMeansSealed, CompletedMeansSealed
<1>2. ASSUME NEW q \in Requests, NEW k \in Commands,
             (\E p \in Runs : Accept(q, k, p)) \/ Retry(q, k)
      PROVE  Inv'
  BY <1>2, AcceptSteps
<1>3. ASSUME NEW q \in Requests, RequestStep(q) \/ Abandon(q)
      PROVE  Inv'
  BY <1>3, AcceptSteps, RedriveSteps DEF RequestStep
<1>4. ASSUME NEW r \in Runs, ChildStep(r) \/ Fail(r) \/ Die(r)
      PROVE  Inv'
  BY <1>4, ChildSteps, FailureSteps DEF ChildStep
<1>5. ASSUME NEW k \in Commands, GrowStale(k)
      PROVE  Inv'
  BY <1>5, RecoverSteps
<1>6. CASE RecoverStep
  BY <1>6, RecoverSteps DEF RecoverStep
<1> QED
  BY <1>1, <1>2, <1>3, <1>4, <1>5, <1>6 DEF Next

\* Inv holds in every reachable state: what each of the theorems below about
\* create_command, continue_run and `o7 recover` follows from.
THEOREM Invariance == Spec => []Inv
BY InitInv, NextInv, PTL DEF Spec

\* The ledger, the records and the processes keep their types.
THEOREM TypeCorrect == Spec => []TypeOK
<1>1. Inv => TypeOK
  BY DEF Inv
<1> QED
  BY <1>1, Invariance, PTL

\* However create_command is retried and redriven, however late a spawned child
\* takes its lock, and with `o7 recover` at any moment, a command's prompt
\* reaches the provider through at most one run: an invoked run's record is past
\* the dispatch boundary, which pins the command to that run.
THEOREM AtMostOnce == Spec => []AtMostOneInvocation
<1>1. Inv => AtMostOneInvocation
  <2> SUFFICES ASSUME Inv, NEW r1 \in invoked, NEW r2 \in invoked,
                      owner[r1] = owner[r2]
               PROVE  r1 = r2
    BY DEF AtMostOneInvocation
  <2>1. ASSUME NEW r \in invoked
        PROVE  r \in Runs \ {Root} /\ record[r] \notin {"absent", "pre"}
    BY DEF Inv, TypeOK, RootDone, Progress
  <2>2. cmd[owner[r1]].child = r1 /\ cmd[owner[r2]].child = r2
    BY <2>1 DEF Inv, Pinned
  <2> QED
    BY <2>2
<1> QED
  BY <1>1, Invariance, PTL

\* rebind_command_child_run_if_current never moves a command away from a run
\* whose record has AgentStarted.
THEOREM DispatchPins == Spec => []DispatchedStaysBound
<1>1. Inv => DispatchedStaysBound
  BY DEF Inv, Pinned, DispatchedStaysBound
<1> QED
  BY <1>1, Invariance, PTL

\* The one-in-flight guard of create_command and the flock of each run leave at
\* most one child of the conversation at work.
THEOREM OneChildAtWork == Spec => []ExclusiveContinuation
<1>1. Inv => ExclusiveContinuation
  <2> SUFFICES ASSUME Inv, NEW r1 \in Runs, NEW r2 \in Runs,
                      child[r1] \in Working, child[r2] \in Working
               PROVE  r1 = r2
    BY DEF ExclusiveContinuation
  <2>1. ASSUME NEW r \in Runs, child[r] \in Working
        PROVE  /\ owner[r] \in Commands /\ InFlight(owner[r])
               /\ cmd[owner[r]].child = r
    BY <2>1 DEF Inv, TypeOK, Minted, Bound, Working, Owning
  <2>2. owner[r1] = owner[r2]
    BY <2>1 DEF Inv, OneInFlight
  <2> QED
    BY <2>1, <2>2
<1> QED
  BY <1>1, Invariance, PTL

\* No seal, repair or mark_interrupted gives a terminal row to a record without
\* RunSealed.
THEOREM TerminalIsSealed == Spec => []TerminalMeansSealed
<1>1. Inv => TerminalMeansSealed
  BY DEF Inv
<1> QED
  BY <1>1, Invariance, PTL

\* The three writers of `completed` (the child, a redrive, `o7 recover`) only do
\* so over a sealed record.
THEOREM CompletedIsSealed == Spec => []CompletedMeansSealed
<1>1. Inv => CompletedMeansSealed
  BY DEF Inv
<1> QED
  BY <1>1, Invariance, PTL

\* mark_command_rejected_if_unattached_and_bound never rejects a command one of
\* whose runs, current or superseded, has started the provider.
THEOREM RejectedNeverRan == Spec => []RejectedRanNothing
<1>1. Inv => RejectedRanNothing
  <2> SUFFICES ASSUME Inv, NEW k \in Commands, cmd[k].status = "rejected",
                      NEW r \in invoked, owner[r] = k
               PROVE  FALSE
    BY DEF RejectedRanNothing
  <2>1. r \in Runs \ {Root} /\ record[r] \notin {"absent", "pre"}
    BY DEF Inv, TypeOK, RootDone, Progress
  <2>2. cmd[k].child = r
    BY <2>1 DEF Inv, Pinned
  <2> QED
    BY <2>2 DEF Inv, Rejected
<1> QED
  BY <1>1, Invariance, PTL

-----------------------------------------------------------------------------
(* The refinement of CommandContract *)

\* The provider is started once in the life of a child, before its record is
\* sealed and after its row exists.
Delivered ==
  \A r \in Runs \ {Root} :
    /\ child[r] = "dispatched" => r \notin invoked
    /\ child[r] = "invoked" => r \in invoked
    /\ record[r] = "sealed" => r \in invoked
    /\ record[r] = "dispatched" => row[r] # "none"

\* A command continues a sealed run, which is the tail of the conversation only
\* until a run of the command has a row.
Chained ==
  /\ \A k \in Commands :
       /\ cmd[k].status # "none" => cmd[k].parent \in Runs
       /\ cmd[k].parent \in Runs =>
            record[cmd[k].parent] = "sealed" /\ row[cmd[k].parent] # "none"
  /\ \A r \in Runs \ {Root} :
       /\ owner[r] \in Commands => cmd[owner[r]].status # "none"
       /\ row[r] # "none" =>
            owner[r] \in Commands /\ tail # cmd[owner[r]].parent

Chain == Delivered /\ Chained

\* A binding or a rebinding that goes through: a fresh run replaces one that has
\* not passed the dispatch boundary, if any.
FreshlyBound(k, r) ==
  /\ InFlight(k) /\ Fresh(r)
  /\ cmd[k].child \in Runs => record[cmd[k].child] \in {"absent", "pre"}
  /\ cmd'[k].child = r /\ cmd'[k].parent = cmd[k].parent
  /\ cmd'[k].status \in {"accepted", "started"}
  /\ \A j \in Commands \ {k} : cmd'[j] = cmd[j]
  /\ owner'[r] = k
  /\ \A x \in Runs \ {r} : owner'[x] = owner[x]
  /\ UNCHANGED <<row, tail, record, child, invoked>>

\* bind_command_child_run and rebind_command_child_run_if_current bind a fresh
\* run or leave the ledger alone.
LEMMA BindingCases ==
  ASSUME Inv, NEW q \in Requests, NEW r \in Runs, Bind(q, r) \/ Rebind(q, r)
  PROVE  \/ \E k \in Commands : FreshlyBound(k, r)
         \/ UNCHANGED <<ledger, record, child, invoked>>
<1> DEFINE k == request[q].key
<1>1. k \in Commands /\ cmd[k] \in CommandRow
  BY DEF Inv, TypeOK, Bind, Rebind
<1>2. ASSUME NEW s \in {"accepted", "started"}, BoundTo(q, k, r, s),
             InFlight(k), Fresh(r),
             cmd[k].child \in Runs => record[cmd[k].child] \in {"absent", "pre"}
      PROVE  FreshlyBound(k, r)
  <2> DEFINE c == [cmd[k] EXCEPT !.child = r, !.status = s]
  <2>1. c.child = r /\ c.status = s /\ c.parent = cmd[k].parent
    BY <1>1 DEF CommandRow
  <2>2. cmd' = [cmd EXCEPT ![k] = c] /\ owner' = [owner EXCEPT ![r] = k]
    BY <1>2 DEF BoundTo
  <2>3. cmd \in [Commands -> CommandRow]
    BY DEF Inv, TypeOK
  <2>4. owner \in [Runs -> Commands \cup {NoCommand}]
    BY DEF Inv, TypeOK
  <2>5. UNCHANGED <<row, tail, record, child, invoked>>
    BY <1>2 DEF BoundTo
  <2> HIDE DEF c, k
  <2>6. cmd'[k] = c /\ \A j \in Commands \ {k} : cmd'[j] = cmd[j]
    BY <1>1, <2>2, <2>3
  <2>7. owner'[r] = k /\ \A x \in Runs \ {r} : owner'[x] = owner[x]
    BY <2>2, <2>4
  <2> QED
    BY <1>2, <2>1, <2>5, <2>6, <2>7 DEF FreshlyBound
<1>3. CASE Bind(q, r) /\ cmd[k].child = NoRun
  <2>1. cmd[k].status \in CommandStatus
    BY <1>1 DEF CommandRow
  <2>2. InFlight(k)
    BY <1>1, <1>3, <2>1, Distinct DEF Inv, Minted, Bind, InFlight, CommandStatus
  <2>3. Fresh(r) /\ BoundTo(q, k, r, "started")
    BY <1>3 DEF Bind, BoundTo
  <2> QED
    BY <1>1, <1>2, <1>3, <2>2, <2>3, Distinct
<1>4. CASE Rebind(q, r) /\ StillCurrent(k, request[q].run)
  <2>1. InFlight(k) /\ cmd[k].child = request[q].run
    BY <1>4 DEF StillCurrent
  <2>2. record[request[q].run] \in {"absent", "pre"}
    BY <1>4 DEF Inv, Decided, Rebind
  <2>3. Fresh(r)
    BY <1>4 DEF Rebind
  <2>4. BoundTo(q, k, r, cmd[k].status)
    BY <1>1, <1>4 DEF Inv, Rebind, BoundTo, TypeOK
  <2>5. cmd[k].status \in {"accepted", "started"}
    BY <2>1 DEF InFlight
  <2> QED
    BY <1>1, <1>2, <2>1, <2>2, <2>3, <2>4, <2>5
<1>5. CASE Bind(q, r) /\ cmd[k].child # NoRun
  BY <1>5 DEF Bind, ledger
<1>6. CASE Rebind(q, r) /\ ~StillCurrent(k, request[q].run)
  BY <1>6 DEF Rebind, ledger
<1> QED
  BY <1>3, <1>4, <1>5, <1>6

\* What a request does keeps Chain: a command is accepted on the tail, and a run
\* is bound to it before the run has a record or a row.
LEMMA RequestChain ==
  ASSUME Inv, Chain
  PROVE  /\ \A q \in Requests, k \in Commands, p \in Runs : Accept(q, k, p) => Chain'
         /\ \A q \in Requests, r \in Runs : Bind(q, r) \/ Rebind(q, r) => Chain'
         /\ \A q \in Requests : Spawn(q) => Chain'
         /\ \A q \in Requests : CatchUp(q) => Chain'
         /\ \A q \in Requests : Reseal(q) => Chain'
         /\ \A q \in Requests : CompleteRecovered(q) => Chain'
<1> USE Distinct DEF Inv, Chain
<1>1. ASSUME NEW q \in Requests, NEW k \in Commands, NEW p \in Runs, Accept(q, k, p)
      PROVE  Chain'
  <2>1. Delivered'
    BY <1>1 DEF Delivered, Accept
  <2>2. Chained'
    BY <1>1 DEF Chained, Accept, Acceptable, parent_candidate_state_usable, TypeOK
  <2> QED BY <2>1, <2>2
<1>2. ASSUME NEW q \in Requests, NEW r \in Runs, Bind(q, r) \/ Rebind(q, r)
      PROVE  Chain'
  <2>1. CASE UNCHANGED <<ledger, record, child, invoked>>
    BY <2>1 DEF Delivered, Chained, ledger
  <2>2. ASSUME NEW k \in Commands, FreshlyBound(k, r) PROVE Chain'
    <3>1. row[r] = "none" /\ r # Root
      BY <2>2 DEF FreshlyBound, Fresh, TypeOK, Minted, Progress
    <3>2. \A j \in Commands : cmd'[j].parent = cmd[j].parent /\
            (cmd[j].status = "none" <=> cmd'[j].status = "none")
      BY <2>2 DEF FreshlyBound, InFlight
    <3>3. Chained'
      BY <2>2, <3>1, <3>2 DEF FreshlyBound, Chained, TypeOK
    <3> QED BY <2>2, <3>3 DEF FreshlyBound, Delivered
  <2> QED BY <1>2, <2>1, <2>2, BindingCases
<1>3. ASSUME NEW q \in Requests, Spawn(q)
      PROVE  Chain'
  BY <1>3 DEF Delivered, Chained, Spawn, TypeOK, ledger
<1>4. ASSUME NEW q \in Requests, CatchUp(q)
      PROVE  Chain'
  <2>1. /\ request[q].run \in Runs /\ record[request[q].run] = "sealed"
        /\ request[q].key \in Commands /\ owner[request[q].run] = request[q].key
    BY <1>4 DEF CatchUp, TypeOK, Decided, Minted
  <2>2. Delivered'
    BY <1>4, <2>1 DEF Delivered, CatchUp, AttachRow, TypeOK
  <2>3. Chained'
    BY <1>4, <2>1 DEF Chained, CatchUp, AttachRow, TypeOK
  <2> QED BY <2>2, <2>3
<1>5. ASSUME NEW q \in Requests, Reseal(q)
      PROVE  Chain'
  <2>1. \A r \in Runs : row'[r] = "none" <=> row[r] = "none"
    BY <1>5 DEF Reseal, TypeOK, Repairable
  <2> QED BY <1>5, <2>1 DEF Delivered, Chained, Reseal, TypeOK
<1>6. ASSUME NEW q \in Requests, CompleteRecovered(q)
      PROVE  Chain'
  <2>1. request[q].key \in Commands
    BY <1>6 DEF CompleteRecovered, TypeOK
  <2>2. Delivered'
    BY <1>6 DEF Delivered, CompleteRecovered
  <2>3. \A k \in Commands : cmd'[k].parent = cmd[k].parent /\
          (cmd[k].status = "none" <=> cmd'[k].status = "none")
    BY <1>6, <2>1 DEF CompleteRecovered, TypeOK, CommandRow, InFlight
  <2>4. Chained'
    BY <1>6, <2>3 DEF Chained, CompleteRecovered, TypeOK
  <2> QED BY <2>2, <2>4
<1> QED
  BY <1>1, <1>2, <1>3, <1>4, <1>5, <1>6

\* What a child does keeps Chain: the run it attaches becomes the tail, and it is
\* no command's parent.
LEMMA ChildChain ==
  ASSUME Inv, Chain, NEW r \in Runs
  PROVE  /\ Lock(r) \/ CheckBinding(r) \/ StartRecord(r) \/ Attach(r) => Chain'
         /\ AppendAgentStarted(r) \/ Invoke(r) \/ AppendRunSealed(r) => Chain'
         /\ Seal(r) \/ Finish(r) \/ Reject(r) => Chain'
         /\ Fail(r) \/ Die(r) => Chain'
<1> USE Distinct DEF Inv, Chain, ledger
<1>1. ASSUME child[r] # "none" PROVE owner[r] \in Commands /\ r # Root
  BY <1>1, ChildHasOwner
<1>2. ASSUME Lock(r) \/ CheckBinding(r) PROVE Chain'
  BY <1>2 DEF Lock, CheckBinding, ChildGoto, Delivered, Chained, TypeOK
<1>3. ASSUME StartRecord(r) PROVE Chain'
  BY <1>1, <1>3 DEF StartRecord, ChildGoto, Delivered, Chained, TypeOK, Progress
<1>4. ASSUME Attach(r) PROVE Chain'
  <2>1. Delivered'
    BY <1>1, <1>4 DEF Attach, AttachRow, ChildGoto, Delivered, TypeOK, Progress
  <2>2. Chained'
    BY <1>1, <1>4 DEF Attach, AttachRow, Chained, TypeOK
  <2> QED BY <2>1, <2>2
<1>5. ASSUME AppendAgentStarted(r) PROVE Chain'
  <2>1. Delivered'
    BY <1>1, <1>5 DEF AppendAgentStarted, ChildGoto, Delivered, TypeOK, Progress
  <2>2. Chained'
    BY <1>1, <1>5 DEF AppendAgentStarted, Chained, TypeOK, Progress
  <2> QED BY <2>1, <2>2
<1>6. ASSUME Invoke(r) PROVE Chain'
  BY <1>1, <1>6 DEF Invoke, ChildGoto, Delivered, Chained, TypeOK, Progress
<1>7. ASSUME AppendRunSealed(r) PROVE Chain'
  <2>1. Delivered'
    BY <1>1, <1>7 DEF AppendRunSealed, ChildGoto, Delivered, TypeOK, Progress
  <2>2. Chained'
    BY <1>1, <1>7 DEF AppendRunSealed, Chained, TypeOK, Progress
  <2> QED BY <2>1, <2>2
<1>8. ASSUME Seal(r) PROVE Chain'
  <2>1. \A p \in Runs : row'[p] = "none" <=> row[p] = "none"
    BY <1>8 DEF Seal, TypeOK, Sealable
  <2> QED BY <1>1, <1>8, <2>1 DEF Seal, ChildGoto, Delivered, Chained, TypeOK
<1>9. ASSUME Finish(r) \/ Reject(r) PROVE Chain'
  <2>1. child[r] # "none"
    BY <1>9 DEF Finish, Reject
  <2>2. Delivered'
    BY <1>9 DEF Finish, Reject, ChildGoto, Delivered, TypeOK
  <2>3. Chained'
    BY <1>1, <1>9, <2>1 DEF Finish, Reject, Chained, TypeOK, CommandRow
  <2> QED BY <2>2, <2>3
<1>10. ASSUME Fail(r) \/ Die(r) PROVE Chain'
  <2>1. owner[r] \in Commands /\ r # Root
    BY <1>1, <1>10 DEF Fail, Die, Owning
  <2>2. record[r] # "sealed" \/ UNCHANGED record
    BY <1>10, <2>1 DEF Fail, Die, TornRecord, Appending, Progress
  <2>3. Delivered'
    BY <1>10, <2>1 DEF Fail, Die, TornRecord, Appending, ChildGoto, Delivered,
        TypeOK, Progress
  <2>4. Chained'
    BY <1>10, <2>1, <2>2 DEF Fail, Die, TornRecord, Chained, TypeOK
  <2> QED BY <2>3, <2>4
<1> QED
  BY <1>2, <1>3, <1>4, <1>5, <1>6, <1>7, <1>8, <1>9, <1>10

\* What `o7 recover` does keeps Chain.
LEMMA RecoverChain ==
  ASSUME Inv, Chain
  PROVE  /\ \A r \in Runs : RecoverAttach(r) => Chain'
         /\ RecoverSeal \/ MarkInterrupted \/ Reconcile => Chain'
<1> USE Distinct DEF Inv, Chain
<1>1. ASSUME NEW r \in Runs, RecoverAttach(r) PROVE Chain'
  <2>1. owner[r] \in Commands /\ r # Root
    BY <1>1 DEF RecoverAttach, TypeOK, Minted, Progress
  <2>2. Delivered'
    BY <1>1, <2>1 DEF RecoverAttach, AttachRow, Delivered, TypeOK
  <2>3. Chained'
    BY <1>1, <2>1 DEF RecoverAttach, AttachRow, Chained, TypeOK
  <2> QED BY <2>2, <2>3
<1>2. ASSUME RecoverSeal PROVE Chain'
  <2>1. \A r \in Runs : row'[r] = "none" <=> row[r] = "none"
    BY <1>2 DEF RecoverSeal, TypeOK, Repairable
  <2> QED BY <1>2, <2>1 DEF RecoverSeal, Delivered, Chained, TypeOK
<1>3. ASSUME MarkInterrupted PROVE Chain'
  BY <1>3 DEF MarkInterrupted, Delivered, Chained, TypeOK
<1>4. ASSUME Reconcile PROVE Chain'
  <2>1. \A k \in Commands : cmd'[k].parent = cmd[k].parent /\
          (cmd[k].status = "none" <=> cmd'[k].status = "none")
    BY <1>4 DEF Reconcile, TypeOK, CommandRow, InFlight
  <2>2. Chained'
    BY <1>4, <2>1 DEF Reconcile, Chained, TypeOK
  <2> QED BY <1>4, <2>2 DEF Reconcile, Delivered
<1> QED
  BY <1>1, <1>2, <1>3, <1>4

\* Every step keeps Chain.
LEMMA NextChain == Inv /\ Chain /\ [Next]_vars => Chain'
<1> SUFFICES ASSUME Inv, Chain, [Next]_vars PROVE Chain'
  OBVIOUS
<1>1. ASSUME UNCHANGED <<ledger, record, child, invoked>> PROVE Chain'
  BY <1>1 DEF Chain, Delivered, Chained, ledger
<1>2. ASSUME NEW q \in Requests, NEW k \in Commands,
             (\E p \in Runs : Accept(q, k, p)) \/ Retry(q, k)
      PROVE  Chain'
  BY <1>1, <1>2, RequestChain DEF Retry
<1>3. ASSUME NEW q \in Requests, RequestStep(q) \/ Abandon(q)
      PROVE  Chain'
  BY <1>1, <1>3, RequestChain DEF RequestStep, TryLock, Classify, Abandon
<1>4. ASSUME NEW r \in Runs, ChildStep(r) \/ Fail(r) \/ Die(r)
      PROVE  Chain'
  <2>1. PersistSession(r) => Chain'
    BY DEF PersistSession, Chain, Delivered, Chained
  <2> QED BY <1>4, <2>1, ChildChain DEF ChildStep
<1>5. ASSUME NEW k \in Commands, GrowStale(k)
      PROVE  Chain'
  BY <1>1, <1>5 DEF GrowStale
<1>6. CASE RecoverStep
  BY <1>1, <1>6, RecoverChain DEF RecoverStep, RecoverScan, RecoverStops
<1> QED
  BY <1>1, <1>2, <1>3, <1>4, <1>5, <1>6 DEF Next, vars

\* Chain holds in every reachable state.
LEMMA ChainInvariance == Spec => []Chain
<1>1. Init => Chain
  BY Distinct DEF Init, Chain, Delivered, Chained
<1> QED
  BY <1>1, Invariance, NextChain, PTL DEF Spec

\* A step that keeps what CommandContract sees is a stutter of it.
Unseen ==
  /\ \A k \in Commands : Phase(k)' = Phase(k) /\ Base(k)' = Base(k)
  /\ \A k \in Commands :
       {r \in invoked : owner[r] = k}' = {r \in invoked : owner[r] = k}

LEMMA UnseenStutters ==
  ASSUME Unseen PROVE UNCHANGED Contract!contractVars
BY DEF Unseen, Contract!contractVars

\* A step that moves one command to another phase and changes nothing else.
Moved(k, from, to) ==
  /\ Phase(k) = from /\ Phase(k)' = to
  /\ \A j \in Commands \ {k} : Phase(j)' = Phase(j)
  /\ \A j \in Commands : Base(j)' = Base(j)
  /\ UNCHANGED <<invoked, owner>>

LEMMA MovedMoves ==
  ASSUME NEW k \in Commands, NEW from, NEW to, Moved(k, from, to)
  PROVE  Contract!Moves(k, from, to) /\
         UNCHANGED <<[j \in Commands |-> Base(j)],
                     [j \in Commands |-> {r \in invoked : owner[r] = j}]>>
BY DEF Moved, Contract!Moves

\* A step that writes neither commands nor records nor starts a provider.
LEMMA OutOfSight ==
  ASSUME UNCHANGED <<cmd, owner, record, invoked>> PROVE Unseen
BY DEF Unseen, Phase, Base, InFlight

\* The record of a child below the boundary, or one that the provider has left,
\* may change without the client seeing it.
LEMMA RecordUnseen ==
  ASSUME Inv, NEW r \in Runs, UNCHANGED <<cmd, owner, invoked>>,
         \A p \in Runs \ {r} : record'[p] = record[p],
         \/ r \notin invoked /\ {record[r], record'[r]} \cap {"dispatched", "sealed"} = {}
         \/ r \in invoked /\ "sealed" \notin {record[r], record'[r]}
  PROVE  Unseen
<1>1. \A k \in Commands : Phase(k)' = Phase(k)
  BY Distinct DEF Inv, TypeOK, CommandRow, Phase, InFlight
<1> QED
  BY <1>1 DEF Unseen, Base

\* Binding a fresh run to a command is not seen.
LEMMA BindingUnseen ==
  ASSUME Inv, Chain, NEW k \in Commands, NEW r \in Runs, FreshlyBound(k, r)
  PROVE  Unseen
<1>1. child[r] = "none" /\ r # Root
  BY DEF FreshlyBound, Fresh, Inv, Minted
<1>2. record[r] = "absent" /\ r \notin invoked
  BY <1>1 DEF Inv, Progress
<1>3. Phase(k) = "accepted"
  BY DEF FreshlyBound, Inv, TypeOK, CommandRow, Progress, RootDone, Phase, InFlight
<1>4. Phase(k)' = "accepted"
  BY <1>2, Distinct DEF FreshlyBound, Phase, InFlight
<1>5. \A j \in Commands \ {k} : Phase(j)' = Phase(j)
  BY DEF FreshlyBound, Phase, InFlight
<1>6. \A j \in Commands : cmd'[j].parent = cmd[j].parent /\ cmd[j].parent # r
  BY <1>2 DEF FreshlyBound, Chain, Chained
<1>7. \A j \in Commands : Base(j)' = Base(j)
  BY <1>6 DEF FreshlyBound, Base
<1>8. ASSUME NEW j \in Commands
      PROVE  {x \in invoked : owner[x] = j}' = {x \in invoked : owner[x] = j}
  BY <1>2 DEF FreshlyBound, Inv, TypeOK
<1> QED
  BY <1>3, <1>4, <1>5, <1>7, <1>8 DEF Unseen

\* Completing the commands of a set, all of them over a sealed record, is at most
\* one Completes: one command is in flight.
LEMMA CompletingStep ==
  ASSUME Inv, NEW S \in SUBSET Commands,
         \A k \in S : InFlight(k) /\ cmd[k].child \in Runs /\
                      record[cmd[k].child] = "sealed",
         \A k \in Commands : cmd'[k].parent = cmd[k].parent /\
                             cmd'[k].child = cmd[k].child,
         \A k \in S : cmd'[k].status = "completed",
         \A k \in Commands \ S : cmd'[k].status = cmd[k].status,
         UNCHANGED <<owner, record, invoked>>
  PROVE  Unseen \/ \E k \in Commands : Moved(k, "sealed", "completed")
<1>1. \A j \in Commands : Base(j)' = Base(j)
  BY DEF Base
<1>2. \A j \in Commands \ S : Phase(j)' = Phase(j)
  BY DEF Phase, InFlight
<1>3. \A j \in S : Phase(j) = "sealed" /\ Phase(j)' = "completed"
  BY Distinct DEF Phase, InFlight
<1>4. \A j, k \in S : j = k
  BY DEF Inv, OneInFlight
<1>5. CASE S = {}
  BY <1>1, <1>2, <1>5 DEF Unseen
<1>6. ASSUME NEW k \in S PROVE Moved(k, "sealed", "completed")
  BY <1>1, <1>2, <1>3, <1>4 DEF Moved
<1> QED
  BY <1>5, <1>6

\* What a child does is a step of its own command, or is not seen.
LEMMA ChildContract ==
  ASSUME Inv, Chain, NEW r \in Runs \ {Root}, NEW k \in Commands, owner[r] = k
  PROVE  /\ StartRecord(r) \/ Fail(r) \/ Die(r) => Unseen
         /\ AppendAgentStarted(r) => Moved(k, "accepted", "dispatched")
         /\ Invoke(r) => Contract!RunsPrompt(k, r)
         /\ AppendRunSealed(r) => Moved(k, "dispatched", "sealed")
         /\ Reject(r) => Unseen \/ Moved(k, "accepted", "rejected")
<1>1. ASSUME child[r] \in Working PROVE InFlight(k) /\ cmd[k].child = r
  BY <1>1 DEF Inv, Bound, Working, Owning
<1>2. ASSUME NEW j \in Commands \ {k} PROVE cmd[j].child # r
  BY <1>2 DEF Inv, Minted
<1>3. record \in [Runs -> RecordState]
  BY DEF Inv, TypeOK
<1>4. ASSUME StartRecord(r) PROVE Unseen
  <2>1. record[r] = "absent" /\ r \notin invoked
    BY <1>4 DEF StartRecord, Inv, Progress
  <2> QED
    BY <1>3, <1>4, <2>1, RecordUnseen DEF StartRecord, ledger
<1>5. ASSUME Fail(r) \/ Die(r) PROVE Unseen
  <2>1. CASE UNCHANGED record
    BY <1>5, <2>1, OutOfSight DEF Fail, Die, ledger
  <2>2. CASE child[r] \in Appending /\ record' = [record EXCEPT ![r] = "invalid"]
    <3>1. record'[r] = "invalid" /\ \A p \in Runs \ {r} : record'[p] = record[p]
      BY <1>3, <2>2
    <3>2. \/ r \notin invoked /\ record[r] \in {"absent", "pre"}
          \/ r \in invoked /\ record[r] = "dispatched"
      BY <2>2 DEF Appending, Inv, Progress, Chain, Delivered
    <3> QED
      BY <1>5, <3>1, <3>2, RecordUnseen DEF Fail, Die, ledger
  <2> QED
    BY <1>5, <2>1, <2>2 DEF Fail, Die, TornRecord
<1>6. ASSUME AppendAgentStarted(r) PROVE Moved(k, "accepted", "dispatched")
  <2>1. record[r] = "pre" /\ r \notin invoked
    BY <1>6 DEF AppendAgentStarted, Inv, Progress
  <2>2. InFlight(k) /\ cmd[k].child = r
    BY <1>1, <1>6 DEF AppendAgentStarted, Working
  <2>3. record'[r] = "dispatched" /\ \A p \in Runs \ {r} : record'[p] = record[p]
    BY <1>3, <1>6 DEF AppendAgentStarted
  <2>4. UNCHANGED <<cmd, owner, invoked>>
    BY <1>6 DEF AppendAgentStarted, ledger
  <2>5. Phase(k) = "accepted" /\ Phase(k)' = "dispatched"
    BY <2>1, <2>2, <2>3, <2>4, Distinct DEF Phase, InFlight
  <2>6. \A j \in Commands \ {k} : Phase(j)' = Phase(j)
    BY <1>2, <2>3, <2>4 DEF Phase, InFlight, Inv, TypeOK, CommandRow
  <2> QED
    BY <2>4, <2>5, <2>6 DEF Moved, Base
<1>7. ASSUME Invoke(r) PROVE Contract!RunsPrompt(k, r)
  <2>1. record[r] = "dispatched" /\ r \notin invoked
    BY <1>7 DEF Invoke, Inv, Progress, Chain, Delivered
  <2>2. InFlight(k) /\ cmd[k].child = r
    BY <1>1, <1>7 DEF Invoke, Working
  <2>3. invoked' = invoked \cup {r} /\ UNCHANGED <<cmd, owner, record>>
    BY <1>7 DEF Invoke, ledger
  <2>4. Phase(k) = "dispatched" /\ Phase(k)' = "dispatched"
    BY <2>1, <2>2, <2>3, Distinct DEF Phase, InFlight
  <2>5. \A j \in Commands \ {k} : Phase(j)' = Phase(j)
    BY <1>2, <2>3 DEF Phase, InFlight, Inv, TypeOK, CommandRow
  <2>6. \A j \in Commands : Base(j)' = Base(j)
    BY <2>3 DEF Base
  <2>7. \A x \in invoked : x \in Runs \ {Root} /\ record[x] \notin {"absent", "pre"}
    BY DEF Inv, TypeOK, RootDone, Progress
  <2>8. {x \in invoked : owner[x] = k} = {}
    BY <2>1, <2>2, <2>7 DEF Inv, Pinned
  <2>9. {x \in invoked : owner[x] = k}' = {r}
    BY <2>3, <2>8
  <2>10. ASSUME NEW j \in Commands \ {k}
         PROVE  {x \in invoked : owner[x] = j}' = {x \in invoked : owner[x] = j}
    BY <2>3
  <2>11. /\ [j \in Commands |-> Phase(j)]' = [j \in Commands |-> Phase(j)]
         /\ [j \in Commands |-> Base(j)]' = [j \in Commands |-> Base(j)]
    BY <2>4, <2>5, <2>6
  <2>12. [j \in Commands |-> {x \in invoked : owner[x] = j}]'
           = [[j \in Commands |-> {x \in invoked : owner[x] = j}]
                EXCEPT ![k] = {r}]
    BY <2>9, <2>10
  <2> QED
    BY <2>4, <2>8, <2>11, <2>12 DEF Contract!RunsPrompt
<1>8. ASSUME AppendRunSealed(r) PROVE Moved(k, "dispatched", "sealed")
  <2>1. record[r] = "dispatched" /\ InFlight(k) /\ cmd[k].child = r
    BY <1>1, <1>8 DEF AppendRunSealed, Working, Inv, Progress
  <2>2. record'[r] = "sealed" /\ \A p \in Runs \ {r} : record'[p] = record[p]
    BY <1>3, <1>8 DEF AppendRunSealed
  <2>3. UNCHANGED <<cmd, owner, invoked>>
    BY <1>8 DEF AppendRunSealed, ledger
  <2>4. Phase(k) = "dispatched" /\ Phase(k)' = "sealed"
    BY <2>1, <2>2, <2>3, Distinct DEF Phase, InFlight
  <2>5. \A j \in Commands \ {k} : Phase(j)' = Phase(j)
    BY <1>2, <2>2, <2>3 DEF Phase, InFlight, Inv, TypeOK, CommandRow
  <2> QED
    BY <2>3, <2>4, <2>5 DEF Moved, Base
<1>9. ASSUME Reject(r) PROVE Unseen \/ Moved(k, "accepted", "rejected")
  <2>1. CASE ~Rejectable(k, r)
    BY <1>9, <2>1, OutOfSight DEF Reject
  <2>2. CASE Rejectable(k, r)
    <3>1. InFlight(k) /\ cmd[k].child = r /\ row[r] = "none"
      BY <2>2 DEF Rejectable
    <3>2. r \notin invoked /\ record[r] \notin {"dispatched", "sealed"}
      BY <3>1 DEF Inv, Progress, Chain, Delivered
    <3>3. cmd' = [cmd EXCEPT ![k].status = "rejected"] /\
          UNCHANGED <<owner, record, invoked>>
      BY <1>9, <2>2 DEF Reject
    <3>4. /\ cmd'[k].status = "rejected"
          /\ \A j \in Commands : cmd'[j].parent = cmd[j].parent
          /\ \A j \in Commands \ {k} : cmd'[j] = cmd[j]
      <4>1. cmd \in [Commands -> [status : CommandStatus, parent : Runs \cup {NoRun},
                                  child : Runs \cup {NoRun}]]
        BY DEF Inv, TypeOK, CommandRow
      <4> QED
        BY <3>3, <4>1
    <3>5. Phase(k) = "accepted" /\ Phase(k)' = "rejected"
      BY <3>1, <3>2, <3>4, Distinct DEF Phase, InFlight
    <3>6. \A j \in Commands \ {k} : Phase(j)' = Phase(j)
      BY <3>3, <3>4 DEF Phase, InFlight
    <3> QED
      BY <3>3, <3>4, <3>5, <3>6 DEF Moved, Base
  <2> QED
    BY <2>1, <2>2
<1> QED
  BY <1>4, <1>5, <1>6, <1>7, <1>8, <1>9

\* A run whose record is sealed is the root, or the child of a command that has
\* completed once nothing is in flight.
LEMMA SealedParent ==
  ASSUME Inv, Chain, NEW p \in Runs, record[p] = "sealed",
         \A j \in Commands : ~InFlight(j)
  PROVE  \/ p = Root /\ owner[p] = NoCommand
         \/ owner[p] \in Commands /\ Phase(owner[p]) = "completed" /\
            cmd[owner[p]].child = p
<1>1. CASE p = Root
  BY <1>1 DEF Inv, Minted
<1>2. CASE p # Root
  <2>1. owner[p] \in Commands /\ cmd[owner[p]].child = p
    BY <1>2 DEF Inv, Pinned
  <2>2. p \in invoked
    BY <1>2 DEF Chain, Delivered
  <2>3. cmd[owner[p]].status \in CommandStatus
    BY <2>1 DEF Inv, TypeOK, CommandRow
  <2>4. cmd[owner[p]].status = "completed"
    BY <2>1, <2>2, <2>3, Distinct DEF CommandStatus, InFlight, Inv, Minted, Rejected
  <2> QED
    BY <2>1, <2>4 DEF Phase, InFlight
<1> QED
  BY <1>1, <1>2

\* A command the ledger accepts is one the contract accepts: the tail is the run
\* of a completed command, and no command carried out so far continues it.
LEMMA AcceptContract ==
  ASSUME Inv, Chain, NEW q \in Requests, NEW k \in Commands, NEW p \in Runs,
         Accept(q, k, p)
  PROVE  \E b \in Commands \cup {NoCommand} : Contract!Accepts(k, b)
<1>1. /\ record[p] = "sealed" /\ tail = p /\ cmd[k].status = "none"
      /\ \A j \in Commands : ~InFlight(j)
  BY DEF Accept, Acceptable, parent_candidate_state_usable
<1>2. PICK b \in Commands \cup {NoCommand} : owner[p] = b
  BY DEF Inv, TypeOK
<1>3. /\ cmd'[k] = [status |-> "accepted", parent |-> p, child |-> NoRun]
      /\ \A j \in Commands \ {k} : cmd'[j] = cmd[j]
      /\ UNCHANGED <<owner, record, invoked>>
  BY DEF Accept, Inv, TypeOK
<1>4. Phase(k) = "none" /\ Phase(k)' = "accepted"
  BY <1>1, <1>3 DEF Phase, InFlight
<1>5. Base(k)' = b
  BY <1>2, <1>3 DEF Base
<1>6. \A j \in Commands \ {k} : Phase(j)' = Phase(j) /\ Base(j)' = Base(j)
  BY <1>3 DEF Phase, Base, InFlight
<1>7. \A j \in Commands : Phase(j) \notin Contract!Open
  BY <1>1 DEF Phase, InFlight, Contract!Open, Inv, TypeOK, CommandRow, CommandStatus
<1>8. b = NoCommand \/ Phase(b) = "completed"
  BY <1>1, <1>2, SealedParent
<1>9. ASSUME NEW j \in Commands, Phase(j) \in Contract!CarriedOut PROVE Base(j) # b
  <2>1. cmd[j].status = "completed"
    BY <1>1, <1>9 DEF Phase, InFlight, Contract!CarriedOut, Inv, TypeOK, CommandRow,
        CommandStatus
  <2>2. cmd[j].child \in Runs /\ record[cmd[j].child] = "sealed" /\
        owner[cmd[j].child] = j
    BY <2>1 DEF Inv, CompletedMeansSealed, Minted
  <2>3. cmd[j].child # Root
    BY <2>2, Distinct DEF Inv, Minted
  <2>4. cmd[j].child \in invoked
    BY <2>2, <2>3 DEF Chain, Delivered
  <2>5. row[cmd[j].child] # "none"
    BY <2>2, <2>3, <2>4 DEF Inv, Progress
  <2>6. cmd[j].parent # p
    BY <1>1, <2>2, <2>3, <2>5 DEF Chain, Chained
  <2>7. cmd[j].parent \in Runs /\ record[cmd[j].parent] = "sealed"
    BY <2>1 DEF Chain, Chained
  <2>8. owner[cmd[j].parent] # owner[p]
    BY <1>1, <2>6, <2>7, SealedParent, Distinct
  <2> QED
    BY <1>2, <2>7, <2>8 DEF Base
<1>10. Contract!Moves(k, "none", "accepted")
  BY <1>4, <1>6 DEF Contract!Moves
<1>11. [j \in Commands |-> Base(j)]' = [[j \in Commands |-> Base(j)] EXCEPT ![k] = b]
  BY <1>5, <1>6
<1>12. UNCHANGED [j \in Commands |-> {r \in invoked : owner[r] = j}]
  BY <1>3
<1>13. Contract!Accepts(k, b)
  BY <1>7, <1>8, <1>9, <1>10, <1>11, <1>12 DEF Contract!Accepts
<1> QED
  BY <1>13

\* Whoever completes a command completes one whose record is sealed.
LEMMA CompletingContract ==
  ASSUME Inv,
         \/ \E q \in Requests : CompleteRecovered(q)
         \/ \E r \in Runs : Finish(r)
         \/ Reconcile
  PROVE  Unseen \/ \E k \in Commands : Moved(k, "sealed", "completed")
<1> DEFINE Rows == [status : CommandStatus, parent : Runs \cup {NoRun},
                    child : Runs \cup {NoRun}]
<1>1. cmd \in [Commands -> Rows]
  BY DEF Inv, TypeOK, CommandRow
<1>2. ASSUME NEW k \in Commands, InFlight(k), cmd[k].child \in Runs,
             record[cmd[k].child] = "sealed",
             cmd' = [cmd EXCEPT ![k].status = "completed"],
             UNCHANGED <<owner, record, invoked>>
      PROVE  Unseen \/ \E j \in Commands : Moved(j, "sealed", "completed")
  <2>1. /\ \A j \in Commands : cmd'[j].parent = cmd[j].parent /\
                               cmd'[j].child = cmd[j].child
        /\ \A j \in {k} : cmd'[j].status = "completed"
        /\ \A j \in Commands \ {k} : cmd'[j].status = cmd[j].status
    BY <1>1, <1>2
  <2>2. {k} \in SUBSET Commands /\
        \A j \in {k} : InFlight(j) /\ cmd[j].child \in Runs /\
                       record[cmd[j].child] = "sealed"
    BY <1>2
  <2> HIDE DEF Rows
  <2> QED
    BY <1>2, <2>1, <2>2, CompletingStep
<1>3. ASSUME NEW q \in Requests, CompleteRecovered(q)
      PROVE  Unseen \/ \E k \in Commands : Moved(k, "sealed", "completed")
  <2>1. PICK k \in Commands : request[q].key = k
    BY <1>3 DEF CompleteRecovered, Inv, TypeOK
  <2>2. request[q].run \in Runs /\ record[request[q].run] = "sealed"
    BY <1>3 DEF CompleteRecovered, Inv, TypeOK, Decided
  <2>3. CASE UNCHANGED cmd
    BY <1>3, <2>3, OutOfSight DEF CompleteRecovered
  <2>4. CASE cmd' # cmd
    BY <1>2, <1>3, <2>1, <2>2, <2>4 DEF CompleteRecovered
  <2> QED
    BY <2>3, <2>4
<1>4. ASSUME NEW r \in Runs, Finish(r)
      PROVE  Unseen \/ \E k \in Commands : Moved(k, "sealed", "completed")
  <2>1. owner[r] \in Commands /\ r # Root
    BY <1>4, ChildHasOwner DEF Finish
  <2>2. PICK k \in Commands : owner[r] = k
    BY <2>1
  <2>3. record[r] = "sealed"
    BY <1>4, <2>1 DEF Finish, Inv, Progress
  <2>4. CASE UNCHANGED cmd
    BY <1>4, <2>4, OutOfSight DEF Finish
  <2>5. CASE cmd' # cmd
    BY <1>2, <1>4, <2>2, <2>3, <2>5 DEF Finish
  <2> QED
    BY <2>4, <2>5
<1>5. ASSUME Reconcile
      PROVE  Unseen \/ \E k \in Commands : Moved(k, "sealed", "completed")
  <2> DEFINE S == {k \in Commands : InFlight(k) /\ cmd[k].child # NoRun /\
                                    SealedRow(cmd[k].child)}
  <2>1. \A k \in S : InFlight(k) /\ cmd[k].child \in Runs /\
                     record[cmd[k].child] = "sealed"
    BY <1>1 DEF SealedRow, Inv, TerminalMeansSealed
  <2>2. \A k \in S : cmd'[k] = [cmd[k] EXCEPT !.status = "completed"]
    BY <1>5 DEF Reconcile
  <2>3. \A k \in Commands \ S : cmd'[k] = cmd[k]
    BY <1>5 DEF Reconcile
  <2>4. S \in SUBSET Commands /\ UNCHANGED <<owner, record, invoked>>
    BY <1>5 DEF Reconcile
  <2> HIDE DEF S
  <2>5. \A k \in S : /\ cmd'[k].parent = cmd[k].parent
                     /\ cmd'[k].child = cmd[k].child
                     /\ cmd'[k].status = "completed"
    BY <1>1, <2>2, <2>4
  <2>6. /\ \A k \in Commands : cmd'[k].parent = cmd[k].parent /\
                               cmd'[k].child = cmd[k].child
        /\ \A k \in Commands \ S : cmd'[k].status = cmd[k].status
    BY <2>3, <2>4, <2>5
  <2> HIDE DEF Rows
  <2> QED
    BY <2>1, <2>4, <2>5, <2>6, CompletingStep
<1> QED
  BY <1>3, <1>4, <1>5

\* Every step is a step of the contract or a stutter of it.
LEMMA CommandContractStep ==
  ASSUME Inv, Chain, [Next]_vars
  PROVE  [Contract!ContractNext]_(Contract!contractVars)
<1>1. ASSUME Unseen PROVE UNCHANGED Contract!contractVars
  BY <1>1, UnseenStutters
<1>2. ASSUME UNCHANGED <<cmd, owner, record, invoked>>
      PROVE  UNCHANGED Contract!contractVars
  BY <1>1, <1>2, OutOfSight
<1>3. ASSUME NEW k \in Commands, Moved(k, "accepted", "dispatched")
      PROVE  Contract!ContractNext
  BY <1>3, MovedMoves DEF Contract!ContractNext, Contract!Dispatches
<1>4. ASSUME NEW k \in Commands, Moved(k, "sealed", "completed")
      PROVE  Contract!ContractNext
  BY <1>4, MovedMoves DEF Contract!ContractNext, Contract!Completes
<1>5. ASSUME NEW k \in Commands, Moved(k, "accepted", "rejected")
      PROVE  Contract!ContractNext
  BY <1>5, MovedMoves DEF Contract!ContractNext, Contract!Rejects
<1>6. ASSUME NEW k \in Commands, Moved(k, "dispatched", "sealed"),
             {r \in invoked : owner[r] = k} # {}
      PROVE  Contract!ContractNext
  BY <1>6, MovedMoves DEF Contract!ContractNext, Contract!Seals
<1>7. ASSUME NEW q \in Requests, NEW k \in Commands,
             (\E p \in Runs : Accept(q, k, p)) \/ Retry(q, k)
      PROVE  [Contract!ContractNext]_(Contract!contractVars)
  BY <1>2, <1>7, AcceptContract DEF Retry, ledger, Contract!ContractNext
<1>8. ASSUME NEW q \in Requests, RequestStep(q) \/ Abandon(q)
      PROVE  [Contract!ContractNext]_(Contract!contractVars)
  <2>1. ASSUME NEW r \in Runs, Bind(q, r) \/ Rebind(q, r)
        PROVE  UNCHANGED Contract!contractVars
    BY <1>1, <1>2, <2>1, BindingCases, BindingUnseen DEF ledger
  <2>2. ASSUME CompleteRecovered(q)
        PROVE  [Contract!ContractNext]_(Contract!contractVars)
    BY <1>1, <1>4, <2>2, CompletingContract
  <2> QED
    BY <1>2, <1>8, <2>1, <2>2 DEF RequestStep, Spawn, TryLock, Classify, CatchUp,
        Reseal, Abandon, ledger
<1>9. ASSUME NEW r \in Runs, ChildStep(r) \/ Fail(r) \/ Die(r)
      PROVE  [Contract!ContractNext]_(Contract!contractVars)
  <2>1. child[r] # "none"
    BY <1>9 DEF ChildStep, Lock, CheckBinding, StartRecord, Attach,
        AppendAgentStarted, Invoke, AppendRunSealed, Seal, PersistSession, Finish,
        Reject, Fail, Die, Owning
  <2>2. r \in Runs \ {Root} /\ owner[r] \in Commands
    BY <2>1, ChildHasOwner
  <2>3. PICK k \in Commands : owner[r] = k
    BY <2>2
  <2>4. CASE Lock(r) \/ CheckBinding(r) \/ Attach(r) \/ Seal(r) \/ PersistSession(r)
    BY <1>2, <2>4 DEF Lock, CheckBinding, Attach, Seal, PersistSession, ledger
  <2>5. CASE StartRecord(r) \/ Fail(r) \/ Die(r)
    BY <1>1, <2>2, <2>3, <2>5, ChildContract
  <2>6. CASE AppendAgentStarted(r)
    BY <1>3, <2>2, <2>3, <2>6, ChildContract
  <2>7. CASE Invoke(r)
    BY <2>2, <2>3, <2>7, ChildContract DEF Contract!ContractNext
  <2>8. CASE AppendRunSealed(r)
    <3>1. r \in invoked
      BY <2>2, <2>8 DEF AppendRunSealed, Chain, Delivered
    <3> QED
      BY <1>6, <2>2, <2>3, <2>8, <3>1, ChildContract
  <2>9. CASE Reject(r)
    BY <1>1, <1>5, <2>2, <2>3, <2>9, ChildContract
  <2>10. CASE Finish(r)
    BY <1>1, <1>4, <2>10, CompletingContract
  <2> QED
    BY <1>9, <2>4, <2>5, <2>6, <2>7, <2>8, <2>9, <2>10 DEF ChildStep
<1>10. ASSUME NEW k \in Commands, GrowStale(k)
       PROVE  [Contract!ContractNext]_(Contract!contractVars)
  BY <1>2, <1>10 DEF GrowStale, ledger
<1>11. CASE RecoverStep
  <2>1. ASSUME Reconcile
        PROVE  [Contract!ContractNext]_(Contract!contractVars)
    BY <1>1, <1>4, <2>1, CompletingContract
  <2> QED
    BY <1>2, <1>11, <2>1 DEF RecoverStep, RecoverAttach, RecoverSeal, RecoverScan,
        MarkInterrupted, RecoverStops, ledger
<1>12. CASE UNCHANGED vars
  BY <1>2, <1>12 DEF vars, ledger
<1> QED
  BY <1>7, <1>8, <1>9, <1>10, <1>11, <1>12 DEF Next

\* create_command, redrive_or_recover_locked, continue_run and `o7 recover`
\* together implement CommandContract: whatever their interleaving, crashes and
\* retries, what the client sees is a chain of commands carried out one at a
\* time, each at most once.
THEOREM DispatchImplementsContract == Spec => ImplementsCommandContract
<1>1. Init => Contract!ContractInit
  BY Distinct DEF Init, Contract!ContractInit, Phase, Base, InFlight
<1>2. Inv /\ Chain /\ [Next]_vars => [Contract!ContractNext]_(Contract!contractVars)
  BY CommandContractStep
<1> QED
  BY <1>1, <1>2, Invariance, ChainInvariance, PTL DEF Spec, ImplementsCommandContract,
      Contract!ContractSpec
==============================================================================
