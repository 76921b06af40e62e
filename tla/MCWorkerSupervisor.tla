------------------------ MODULE MCWorkerSupervisor ------------------------
(***************************************************************************)
(* One worker whose tree may hold two processes besides its leader, one    *)
(* pipe and a channel of one message: enough for a member to be born       *)
(* behind a scan, to leave the group with the pipe, and for the channel to *)
(* be full when the supervisor stops listening.                            *)
(***************************************************************************)
EXTENDS WorkerSupervisor

===========================================================================
